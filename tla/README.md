# A formal model of MeldDB

MeldDB stores JSON documents, typed tables and directed relationships in SQLite
or (experimentally) PostgreSQL. A `Database` handle belongs to one thread and
runs everything in transaction scopes; around it are migrations, traversal,
backup, export and import. The library itself is small and sequential: what is
hard about it is that every call of the driver may fail before or after it took
effect, that other clients commit between its statements, that the two backends
isolate them differently, and that the process may die anywhere.

## Inventory

| Part | State it keeps | Operations | What makes it correct |
| --- | --- | --- | --- |
| Handle and scopes (`database.py`) | `_state`, `_active`, `_closed`; per transaction `_live`, `_failed`, `_write` | `transaction`, `_operation`, `sql`, `close` | a scope's writes are durable together or not at all; what the caller is told of them is true; a failed operation poisons the scope; an uncertain connection is never reused |
| Backend boundary (`backend.py`) | connection, `_query_only_before`, `readonly` | `begin`, `execute`, `commit`, `rollback`, `finish_transaction`, `recover_begin` | between scopes the connection is as new; read scopes cannot write |
| Opening and maintenance (`backend.py`) | the file's journal mode, the handle's `file_backed` and `readonly`, the analysis limit | `Backend.__init__`, `sqlite_runtime`, `maintain_sqlite` | an existing file keeps its mode; no WAL by an unsafe SQLite; what is reported is in effect and complete |
| Documents (`storage.py`) | rows `id, version, body` | `get`, `find`, `insert`, `replace`, `delete` | a version names one body; no update is lost |
| Tables (`storage.py`) | typed rows | `get`, `find`, `insert`, `update`, `delete` | unnamed columns stay; constraints hold |
| Relationships (`relationships.py`) | edge rows with foreign keys | `connect`, `disconnect`, `replace_properties`, `edges`, `neighbors` | no dangling edge; restricting links protect; traversal is exact within its budgets |
| Queries (`query.py`, `Store.find`) | none | predicates, `order_by`, `limit`, `offset` | the SQL of both backends selects and orders what the documentation says; pages cover the store |
| Values (`values.py`) | none | `json_value`, `encode`, `json_loads` | a body comes back as it went in |
| Migrations (`migrations.py`) | `_melddb_objects`, `_melddb_migrations` | `create`, `add_constraint`, `apply` | revisions apply once, in order, all or nothing |
| Publication (`transfer.py`) | files beside the destination | `backup`, `export` | the destination is absent or a complete, valid, durable artifact |
| Import and inspection (`transfer.py`, `inspection.py`) | the bundle | `import_into`, `structural_errors` | what is exported can be imported, as it was; whatever is imported is sound |
| Schema, identifiers, errors, CLI | none | constructors, printing | nothing of their own |

Every part calls `Scope._operation`, which is either a transaction's (ownership,
poisoning, read-only checks) or the handle's (a scope of one operation), and
through it the backend. Documents call migrations to create a collection at its
first insert; import calls migrations and inspection, `find` and import use the
values, and backup opens a second handle to check what it copied. Handles share
nothing but the database and the filesystem.

The hard behaviours are listed with their lines, and with the properties that
would catch them going wrong, under `hazards` in `PROJECT.json`.

## Modules

`TransactionScope` is one handle and its connection. `state`, `active`, `write`,
`failed` and `saved` are the fields of `Database`, `Transaction` and `Backend`;
`pc` is where the owner thread is in `Database.transaction`; `connTx`,
`queryOnly`, `pending` and `durable` are the connection and the database. Each
driver call is an action with two parameters: how far it came and whether it
raised. `FinishTransaction(reached, raises)` has three stages because the code
forgets the saved `query_only` value before it restores it. A standalone
operation of the handle is a scope of one operation whose error always leaves
the body, which the behaviours include. Raw SQL that ends a transaction is known
by its first word, the way `_raw_sql` looks at it. `written`, `raised` and
`told` are history for the properties.

`AtomicScope` is the promise behind it: scopes gather writes, a commit point
makes them durable together, reports are truthful. `TransactionScope` implements
it under the mapping at its end (`PromiseKept`).

`TransactionScopeProofs` holds the theorems about both.

`Documents` is the documents of one collection under several clients, each with
a scope of its own. A write is at least two actions: the operation (`Insert`,
`Replace`, `Delete`) looks for the declaration and sends its statement, and the
database runs the statement (`InsertRow`, `UpdateRow`, `DeleteRow`) when the row
it needs is not locked by another scope. In between the client waits, and
`between` says for what: the statement, its document, its body and the version
it expects. The implicit creation of `insert` and the diagnosis of `replace` are
further statements of this kind. The backends differ in three operators:
`MayBegin` (SQLite's `BEGIN IMMEDIATE`), `ReadsCommitted` (write scopes of
PostgreSQL) and `MayCommit` (DELETE mode); `Lockable` and `Blocked` are
PostgreSQL's locks, which never bind on SQLite. `basis` is what the client was
last handed, and therefore the version it can expect. A body is the number of
the write that asked for it, so that two bodies of a document are the same only
if they are the same write. A waiting statement looks at the document when it
runs, so with IDs used again it takes one that was deleted and inserted
meanwhile, where PostgreSQL follows the row it found; the runs use no ID again.
`MCDocuments` gives the two documents and how often each may be written
(`Loads`).

`Migrations` is the clients that migrate one database, statement by statement:
`mine` is what a client's scope has added and not committed, `View` what its
statements see, `call`, `revision` and `operation` where it is in the lists it
was given. Implicit creation by an insert is a call of one operation that records
nothing and takes no lock. Rules are the constraints and indexes; what a rule
says is abstracted to whether some row breaks it (`rows`), which another scope
may write until the trigger or index is there (`guards`). `MCMigrations` gives
the lists of the instance: growing ones, and ones that were edited, are out of
order, or fail in their second revision.

`RevisionLog` is what `migrate` promises: a log that only grows at its end, in
the order of the IDs; a successful call extends it at one moment by what it
brings that is new, and a call refused for drift or order is refused rightly.
`Migrations` implements it (`LogPromise`), which makes concurrent calls
linearizable.

`Artifacts` is the attempts of several processes at one destination: physical
backups and logical exports, each a program counter, a temporary name, and the
state of every object its file holds. `qualities` records what has been done to
the file (written whole, detached from its WAL, validated, synced), and `raised`
which attempts run their `finally` clause because of an error: `Publish` raises
when the name is taken, and an attempt returns normally when nothing raised,
without looking at the destination again.

`Traversal` is one call of `neighbors` against a relationship that another
client changes. `Visible` is the scope's snapshot, or the committed state where
an explicit write scope of PostgreSQL reads. Frontiers and chunks are sets: the
order of names decides at most which of two errors is raised. The reference the
result is compared with is the recursive function `Within`.

`OpenFile` is several processes that open one file, each with the SQLite library
it was built with (`version`): whether the file exists, what mode its header
has, the checks, the conversion and the verification are steps, between which
others open and convert. `known` is the mode a connection found when it last
read the file, which is what `PRAGMA journal_mode` answers. `founders` and
`overtaken` are history: who found no file, and whose file became a WAL file
after its own check.

`Maintenance` composes `OpenFile` with what the processes do with an open file:
scopes with a mark in the WAL and one writer, and the handle of `Keeper`, which
runs `maintain_sqlite`: the analysis limit is lowered, statistics are taken or
fail, the limit is restored, and a checkpoint of any mode reports whether it was
complete. Opening and closing are the actions of `OpenFile`, guarded and
extended by what they do to the WAL.

`Records` is the rows of a table and two relationships between them, one cascading
and one restricting, under several clients. Each operation is one statement; its
foreign keys, cascades and refusals are part of the step. A scope's writes are
laid over the committed rows and edges, and locks decide whether a step waits.

`Predicates` is the SQL that `query.py` compiles for a field or a column on each
backend, over values that have a type and a number standing for their text,
with SQL's three truth values and a fourth for a statement that fails. Beside it
stands what the documentation says a predicate means. `Queries` is `Store.find`
over it: predicates, orderings whose ties and NULLs the database may place as it
likes, pages inside and outside scopes, and another client that writes between
them. A predicate is a list of its nodes, the parts before the whole, so that
what it means and what SQL makes of it are recursive functions on its numbers. A
record has one field or column for its predicates to look at: a tree over several
is covered only in that each test is exact by itself and each connective is exact
in what it is given.

`JsonValues` is what happens to a number of a body in `encode`, in the column
(JSONB renders an exponent as digits) and in `json_loads`. `Transfer` is a
database, sound, damaged, or without a part of its metadata (which raw SQL can
delete and no check misses), that is checked, exported, edited or not in its
bundle, and imported statement by statement into a database of either backend,
with interruptions and retries; `Check` is `structural_errors` and the handle's
check. Which file the bundle is in, and how it gets there, is `Artifacts`.

The modules whose names begin with `MC` give the instances TLC checks. Those
that end in `Proofs` hold the theorems about the module they are named after;
`DataProofs` holds those about `Predicates`, `Queries`, `JsonValues` and `Transfer`, and
`MaintenanceProofs` also those about `OpenFile`.

Each module lists, before `Init`, forms of its definitions that a mistake in the
code would give. No specification uses them; putting one in the place of the
definition it imitates breaks the property paired with it under `mutants`.

## Runs

| Run | Instance | States | Shows |
| --- | --- | --- | --- |
| `transaction_scope` | two writes, two denied control statements | 1,897 | safety, liveness and refinement of one handle |
| `documents` | two clients, two documents, three backends, versions up to 2, three bodies of one document or one of each, IDs not reused | 205,000 | optimistic versions, stable read scopes, SQLite's writers see the latest state, a waiting statement ends |
| `migrations` | two clients, six lists of up to three revisions, both backends | 91,000 | revisions apply once, in order, all or nothing; metadata, SQL objects and rows agree |
| `artifacts` | one backup, one export, two objects, two source commits | 58,500 | publication is atomic and complete, success only after one's own |
| `traversal` | every relationship on three records, both endpoint combinations, one concurrent change | 2,000,000 | exact answers and budgets |
| `maintenance` | two processes, four SQLite versions, two WAL frames | 580,000 | which mode the file has and who may write it; limits are restored, complete means complete |
| `transfer` | a collection with one rule, a relationship of it with itself, every damage check looks for, metadata without an object or a rule | 38,000 | round trip, and what is imported is sound |
| `records` | two clients, two rows, two columns, one link of two relationships, two writes a scope | 374,000 | no dangling edge, restriction protects, unnamed columns stay |
| `queries` | every comparison, negation and pair on one record; three records (of documents: numbers, booleans, null, missing) in pages of two with a concurrent write | 747,000 | SQL means what is documented; pages partition the store |
| `raw_control_sql`, `missing_replace`, `vanished_neighbor` | as above | | disagreements below |

Bounds. Two writes are the fewest of which half could be durable. Two clients
are the fewest that conflict, and every property of `Documents` relates one
client to the committed state; `MaxVersion = 2` reaches the exhausted counter by
one replacement, three bodies of one document allow an insert, an update in
between, and the write that must notice it, and two documents are the fewest whose
row locks two scopes can take crosswise (each written once, then deleted). The lists of `migrations` contain each way a call can
meet a log: new, a prefix of it, beyond it, edited, out of order, failing half
way; two clients are enough because PostgreSQL's lock and SQLite's admit one at a
time and each relation is between two calls. With two commits an export can read
one object before and one after a commit, and a structurally broken state can
come between two sound ones. Three records give paths of length two, cycles and
self-links; the budgets are reached exactly and exceeded; `ChunkSize = 1` makes
each node of a frontier a statement of its own. The versions of `maintenance`
are a release with the fix of the WAL-reset bug, the one before it, a backport
and the branch above the backport, so that both bounds of a range matter; with
two frames a checkpoint can copy none, some or all. One link between two rows
has both its endpoints deleted and restored under it, and two writes let one
scope disconnect and delete. Numbers stand for the places where their treatment
changes: safe integers, floats without and with an exponent, integers beyond
every float. Three records in pages of two make a full page, a short one, and a
boundary that a write moves. Strings, arrays and objects are missing among them:
how terms of these types are ordered rests on the proof of `AnswersAreExact`. Symmetry (`records`) is of the clients and of the
columns, which nothing tells apart. `MaxFrames`, `MaxWrites`, `Loads`,
`MaxVersion`, `MaxCommits` and `MaxChanges` are the bounds in the guards.

Fairness. `ScopeEnds` assumes that driver calls return or raise, that an
operation ends, and that the application's body leaves its scope if it again and
again could: the `with` statement ends each body that ends. `StatementsEnd`
assumes that the database runs a statement it was sent when the lock is free, and
that `lock_timeout`, which the backend always sets, or the end of a deadlock makes
the others give up. No scope has to end for it. On SQLite only `BEGIN IMMEDIATE`
waits; when it gives up, nothing has begun and no step is taken. Nothing is assumed of commits succeeding, of other
clients' scopes ending, or of processes surviving.

Only `artifacts`, `traversal`, `vanished_neighbor` and `transfer` switch the
deadlock check off: their attempts and their calls come to an end. The runs were
all complete.

## Disagreements with the documentation

With a run that shows them:

- Raw SQL compares the first whitespace-delimited word of a statement with a
  deny list. `COMMIT;` is not in it, nor is PostgreSQL's `ABORT`: both end the
  scope's transaction while the body goes on (`raw_control_sql`).
- An unconditional `replace` of an absent document looks up the reason of its
  failure in a second statement. On PostgreSQL a document inserted in between
  makes it report an exhausted version counter (`missing_replace`).
- `neighbors` in an explicit write scope of PostgreSQL raises `KeyError` when a
  neighbor is deleted between discovery and retrieval (`vanished_neighbor`).

Met while modelling, where a passing property marks the boundary instead:

- `insert` starts every document at version 1, also one whose ID was used and
  deleted before. A stale `expected_version` then matches a document its holder
  never saw (`README.md:80`). Generated IDs do not repeat, and without reuse
  `NoLostUpdate` holds, which is why `ReuseIds` is false in `documents`.
- An opener that found no file takes WAL although another has created the file,
  in another mode, meanwhile (`docs/sqlite-runtime.md:27` keeps an existing mode):
  `ModeChangesOnRequest` says "or had found no file".
- A process with an unqualified library that opened the file before another
  converted it goes on writing it (`docs/sqlite-runtime.md:42-45`):
  `UnsafeWritersWereOvertaken` says that this is the only way.
- The mode such a handle reports is the one it found
  (`docs/sqlite-runtime.md:5-6`): `ReportIsEffective` excepts it.
- Pages read one after the other in a write scope of PostgreSQL can repeat or
  miss records that another client moved (`docs/queries-and-crud.md:85-86`):
  `PagesPartition` excepts it.
- `check` compares the recorded revisions with nothing (`inspection.py:17-26`):
  after raw SQL has deleted or stripped a row of `_melddb_objects`, it finds
  nothing, and the export succeeds. Import refuses that bundle, because a revision
  names an object it does not bring (`transfer.py:229-231`); on PostgreSQL also
  one whose relationship has lost the row of an endpoint. `ExportedIsImportable`
  excepts exactly these two (`LogInForce`, `EndsDeclared`).

## Proofs

`TransactionScopeProofs` proves, for every set of writes, each safety property
of the run `transaction_scope` and that `TransactionScope` implements
`AtomicScope`. The hypothesis of each theorem is
`ControlVerbs \subseteq DeniedVerbs`: the application passes no control
statement but those raw SQL refuses. It is necessary, as `raw_control_sql`
shows, and it is the only one.

The argument is one inductive invariant, `IInv`. The reports are not inductive
by themselves: that a failed scope reports truthfully rests on what was durable
when it began to clean up (`WritesInv`), that on the transaction holding exactly
what the scope has written while no operation failed (`ConnectionInv`: a failure
may end SQLite's transaction, which is why the poison flag is part of it), and
that a read scope writes nothing on its connection being under `query_only` from
entry to cleanup (`QueryOnlyInv`), which in turn needs the control states of the
handle (`ControlInv`). `StepInv` has one step per action. The two action
properties and the refinement follow step by step from `IInv`.

`ArtifactsProofs` proves the safety properties of the run `artifacts` for every
set of attempts and objects and every bound on the commits, from
`ArtifactsAssumption` alone. Its invariant `AInv` says of each attempt what it
has got by its step: an export everything from one sound snapshot
(`ExportInv`), a backup a copy of one committed state that the check has found
sound (`BackupInv`), both a file that is whole and synced before it is
published. It is needed because publishing looks only at the name: what is
published is complete because every step before it was taken. That success is
true rests on the attempt whose `finally` clause runs without an error having
published, and on nobody replacing what it published before it returns. One lemma per
action shows what the step keeps of its own attempt; `Assemble` adds that it
leaves the others alone.

`DocumentsProofs` proves the type invariant and the safety properties of the run
`documents` for any clients, documents and bounds. Those that relate a version
to a body, `VersionNamesBody` and `NoLostUpdate`, have the hypothesis
`~ReuseIds`, without which they are false; the others have none. Versions alone
are not inductive: that a version names one body rests on every uncommitted
document being newer than all that were published under its ID (`Pending`), that
on the committed one being the last published (`Latest`) and on the row locks
that let one scope write a document at a time (`Locks`). `NoLostUpdate` adds
that whatever a client was handed was published or is its own (`Bases`), and that
the version a waiting statement carries is still the one its client was handed
(`Halves`). `WriterSeesLatest` is about SQLite alone.

`RecordsProofs` proves the type invariant and the properties of the run `records`
for any clients, rows, relationships and values. The views of `RInv` say that
what a scope sees has no dangling edge; they hold because a writer of an edge
locks both its endpoints and a deletion locks the row and the edges it takes
with it (`RowLocks`, `EdgeLocks`, `Holds`), so that no commit changes what
another scope's writes rest on.

`MigrationsProofs` proves the properties of the run `migrations` for any clients
and any lists of revisions that are not empty and whose IDs are not (0 stands
for the empty ID, which `migrate` refuses). The invariant `MInv` says of each
client what its place in its call has established: the operations behind it are
in effect (`Behind`), what it has made fits what it sees (`Fits`) and differs
from what has been noted by at most the object just made (`Noting`), and no row
breaks a rule that is about to be installed (`Guarding`). Two scopes of
PostgreSQL may be under way at once; that they never make a table of the same
name (`Apart`) keeps the committed metadata and SQL objects equal.

None of that needs the lock on the revisions. The refinement does
(`LogIsPromised`): `RevisionLog` extends its log at one moment, the commit,
although `migrate` reads and writes the log revision by revision. The invariant
`LogInv` says that what a scope sees of the log is what the revisions behind it
come to when they follow the committed log (`Growth`), that this log is in order,
and that the next revision to be recorded is above all of it. It is kept because
no other call commits a revision meanwhile: on PostgreSQL the lock admits one
(`OneLocker`), on SQLite the scope is alone. A call that is refused for drift or
order is then refused rightly, because what it saw begins every log that its
request could lead to (`GrowthBegins`, `Unacceptable`).

`MaintenanceProofs` proves that `Maintenance` implements `OpenFile`
(`MaintenanceOpens`), carries the safety of `OpenFile` over from its invariant
`OInv`, which says what each step of an opening has established about the mode
of the file, and proves `LimitRestored` from `LimitInv`. `CompleteIsTrue` rests
on `WalKnown`: a connection that knows the file as a WAL file is right, however
long ago it looked, and so the checkpoint it asks for is one of the WAL. The
type invariant of `Maintenance` says what the WAL, the scopes, the job of the
keeper and the mode of the file have to do with each other
(`MaintenanceTypes`).

`TraversalProofs` proves, for every finite set of records, every relationship on
them, every chunk size, every limit and every change by another client, that no
call does more work than its budgets allow (`WorkIsBounded`) and, where the scope
reads a snapshot or nothing changed under it, that the neighbors answered are
those that paths of the permitted lengths reach (`NeighborsAreExact`) and that a
call is refused exactly when its budgets are too small (`BudgetsAreExact`). The
invariant `TInv` compares the traversal with the recursive function `Within`:
`PastInv` says what the finished hops have found, `HopInv` what the chunks of the
hop in progress have, `BudgetInv` what both have spent.

`DataProofs` has four parts. The SQL of each test on a field or a column means
what is documented, for every stored value and argument on both backends, by
cases over their types; that connectives keep this is part of the fourth part
(`TreeExact`).
Numbers survive their round trips, from `NumbersAssumption`, that safe integers
end below the floats with an exponent.

The third part is the round trip of `Transfer`. Its assumption on the sources,
`IsDatabase`, says that rows, names and the log have the shape the library gives
them; the damage that raw SQL does to structures, edges and checksums is then
any, since it is what the checks look for, and the metadata need not hold what
the log records. The theorem on exports needs that it does (`LogInForce`), and
from PostgreSQL that no relationship has lost an endpoint's declaration
(`EndsDeclared`): both are conditions in the property, not assumptions. The invariant `TransferInv` follows the plan of
the import: after its first k statements the database in the scope is what
exactly these statements make of the bundle (`Progress`, `Holds`), the bundle is
what the export made of the source (`FromSource`), and an import that has ended
has done all of its plan and passed the check (`Finished`). It is needed because
each statement's foreign keys and rules rest on those before it: objects come
before the relationships between them, rows before edges, and the check comes
last. That an import leaves what was exported (`ImportsRestore`), that whatever
it leaves is sound even if the bundle was edited (`ImportsAreSound`), and that
the bundle of a sound source is accepted (`ExportsAreImportable`) follow from it.
TLC checked `TransferInv` on the instance of the run before it was proved.

The fourth part is `Queries`: for every finite set of IDs, every contents, every
predicate of any size, every order and every limit, a find answers with the page
of the documented order that was asked for (`AnswersAreExact`), and the pages of
an undisturbed scope cover what it began with once (`PagesArePartitions`).
`QueriesAssumption` says that stored values and predicates are those the library
accepts and that a column holds one type. The lemmas go from the atoms to the
nodes of a predicate (`TreeExact`), from the keys of the terms to the order
(`EarlierIsBefore`: what is documented to come first, `ORDER BY` puts first, with
NULLs last on one backend and first on the other) and from the order to the list
(`OneListing`: a finite set is listed in one way, so that no tie is left to the
database). `QueriesInv` adds what a scope sees: a read scope its snapshot, a
write scope of SQLite what nobody else may change, and that the pages so far are
a prefix of the documented list as long as the last one ends. TLC checked it, too.

The provers cannot take the library's induction theorems, whose parameters are
operators. Where a proof needs induction, over the statements of a plan, the
revisions of a request or the chunks of a frontier, it is the impossibility of a
least counterexample (`Least`, `Induction`): the naturals are well-founded, and
the counterexamples are a set. That a recursive function satisfies the equation
that defines it is proved in the same way.

Only model-checked: liveness (`ScopeEnds`, `StatementsEnd`), which the prover
does not reach. The type invariant of `Transfer` documents its variables and is
not part of a run; those of `OpenFile`, `Maintenance`, `Records`, `Migrations`,
`Traversal` and `Queries` are not part of a run either, but proved.

## Plan

1. Done: `AtomicScope`, `TransactionScope`, `Documents`, `RevisionLog`,
   `Migrations`, `Artifacts`, `Records`, `OpenFile`, `Maintenance`, `Predicates`,
   `JsonValues`, `Traversal`, `Transfer` and `Queries` with their proofs.
2. The access mode of PostgreSQL's read scopes in `TransactionScope`, which
   `SET TRANSACTION` may change before the first query: `Writable` takes the READ
   ONLY of its `BEGIN` as lasting until the transaction ends.
3. The quarantine after a `COMMIT` that DELETE mode refuses, composed with
   `Documents`.
4. The rewriting of placeholders for PostgreSQL (`pg_sql`) against a reference
   lexer.

## Not modelled

SQL text, the encodings of column values, collations, the formatting of native
exclusions and the rewriting of placeholders for PostgreSQL are pure functions
that the tests reach; the models take each statement by what it does. Power loss
is not modelled: durability ends with a commit of the database and an `fsync` of
a file. The command line, the schema constructors, the identifiers and the error
classes have no behaviour of their own. Asynchronous exceptions such as
`KeyboardInterrupt` are modelled inside the calls of the backend and in the body,
not between two statements of `transaction`. Other clients of a PostgreSQL
database that is the destination of an import are not modelled: `Migrations` has
the races of creation. The programs under `validation/` (`comparison.py`,
`traversal_scale.py`) measure the library from outside and are no part of it.
