-------------------------------- MODULE Transfer --------------------------------
(***************************************************************************)
(* Logical transfer: a database is checked and exported, its bundle perhaps  *)
(* edited and resealed with fresh checksums, and imported into another        *)
(* database, statement by statement in one write scope that may fail         *)
(* anywhere and be tried again.                                             *)
(*                                                                         *)
(* A database is its declarations, the structures that enforce them, rows     *)
(* and the revision log.  A row of a collection is an ID, a version, whether   *)
(* the body obeys the rule of the instance, and the literal of a number in    *)
(* the body; a row of a relationship is a pair of IDs.  Publication of the file is the subject of Artifacts.   *)
(***************************************************************************)
EXTENDS JsonValues, Sequences, SequencesExt, FiniteSets

CONSTANTS
  Names,           \* of managed storage, in their order
  Rules,           \* constraints that may be declared
  Sources,         \* the databases to export
  StrayRows        \* per name: rows an editor may put in a bundle

VARIABLES
  fromPg, toPg,    \* the backends of source and destination
  source, dest,    \* the two databases
  bundle, edited,
  pc,              \* "source", "bundle", "importing", "done", or "refused"
  mine,            \* what the import's scope sees
  todo             \* the statements it has left

vars == <<fromPg, toPg, source, dest, bundle, edited, pc, mine, todo>>

None == "none"

Empty ==
  [made |-> FALSE, specs |-> <<>>, tables |-> {}, guards |-> {}, triggers |-> FALSE,
   rows |-> [n \in Range(Names) |-> {}], log |-> <<>>]

Bare(spec) == [spec EXCEPT !.rules = {}]
Declared(db) == DOMAIN db.specs
IsEdge(spec) == spec.op = "relationship"
IdsOf(rows) == {r[1] : r \in rows}

(* An operation of a revision is in force when the metadata declares what it  *)
(* made.                                                                   *)
InForce(db, o) ==
  /\ o[2] \in Declared(db)
  /\ IF o[1] = "create" THEN o[3] = Bare(db.specs[o[2]]) ELSE o[3] \in db.specs[o[2]].rules

LogInForce(db) == \A e \in Range(db.log) : \A o \in e.ops : InForce(db, o)

EndsDeclared(db) ==
  \A n \in Declared(db) : IsEdge(db.specs[n]) =>
    \A end \in {db.specs[n].source, db.specs[n].target} : end \in Declared(db) /\ ~IsEdge(db.specs[end])

Increasing(log) == \A i \in DOMAIN log \ {1} : log[i].id > log[i-1].id

Schemas == [op : {"collection", "relationship"}, source : Range(Names) \cup {None},
            target : Range(Names) \cup {None}, rules : SUBSET Rules]

(* What the operations of the library make of a database, and raw SQL then    *)
(* does to its structures, edges, checksums and metadata: a row of            *)
(* _melddb_objects may be deleted, which leaves a table that is external, or   *)
(* lose its constraints, so the log need not be in force any more and an end   *)
(* of a relationship need not be declared.                                  *)
Fits(spec, row) ==
  IF IsEdge(spec) THEN row = <<row[1], row[2]>>
  ELSE row = <<row[1], row[2], row[3], row[4]>> /\ row[2] \in Nat /\ row[4] \in Literals

IsDeclaration(db, n) ==
  LET spec == db.specs[n]
  IN /\ spec \in Schemas
     /\ IsFiniteSet(spec.rules) /\ IsFiniteSet(db.rows[n])
     /\ \A r \in db.rows[n] : Fits(spec, r)
     /\ IF IsEdge(spec)
          THEN spec.rules = {} /\ {spec.source, spec.target} \subseteq Range(Names)
          ELSE /\ {spec.source, spec.target} = {None}
               /\ \A r, s \in db.rows[n] : r[2] >= 1 /\ (r[1] = s[1] => r = s)

IsDatabase(db) ==
  /\ db = [made |-> db.made, specs |-> db.specs, tables |-> db.tables, guards |-> db.guards,
           triggers |-> db.triggers, rows |-> db.rows, log |-> db.log]
  /\ db.specs = [n \in Declared(db) |-> db.specs[n]] /\ db.rows = [n \in Range(Names) |-> db.rows[n]]
  /\ Declared(db) \subseteq Range(Names) /\ db.tables \subseteq Declared(db)
  /\ \A n \in Declared(db) : IsDeclaration(db, n)
  /\ \A n \in Range(Names) \ Declared(db) : db.rows[n] = {}
  /\ db.triggers \in BOOLEAN /\ db.log \in Seq(Range(db.log)) /\ Increasing(db.log)
  /\ \A e \in Range(db.log) :
       e = [id |-> e.id, ops |-> e.ops, sealed |-> e.sealed] /\ e.id \in Nat /\ e.sealed \in BOOLEAN

ASSUME TransferAssumption ==
  /\ Names \in Seq(Range(Names)) /\ IsInjective(Names) /\ None \notin Range(Names)
  /\ \A db \in Sources :
       IsDatabase(db) /\ \A n \in Declared(db) : \A r \in StrayRows[n] : Fits(db.specs[n], r)

TypeOK ==
  /\ {fromPg, toPg, edited} \subseteq BOOLEAN
  /\ pc \in {"source", "bundle", "importing", "done", "refused"}
  /\ \A db \in {dest, mine} : db.tables = Declared(db) /\ Declared(db) \subseteq Range(Names)

-----------------------------------------------------------------------------
(* inspection.structural_errors and Database._check.                        *)

RuleHolds(db, n) == \A r \in db.rows[n] : r[3]

EndpointsThere(db, n, row) ==
  row[1] \in IdsOf(db.rows[db.specs[n].source]) /\ row[2] \in IdsOf(db.rows[db.specs[n].target])

RevisionsSealed(db) == \A e \in Range(db.log) : e.sealed

(* The structures that the declarations give in an empty database, where     *)
(* they can be made at all (EndsDeclared), and no trigger besides.           *)
StructureMatches(db) ==
  /\ db.tables = Declared(db) /\ ~db.triggers
  /\ db.guards = {g \in Declared(db) \X Rules : g[2] \in db.specs[g[1]].rules}

DataObeysRules(db) == \A n \in Declared(db) : db.specs[n].rules # {} => RuleHolds(db, n)

ForeignKeyCheck(db) ==
  \A n \in Declared(db) : IsEdge(db.specs[n]) => \A row \in db.rows[n] : EndpointsThere(db, n, row)

(* The revisions are compared with their checksums, not with the metadata.   *)
Check(db, pg) ==
  /\ RevisionsSealed(db)
  /\ IF pg THEN Declared(db) \subseteq db.tables
     ELSE ForeignKeyCheck(db) /\ EndsDeclared(db) /\ StructureMatches(db) /\ DataObeysRules(db)

(* Rows as a handle of one backend or the other reads them.                  *)
HasNumber(row) == Len(row) = 4
Reading(pg, rows) == {IF HasNumber(r) THEN [r EXCEPT ![4] = Decoded(pg, @)] ELSE r : r \in rows}

NumbersPortable(pg, rows) == \A r \in rows : HasNumber(r) => Portable(Decoded(pg, r[4]))

-----------------------------------------------------------------------------
(* transfer.export and the validation of transfer.import_into.              *)

(* SelectSeq, in terms of an operator that proofs can expand.                *)
Selected(s, S) == FlattenSeq([i \in DOMAIN s |-> IF s[i] \in S THEN <<s[i]>> ELSE <<>>])

NamesOf(db) == Selected(Names, Declared(db))

ExportedRows(pg, rows) == {IF HasNumber(r) THEN [r EXCEPT ![4] = Exported(pg, @)] ELSE r : r \in rows}

Export(db, pg) ==
  [sealed |-> TRUE, log |-> db.log,
   objects |-> [i \in DOMAIN NamesOf(db) |->
     LET n == NamesOf(db)[i]
     IN [name |-> n, spec |-> db.specs[n], rows |-> ExportedRows(pg, db.rows[n]), sealed |-> TRUE]]]

(* What someone with an editor makes of a bundle, checksums recomputed or not.*)
Edits(b) ==
  LET objects == DOMAIN b.objects
      revisions == DOMAIN b.log
      Object(i, o) == [b EXCEPT !.objects[i] = o]
  IN {[b EXCEPT !.sealed = FALSE]}
     \cup {[b EXCEPT !.objects = RemoveAt(@, i)] : i \in objects}
     \cup {[b EXCEPT !.objects = Append(@, b.objects[i])] : i \in objects}
     \cup {Object(i, [b.objects[i] EXCEPT !.sealed = FALSE]) : i \in objects}
     \cup {Object(i, [b.objects[i] EXCEPT !.spec.rules = {}]) : i \in objects}
     \cup {Object(i, [b.objects[i] EXCEPT !.spec.target = n]) : i \in objects, n \in Range(Names)}
     \cup (UNION {{Object(i, [b.objects[i] EXCEPT !.rows = @ \cup {r}]) :
                     r \in StrayRows[b.objects[i].name]} : i \in objects})
     \cup {[b EXCEPT !.log = Append(@, b.log[i])] : i \in revisions}
     \cup {[b EXCEPT !.log[i].sealed = FALSE] : i \in revisions}
     \cup {[b EXCEPT !.log[i].id = 9] : i \in revisions}

-----------------------------------------------------------------------------
(* Forms of the definitions below that a mistake in the code would give;    *)
(* no specification uses them.                                              *)

InNameOrder(b) == b.objects

NamesExist(b, o) == \E d \in Range(b.objects) : d.name = o[2]

-----------------------------------------------------------------------------
WellFormed(o) ==
  /\ o.sealed
  /\ IsEdge(o.spec) \/ (o.spec.op = "collection" /\ {o.spec.source, o.spec.target} = {None})
  /\ IsEdge(o.spec) => o.spec.rules = {}

(* An operation of a revision agrees with the schema the bundle declares.    *)
Agrees(b, o) ==
  \E d \in Range(b.objects) :
    /\ d.name = o[2]
    /\ IF o[1] = "create" THEN o[3] = Bare(d.spec) ELSE o[3] \in d.spec.rules

CreationOnly(b) ==
  /\ \A d \in Range(b.objects) : d.spec.rules = {}
  /\ \A e \in Range(b.log) : \A o \in e.ops : o[1] = "create"

Valid(b) ==
  /\ b.sealed
  /\ \A d \in Range(b.objects) : WellFormed(d)
  /\ \A i, j \in DOMAIN b.objects : b.objects[i].name = b.objects[j].name => i = j
  /\ Increasing(b.log)
  /\ \A e \in Range(b.log) : e.sealed /\ \A o \in e.ops : Agrees(b, o)
  /\ toPg => CreationOnly(b)

(* Endpoints come before relationships.                                     *)
Sorted(b) ==
  LET edges == {d \in Range(b.objects) : IsEdge(d.spec)}
  IN Selected(b.objects, Range(b.objects) \ edges) \o Selected(b.objects, edges)

(* What is inserted for a row: a record's version comes with it.             *)
AsStored(row) == IF HasNumber(row) THEN [row EXCEPT ![4] = Imported(toPg, @)] ELSE row

StatementsFor(d) ==
  <<<<"create", d.name, Bare(d.spec)>>>>
  \o SetToSeq({<<"row", d.name, r>> : r \in d.rows})
  \o SetToSeq({<<"rule", d.name, rule>> : rule \in d.spec.rules})

Plan(b) ==
  FlattenSeq([i \in DOMAIN b.objects |-> StatementsFor(Sorted(b)[i])])
  \o [i \in DOMAIN b.log |-> <<"revision", b.log[i]>>]
  \o <<<<"check">>>>

-----------------------------------------------------------------------------
(* What a statement of the import needs, and what it leaves.                *)

CreateAccepts(db, n, spec) ==
  IF n \in Declared(db) THEN Bare(db.specs[n]) = spec
  ELSE IsEdge(spec) =>
         \A end \in {spec.source, spec.target} : end \in Declared(db) /\ ~IsEdge(db.specs[end])

RowAccepts(db, n, row) ==
  IF IsEdge(db.specs[n]) THEN row \notin db.rows[n] /\ EndpointsThere(db, n, row)
  ELSE row[2] >= 1 /\ Portable(Decoded(FALSE, row[4])) /\ row[1] \notin IdsOf(db.rows[n])

Accepts(db, s) ==
  CASE s[1] = "create" -> CreateAccepts(db, s[2], s[3])
    [] s[1] = "row" -> RowAccepts(db, s[2], s[3])
    [] s[1] = "rule" -> RuleHolds(db, s[2])
    [] s[1] = "revision" -> \A e \in Range(db.log) : e.id # s[2].id
    [] s[1] = "check" -> Check(db, toPg)

CreateOn(db, n, spec) ==
  [db EXCEPT !.specs = [m \in Declared(db) \cup {n} |-> IF m = n THEN spec ELSE @[m]],
             !.tables = @ \cup {n}]

Applied(db, s) ==
  CASE s[1] = "create" -> IF s[2] \in Declared(db) THEN db ELSE CreateOn(db, s[2], s[3])
    [] s[1] = "row" -> [db EXCEPT !.rows[s[2]] = @ \cup {AsStored(s[3])}]
    [] s[1] = "rule" -> [db EXCEPT !.specs[s[2]].rules = @ \cup {s[3]}, !.guards = @ \cup {<<s[2], s[3]>>}]
    [] s[1] = "revision" -> [db EXCEPT !.log = Append(@, s[2])]
    [] s[1] = "check" -> db

-----------------------------------------------------------------------------
Init ==
  /\ fromPg \in BOOLEAN /\ toPg \in BOOLEAN
  /\ source \in Sources
  /\ fromPg => ForeignKeyCheck(source) /\ source.guards = {} /\ ~source.triggers
               /\ \A n \in Declared(source) :
                    /\ source.specs[n].rules = {}
                    /\ \A r \in source.rows[n] : HasNumber(r) => r[4].form # "exponent"
  /\ dest = Empty /\ bundle = None /\ edited = FALSE
  /\ pc = "source" /\ mine = Empty /\ todo = <<>>

Databases == <<fromPg, toPg, source>>

DoExport ==
  /\ pc = "source" /\ Check(source, fromPg)
  /\ \A n \in Declared(source) : NumbersPortable(fromPg, source.rows[n])
  /\ bundle' = Export(source, fromPg) /\ pc' = "bundle"
  /\ UNCHANGED <<Databases, dest, edited, mine, todo>>

EditBundle ==
  /\ pc = "bundle" /\ ~edited
  /\ bundle' \in Edits(bundle) /\ edited' = TRUE
  /\ UNCHANGED <<Databases, dest, pc, mine, todo>>

(* Another client has made a collection in the destination meanwhile.        *)
OtherCreates ==
  /\ pc = "bundle" /\ ~dest.made
  /\ \E n \in Range(Names) :
       dest' = [CreateOn(Empty, n, [op |-> "collection", source |-> None, target |-> None, rules |-> {}])
                  EXCEPT !.made = TRUE]
  /\ UNCHANGED <<Databases, bundle, edited, pc, mine, todo>>

(* The write scope opens; nothing is written before the destination is found *)
(* empty and the whole bundle valid.                                        *)
BeginImport ==
  /\ pc = "bundle"
  /\ IF ~dest.made /\ Valid(bundle)
       THEN pc' = "importing" /\ mine' = [Empty EXCEPT !.made = TRUE] /\ todo' = Plan(bundle)
       ELSE pc' = "refused" /\ UNCHANGED <<mine, todo>>
  /\ UNCHANGED <<Databases, dest, bundle, edited>>

Statement ==
  /\ pc = "importing" /\ todo # <<>>
  /\ IF Accepts(mine, Head(todo))
       THEN mine' = Applied(mine, Head(todo)) /\ todo' = Tail(todo) /\ UNCHANGED pc
       ELSE pc' = "refused" /\ mine' = Empty /\ todo' = <<>>
  /\ UNCHANGED <<Databases, dest, bundle, edited>>

(* The driver fails, or the process dies, before the commit: the scope is    *)
(* rolled back and the import can be tried again.                           *)
Interrupted ==
  /\ pc = "importing"
  /\ pc' = "bundle" /\ mine' = Empty /\ todo' = <<>>
  /\ UNCHANGED <<Databases, dest, bundle, edited>>

Commit ==
  /\ pc = "importing" /\ todo = <<>>
  /\ dest' = mine /\ pc' = "done" /\ mine' = Empty
  /\ UNCHANGED <<Databases, bundle, edited, todo>>

Next == DoExport \/ EditBundle \/ OtherCreates \/ BeginImport \/ Statement \/ Interrupted \/ Commit

Spec == Init /\ [][Next]_vars

-----------------------------------------------------------------------------
(* An unedited bundle restores declarations, versions, edges and log as they  *)
(* were, and every number is read as it was, of the same type: a float that    *)
(* JSONB rendered as an integer is a float again, and no integer becomes one.  *)
RoundTrip ==
  pc = "done" /\ ~edited =>
    /\ dest = [source EXCEPT !.made = TRUE, !.rows = dest.rows]
    /\ \A n \in Range(Names) : Reading(toPg, dest.rows[n]) = Reading(fromPg, source.rows[n])

(* What check accepts and export writes, import takes, but for a destination  *)
(* that is not empty, for evolved constraints on PostgreSQL, and for metadata  *)
(* that raw SQL has taken a recorded operation from, or on PostgreSQL the end  *)
(* of a relationship: that no check looks for, and export writes it.          *)
ExportedIsImportable ==
  pc = "refused" /\ ~edited =>
    \/ dest.made
    \/ toPg /\ ~CreationOnly(bundle)
    \/ ~LogInForce(source)
    \/ fromPg /\ ~EndsDeclared(source)

(* Whatever bundle was imported, its database passes the full check, and its *)
(* log tells what is installed: in order, each operation in force.          *)
ImportedIsSound ==
  pc = "done" =>
    /\ Check(dest, FALSE)
    /\ \A n \in Declared(dest) : NumbersPortable(toPg, dest.rows[n])
    /\ Increasing(dest.log)
    /\ LogInForce(dest)
=============================================================================
