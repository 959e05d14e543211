-------------------------------- MODULE Queries --------------------------------
(***************************************************************************)
(* Store.find: filtering, ordering and pages over the documents of a         *)
(* collection or the rows of a table, read in one scope or each page by       *)
(* itself, while other clients write.                                       *)
(*                                                                         *)
(* The ORDER BY of each backend leaves ties and its place for NULLs to the    *)
(* database: SqlSorts is every order it may answer with.                     *)
(***************************************************************************)
EXTENDS Predicates, SequencesExt

CONSTANTS
  Ids,             \* natural numbers, as the binary collation orders them
  Starts,          \* the stores to query: collection or table, its contents,
                   \* what is asked of it, a predicate and an ordering, and a
                   \* bound on the writes of other clients
  Fields, Cells,   \* what others write at the path, or in the column of a table
  Limits,
  Absent,          \* no such record
  Failed           \* the answer of a find that SQL refuses

(* A predicate is listed parts first and the whole last; what is no           *)
(* connective is an atom.                                                   *)
IsPredicate(where) ==
  /\ where \in Seq(Range(where)) /\ where # <<>>
  /\ \A k \in DOMAIN where :
       \/ IsAtom(where[k])
       \/ where[k].op = "not" /\ where[k].of \in 1..(k - 1)
       \/ where[k].op \in {"and", "or"} /\ where[k].of \subseteq 1..(k - 1)

(* A column holds values of one type, which validate_column also asks of the  *)
(* arguments.                                                               *)
IsColumn(cells, where) ==
  \E type \in Scalars :
    /\ \A s \in cells : s.parent = "object" /\ s.child.type \in {type, "null"}
    /\ \A k \in DOMAIN where :
         IsAtom(where[k]) /\ where[k].arg.type # "null" => Domain(where[k].arg.type) = Domain(type)

ASSUME QueriesAssumption ==
  /\ Ids \subseteq Nat /\ IsFiniteSet(Ids) /\ Limits \subseteq Nat \ {0}
  /\ \A s \in Fields \cup Cells : IsStored(s)
  /\ \A start \in Starts :
       LET held == Range(start.stored) \ {Absent}
       IN /\ start.table \in BOOLEAN /\ start.writes \in Nat /\ IsPredicate(start.query.where)
          /\ start.stored = [i \in Ids |-> start.stored[i]] /\ \A s \in held : IsStored(s)
          /\ start.table => IsColumn(held \cup Cells, start.query.where)

VARIABLES
  onPg, table,     \* the backend, and the kind of the store
  query,           \* the predicate, whether order_by is given, and descending
  stored,          \* committed: per ID what the path has, or Absent
  scope,           \* the explicit scope: "none", "read" or "write"
  snapshot,        \* what was committed at its first statement
  answer,          \* of the last find: its offset, its limit and its IDs
  writes           \* how many writes are left to other clients

(* History: the contents when the scope began and when the last find was     *)
(* asked, and the pages of the scope that followed each other.               *)
VARIABLES begun, asked, pages

queryVars == <<onPg, table, query, stored, scope, snapshot, answer, writes, begun, asked, pages>>

Contents == (IF table THEN Cells ELSE Fields) \cup {Absent}
NoAnswer == [offset |-> 0, limit |-> 0, ids |-> <<>>]

-----------------------------------------------------------------------------
(* What the documentation promises.                                          *)

Matches(where, v) ==
  LET holds[k \in DOMAIN where] ==
        LET p == where[k]
        IN IF p.op = "not" THEN ~holds[p.of]
           ELSE IF p.op = "and" THEN \A j \in p.of : holds[j]
           ELSE IF p.op = "or" THEN \E j \in p.of : holds[j]
           ELSE Means(p, v)
  IN holds[Len(where)]

TypeOrder == <<"missing", "null", "boolean", "number", "string", "array", "object">>
Place(v) == CHOOSE k \in 1..Len(TypeOrder) : TypeOrder[k] = Domain(v.type)

(* The types in their order, values of a scalar type in the direction asked, *)
(* and ascending IDs.                                                       *)
Earlier(q, c, i, j) ==
  LET v == Found(c[i])  w == Found(c[j])
      tie == ~q.ordered \/ (Place(v) = Place(w) /\ (v.type \in Scalars => v.val = w.val))
  IN IF tie THEN i < j
     ELSE IF Place(v) # Place(w) THEN Place(v) < Place(w)
     ELSE IF q.descending THEN w.val < v.val ELSE v.val < w.val

Documented(q, c) ==
  CHOOSE s \in SetToSeqs({i \in Ids : c[i] # Absent /\ Matches(q.where, Found(c[i]))}) :
    \A j \in DOMAIN s : \A k \in 1..(j - 1) : Earlier(q, c, s[k], s[j])

-----------------------------------------------------------------------------
(* Forms of the definitions below that a mistake in the code would give;    *)
(* no specification uses them.                                              *)

NeverPinned(kind) == FALSE

-----------------------------------------------------------------------------
(* compile_predicate of a whole tree; membership is an "or" of equalities.    *)
Where(where, s) ==
  LET sql[k \in DOMAIN where] ==
        LET p == where[k]
        IN IF p.op = "not" THEN Not3(sql[p.of])
           ELSE IF p.op = "and" THEN All3({sql[j] : j \in p.of})
           ELSE IF p.op = "or" THEN Any3({sql[j] : j \in p.of})
           ELSE Compiled(onPg, table, p, s)
  IN sql[Len(where)]

(* The terms of ORDER BY: a key, and whether it ascends.                      *)
Term(key, ascending) == [key |-> key, ascending |-> ascending]
NumberKey(n) == [class |-> "number", val |-> n]
Only(key, condition) == IF condition THEN key ELSE Null

RankKey(v) ==
  LET t == TypeOf(onPg, v)
  IN NumberKey(IF t = "null" THEN 1 ELSE IF t \in {"boolean", "true", "false"} THEN 2
            ELSE IF t \in Numeric \cup {"number"} THEN 3 ELSE IF t \in {"string", "text"} THEN 4
            ELSE IF t = "array" THEN 5 ELSE IF t = "object" THEN 6 ELSE 0)

Identity(q, c, i) == NumberKey(i)

Terms(q, c, i) ==
  LET v == Value(onPg, c[i])
      key == Parameter(onPg, v)
      ofField ==
        << Term(RankKey(v), TRUE),
           Term(Only(key, v.type = "boolean"), ~q.descending),
           Term(Only(key, v.type \in Numeric), ~q.descending),
           Term(Only(key, v.type = "string"), ~q.descending) >>
      cell == Cell(onPg, c[i].child)
      ofColumn == << Term(NumberKey(IF cell # Null THEN 1 ELSE 0), TRUE), Term(cell, ~q.descending) >>
  IN (IF ~q.ordered THEN <<>> ELSE IF table THEN ofColumn ELSE ofField)
       \o << Term(Identity(q, c, i), TRUE) >>

(* SQLite takes NULL for the least value and PostgreSQL for the greatest.     *)
KeyBefore(a, b) ==
  IF Null \in {a.key, b.key}
  THEN a.key # b.key /\ (IF onPg = a.ascending THEN b.key = Null ELSE a.key = Null)
  ELSE IF a.ascending THEN a.key.val < b.key.val ELSE b.key.val < a.key.val

TermsBefore(a, b) ==
  \E k \in DOMAIN a : KeyBefore(a[k], b[k]) /\ \A j \in 1..(k - 1) : a[j].key = b[j].key

(* The statement fails if its condition does for some row.                   *)
SqlFails(q, c) == \E i \in Ids : c[i] # Absent /\ Where(q.where, c[i]) = "E"

SqlSorts(q, c) ==
  {s \in SetToSeqs({i \in Ids : c[i] # Absent /\ Where(q.where, c[i]) = "T"}) :
     \A j \in DOMAIN s : \A k \in 1..(j - 1) : ~TermsBefore(Terms(q, c, s[j]), Terms(q, c, s[k]))}

Window(s, offset, limit) ==
  SubSeq(s, offset + 1, IF offset + limit < Len(s) THEN offset + limit ELSE Len(s))

-----------------------------------------------------------------------------
QueryInit ==
  /\ onPg \in BOOLEAN
  /\ \E start \in Starts :
       /\ table = start.table /\ query = start.query
       /\ stored = start.stored /\ writes = start.writes
  /\ scope = "none" /\ snapshot = stored /\ answer = NoAnswer
  /\ begun = stored /\ asked = stored /\ pages = <<>>

(* Another client inserts, replaces or deletes a record: on SQLite not       *)
(* beside a write scope.                                                    *)
Write(i, s) ==
  /\ writes > 0 /\ s # stored[i]
  /\ onPg \/ scope # "write"
  /\ writes' = writes - 1 /\ stored' = [stored EXCEPT ![i] = s]
  /\ UNCHANGED <<onPg, table, query, scope, snapshot, answer, begun, asked, pages>>

(* A scope, from its first statement on.                                     *)
Begin(kind) ==
  /\ scope = "none"
  /\ scope' = kind /\ snapshot' = stored /\ begun' = stored /\ pages' = <<>>
  /\ answer' = NoAnswer /\ asked' = stored
  /\ UNCHANGED <<onPg, table, query, stored, writes>>

(* A read scope is REPEATABLE READ; a write scope of PostgreSQL is READ       *)
(* COMMITTED, and one of SQLite is alone.                                   *)
Pinned(kind) == kind = "read"
Seen == IF scope # "none" /\ Pinned(scope) THEN snapshot ELSE stored

(* The offset that asks for the page after this one.                         *)
Following(offset, limit) == offset + limit

Find(offset, limit) ==
  LET found(ids) == answer' = [offset |-> offset, limit |-> limit, ids |-> ids]
  IN /\ asked' = IF scope = "read" THEN begun ELSE stored
     /\ IF SqlFails(query, Seen) THEN found(Failed) /\ pages' = <<>>
        ELSE \E s \in SqlSorts(query, Seen) :
               LET page == Window(s, offset, limit)
               IN /\ found(page)
                  /\ pages' = IF scope = "none" THEN <<>>
                              ELSE IF offset = 0 THEN page ELSE pages \o page
     /\ UNCHANGED <<onPg, table, query, stored, scope, snapshot, writes, begun>>

(* A failure poisons the scope.                                              *)
FindFirst(limit) == answer.ids # Failed /\ Find(0, limit)

FindNext ==
  /\ answer.ids # Failed /\ answer.limit > 0 /\ Len(answer.ids) = answer.limit
  /\ Find(Following(answer.offset, answer.limit), answer.limit)

End ==
  /\ scope # "none"
  /\ scope' = "none" /\ pages' = <<>>
  /\ answer' = NoAnswer /\ asked' = stored /\ snapshot' = stored /\ begun' = stored
  /\ UNCHANGED <<onPg, table, query, stored, writes>>

QueryNext ==
  \/ \E i \in Ids, s \in Contents : Write(i, s)
  \/ \E kind \in {"read", "write"} : Begin(kind)
  \/ End
  \/ \E limit \in Limits : FindFirst(limit)
  \/ FindNext

QuerySpec == QueryInit /\ [][QueryNext]_queryVars

-----------------------------------------------------------------------------
(* A find answers with some of the stored IDs and is never refused by the    *)
(* database: no text is cast to a number, whatever the documents hold.        *)
QueriesTypeOK ==
  /\ onPg \in BOOLEAN /\ table \in BOOLEAN /\ writes \in Nat
  /\ \A i \in Ids : stored[i] = Absent \/ IsStored(stored[i])
  /\ answer.ids \in Seq(Ids) /\ pages \in Seq(Ids)

(* Each find answers with the page of the documented order that was asked     *)
(* for, on both backends: the NULLs of SQL, the types and the arrays along     *)
(* the path change neither which records match nor their order (query.py).    *)
AnswersExact ==
  answer.limit > 0 =>
    answer.ids = Window(Documented(query, asked), answer.offset, answer.limit)

AllRead == answer.limit > 0 /\ answer.ids # Failed /\ Len(answer.ids) < answer.limit

(* The pages that a scope reads after each other hold every match of the      *)
(* contents it began with exactly once, in the documented order, whatever     *)
(* other clients write and however the database orders ties: in a read scope, *)
(* and in every scope of SQLite.  Those of a write scope of PostgreSQL do not,   *)
(* which reads what is committed meanwhile (Store.find, Backend.begin).       *)
PagesPartition ==
  AllRead /\ (scope = "read" \/ (scope = "write" /\ ~onPg)) => pages = Documented(query, begun)
================================================================================
