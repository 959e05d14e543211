------------------------------- MODULE Predicates -------------------------------
(***************************************************************************)
(* The SQL that query.py compiles from one field predicate, on both          *)
(* backends, and what the documentation says the predicate means.            *)
(*                                                                         *)
(* A JSON value is a type and a number `val`: the value of a boolean (0, 1),   *)
(* an integer or a real, and otherwise what its text is, so that a string,    *)
(* an array and a number may have the same text.  The truth of SQL is "T",    *)
(* "F" or "N" (NULL), and "E" when the expression makes the statement fail.    *)
(***************************************************************************)
EXTENDS Integers

Scalars == {"boolean", "integer", "real", "string"}
Numeric == {"integer", "real"}
Types == Scalars \cup {"missing", "null", "array", "object"}

IsValue(v) == v.type \in Types /\ v.val \in Int /\ (v.type = "boolean" => v.val \in {0, 1})

Missing == [type |-> "missing", val |-> 0]

(* What is stored at a path of two keys: the type of the body's first key,    *)
(* and the value under the second one, an element if the first is an array.   *)
Parents == {"object", "array", "other"}
IsStored(s) == s.parent \in Parents /\ IsValue(s.child)

Ordered == {"gt", "gte", "lt", "lte"}
Comparisons == {"eq", "ne"} \cup Ordered

(* The predicates on a field that the compiler takes.                        *)
IsAtom(p) ==
  /\ p.op \in Comparisons \cup {"null", "missing"}
  /\ IsValue(p.arg) /\ p.arg.type \in Scalars \cup {"null"}
  /\ p.op \in Ordered => p.arg.type \in Numeric \cup {"null"}

-----------------------------------------------------------------------------
(* What the documentation promises.                                          *)

Found(s) == IF s.parent = "object" THEN s.child ELSE Missing

Domain(type) == IF type \in Numeric THEN "number" ELSE type

Relates(op, a, b) ==
  \/ op \in {"eq", "gte", "lte"} /\ a = b
  \/ op \in {"ne", "gt", "gte"} /\ a > b
  \/ op \in {"ne", "lt", "lte"} /\ a < b

Means(p, v) ==
  \/ p.op = "missing" /\ v.type = "missing"
  \/ p.op = "null" /\ v.type = "null"
  \/ /\ p.op \in Comparisons /\ p.arg.type # "null"
     /\ Domain(v.type) = Domain(p.arg.type) /\ Relates(p.op, v.val, p.arg.val)

-----------------------------------------------------------------------------
(* SQL.                                                                     *)

Truth(b) == IF b THEN "T" ELSE "F"
Not3(a) == IF a = "T" THEN "F" ELSE IF a = "F" THEN "T" ELSE a
All3(truths) ==
  IF "E" \in truths THEN "E" ELSE IF "F" \in truths THEN "F" ELSE IF "N" \in truths THEN "N" ELSE "T"
Any3(truths) == Not3(All3({Not3(a) : a \in truths}))
And3(a, b) == All3({a, b})
Coalesce(a) == IF a = "N" THEN "F" ELSE a                (* COALESCE(a, FALSE)  *)
When(guard, then) == IF guard = "T" THEN then ELSE "F"   (* CASE ... ELSE FALSE *)

Null == [class |-> "null", val |-> 0]
Invalid == [class |-> "invalid", val |-> 0]              (* an invalid cast     *)

(* SQLite puts every number before every text; PostgreSQL refuses to compare  *)
(* classes.                                                                 *)
Below(a, b) == a.class = "number" /\ b.class = "text"
Compare(pg, op, a, b) ==
  IF a.class = "invalid" THEN "E"
  ELSE IF "null" \in {a.class, b.class} THEN "N"
  ELSE IF a.class = b.class THEN Truth(Relates(op, a.val, b.val))
  ELSE IF pg THEN "E"
  ELSE Truth(op = "ne" \/ (op \in {"lt", "lte"} /\ Below(a, b)) \/ (op \in {"gt", "gte"} /\ Below(b, a)))

(* jsonb_typeof and json_type, whose answer to a missing value is NULL.       *)
TypeOf(pg, v) ==
  IF v.type = "missing" THEN "NULL"
  ELSE IF pg THEN Domain(v.type)
  ELSE IF v.type = "boolean" THEN (IF v.val = 1 THEN "true" ELSE "false")
  ELSE IF v.type = "string" THEN "text" ELSE v.type
TypeIn(t, names) == IF t = "NULL" THEN "N" ELSE Truth(t \in names)

(* jsonb_extract_path counts into an array; a key of json_extract does not.   *)
ExtractPath(s) == IF s.parent \in {"object", "array"} THEN s.child ELSE Missing

(* Value #>> '{}' is text; json_extract keeps numbers, and turns a boolean into one.*)
Text(v) == IF v.type \in {"missing", "null"} THEN Null ELSE [class |-> "text", val |-> v.val]
Extracted(v) == IF v.type \in Numeric \cup {"boolean"} THEN [class |-> "number", val |-> v.val] ELSE Text(v)

Class(pg, type) ==
  IF type = "string" THEN "text" ELSE IF pg /\ type = "boolean" THEN "boolean" ELSE "number"
Parameter(pg, arg) == [class |-> Class(pg, arg.type), val |-> arg.val]

(* CAST(text AS BOOLEAN) and AS DOUBLE PRECISION, of the text of a value.      *)
Cast(v, domain) ==
  IF Text(v) = Null THEN Null
  ELSE IF Domain(v.type) = domain THEN [class |-> domain, val |-> v.val] ELSE Invalid

-----------------------------------------------------------------------------
(* Forms of the definitions below that a mistake in the code would give;    *)
(* no specification uses them.                                              *)

Unparented(pg, s) == IF pg THEN ExtractPath(s) ELSE Found(s)

-----------------------------------------------------------------------------
(* What the compiler makes of them.                                         *)

(* The guard that every ancestor is an object; json_extract needs none.       *)
Value(pg, s) ==
  IF pg THEN (IF s.parent = "object" THEN ExtractPath(s) ELSE Missing) ELSE Found(s)

Guard(pg, p, v) ==
  TypeIn(TypeOf(pg, v),
    IF pg THEN {Domain(p.arg.type)}
    ELSE IF p.arg.type = "boolean" THEN {"true", "false"}
    ELSE IF p.arg.type = "string" THEN {"text"} ELSE Numeric)

Operand(pg, p, v) ==
  IF ~pg THEN Extracted(v)
  ELSE IF p.arg.type = "string" THEN Text(v) ELSE Cast(v, Domain(p.arg.type))

(* The equality of SQLite has the form of the managed partial index.          *)
Rank(v) == IF TypeOf(FALSE, v) \in Numeric THEN "number" ELSE TypeOf(FALSE, v)
Expected(arg) ==
  IF arg.type = "boolean" THEN (IF arg.val = 1 THEN "true" ELSE "false")
  ELSE IF arg.type \in Numeric THEN "number" ELSE "text"
IndexedEqual(p, v) ==
  And3(And3(Truth(TypeOf(FALSE, v) # "NULL"),
            TypeIn(TypeOf(FALSE, v), {"text", "integer", "real", "true", "false"})),
       And3(IF Rank(v) = "NULL" THEN "N" ELSE Truth(Rank(v) = Expected(p.arg)),
            Compare(FALSE, "eq", Extracted(v), Parameter(FALSE, p.arg))))

OfField(pg, p, v) ==
  IF p.op = "missing" THEN Truth(TypeOf(pg, v) = "NULL")
  ELSE IF p.op = "null" THEN Coalesce(TypeIn(TypeOf(pg, v), {"null"}))
  ELSE IF p.arg.type = "null" THEN "F"
  ELSE IF p.op = "eq" /\ ~pg THEN IndexedEqual(p, v)
  ELSE When(Guard(pg, p, v), Compare(pg, p.op, Operand(pg, p, v), Parameter(pg, p.arg)))

(* A column of a table, whose type validate_column holds the argument to.     *)
Cell(pg, v) == IF v.type = "null" THEN Null ELSE Parameter(pg, v)
OfColumn(pg, p, s) ==
  IF p.op = "missing" THEN "F"
  ELSE IF p.op = "null" THEN Truth(Cell(pg, s.child) = Null)
  ELSE IF p.arg.type = "null" THEN "F"
  ELSE Coalesce(Compare(pg, p.op, Cell(pg, s.child), Parameter(pg, p.arg)))

Compiled(pg, table, p, s) ==
  IF table THEN OfColumn(pg, p, s) ELSE OfField(pg, p, Value(pg, s))
==================================================================================
