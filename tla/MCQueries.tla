------------------------------- MODULE MCQueries -------------------------------
(***************************************************************************)
(* The instance of Queries the run checks: one record under every predicate,  *)
(* and three records of which two make a page while another client writes.    *)
(***************************************************************************)
EXTENDS Queries

MCIds == {1, 2, 3}

At(type, val) == [parent |-> "object", child |-> [type |-> type, val |-> val]]

(* Everything a comparison could take for something else.                     *)
AnyField ==
  [parent : {"object", "array"},
   child : {[type |-> "missing", val |-> 0], [type |-> "null", val |-> 0]}
           \cup [type : Scalars \cup {"array", "object"}, val : {0, 1}]]
    \cup {[parent |-> "other", child |-> Missing]}
(* The cells of an integer column, whose type the compiler holds arguments to. *)
AnyCell == {At("null", 0), At("integer", 0), At("integer", 1)}

Scalar(type, val) == [type |-> type, val |-> val]
Nothing == Scalar("null", 0)
Atoms ==
  {p \in [op : Comparisons, arg : {Nothing} \cup [type : Scalars, val : {0, 1}]] : IsAtom(p)}
    \cup [op : {"null", "missing"}, arg : {Nothing}]
AtomsOfOne == {p \in Atoms : p.arg = Nothing \/ p.arg.val = 1}
ColumnAtoms == {p \in Atoms : p.arg.type \in {"integer", "null"}}

(* The empty "and" stands for no predicate, the empty "or" for isin([]).      *)
Connective(op, parts) == [op |-> op, of |-> parts]
Anything == <<Connective("and", {})>>
Never == <<Connective("or", {})>>
Alone(atoms) == {<<p>> : p \in atoms}
Negated(predicates) == {Append(w, Connective("not", Len(w))) : w \in predicates}
Paired(op, atoms) == {<<p, q, Connective(op, {1, 2})>> : p, q \in atoms}

FieldPredicates ==
  Alone(Atoms) \cup Negated(Alone(Atoms)) \cup Paired("or", AtomsOfOne)
    \cup Negated(Paired("and", AtomsOfOne)) \cup {Anything, Never}
ColumnPredicates ==
  Alone(ColumnAtoms) \cup Negated(Alone(ColumnAtoms)) \cup Negated(Paired("or", ColumnAtoms))

Request(where, ordered, descending) ==
  [where |-> where, ordered |-> ordered, descending |-> descending]

(* One value of each kind of term, and ties between and within the types.     *)
FewFields ==
  { At("missing", 0), At("null", 0), At("boolean", 1), At("integer", 1), At("real", 1),
    At("integer", 2) }
Orders ==
  { Request(Anything, FALSE, FALSE), Request(Anything, TRUE, FALSE), Request(Anything, TRUE, TRUE),
    Request(<<[op |-> "eq", arg |-> Scalar("integer", 1)], Connective("not", 1)>>, TRUE, TRUE) }

Start(isTable, asks, holds, left) ==
  [table |-> isTable, query |-> asks, stored |-> holds, writes |-> left]

OneOf(s) == [i \in MCIds |-> IF i = 1 THEN s ELSE Absent]
OneRecord(isTable, predicates, contents) ==
  {Start(isTable, Request(p, FALSE, FALSE), OneOf(s), 0) : p \in predicates, s \in contents}
ThreeRecords(isTable, contents) ==
  {Start(isTable, q, c, 1) : q \in Orders, c \in [MCIds -> contents \cup {Absent}]}

MCStarts ==
  OneRecord(FALSE, FieldPredicates, AnyField) \cup OneRecord(TRUE, ColumnPredicates, AnyCell)
    \cup ThreeRecords(FALSE, FewFields) \cup ThreeRecords(TRUE, AnyCell)

(* What moves a record to the front, to the back, or out.                     *)
MCFields == {At("missing", 0), At("integer", 1)}
MCCells == {At("null", 0), At("integer", 1)}
================================================================================
