------------------------------- MODULE JsonValues -------------------------------
(***************************************************************************)
(* The numbers of a JSON body on their way into a database and back:         *)
(* values.py and the json_loads hook of PostgreSQL.                         *)
(*                                                                         *)
(* The text of an integer has digits only; that of a float has a point, or    *)
(* an exponent when it is large.  JSONB keeps the number and renders one that *)
(* had an exponent with digits only, so that it comes back as an integer.     *)
(***************************************************************************)
EXTENDS Integers

CONSTANTS
  MaxSafe,         \* 2**53 - 1
  ExponentFrom,    \* 10**16, from which the text of a float has an exponent
  MaxFloat         \* the greatest finite float; one beyond it is infinite

ASSUME NumbersAssumption ==
  /\ MaxSafe \in Nat /\ ExponentFrom \in Nat /\ MaxFloat \in Nat
  /\ MaxSafe < ExponentFrom /\ ExponentFrom <= MaxFloat

Number(type, val) == [type |-> type, val |-> val]
Literal(form, val) == [form |-> form, val |-> val]

Numbers == [type : {"int", "float"}, val : Int]
Literals == [form : {"digits", "point", "exponent"}, val : Int]
Refused == Number("refused", 0)

Magnitude(n) == IF n < 0 THEN -n ELSE n

-----------------------------------------------------------------------------
(* Forms of the definitions below that a mistake in the code would give;    *)
(* no specification uses them.                                              *)

AnyInteger(n) == Number("int", n)

-----------------------------------------------------------------------------
(* json_value: the numbers a body may hold.                                  *)
Portable(v) ==
  \/ v.type = "int" /\ Magnitude(v.val) <= MaxSafe
  \/ v.type = "float" /\ Magnitude(v.val) <= MaxFloat

(* encode: json.dumps.                                                      *)
Encoded(v) ==
  Literal(IF v.type = "int" THEN "digits"
          ELSE IF Magnitude(v.val) >= ExponentFrom THEN "exponent" ELSE "point", v.val)

(* The column keeps the text on SQLite, and the number in JSONB.              *)
Kept(pg, lit) ==
  IF pg /\ lit.form = "exponent" THEN Literal("digits", lit.val) ELSE lit

(* portable_json_integer, the parse_int of PostgreSQL's handle.  A float that   *)
(* was one before keeps its value; the rounding of others is left out.        *)
PortableInteger(n) ==
  IF Magnitude(n) <= MaxSafe THEN Number("int", n)
  ELSE IF Magnitude(n) <= MaxFloat THEN Number("float", n) ELSE Refused

(* json.loads.                                                              *)
Decoded(pg, lit) ==
  IF lit.form # "digits" THEN Number("float", lit.val)
  ELSE IF pg THEN PortableInteger(lit.val) ELSE Number("int", lit.val)

(* What an export writes of a stored literal, and an import stores of that.  *)
Exported(pg, lit) == Encoded(Decoded(pg, lit))
Imported(pg, lit) == Kept(pg, Encoded(Decoded(FALSE, lit)))
=================================================================================
