------------------------------ MODULE DataProofs ------------------------------
(***************************************************************************)
(* What is proved of the data: the SQL of predicates, the numbers of JSON     *)
(* bodies, the logical transfer of a database, and its queries.              *)
(*                                                                         *)
(* The theorems about Transfer rest on the invariant TransferInv, which says   *)
(* where an import stands: after k statements of the plan, the database under *)
(* construction holds exactly what those k statements make of the bundle.     *)
(* The lemmas before it take the plan apart, from the concatenation of the     *)
(* sequences it is built of to the effect of each kind of statement on that    *)
(* description, and show that no statement of an export's own plan is refused. *)
(*                                                                         *)
(* The theorems about Queries rest on QueriesInv: every contents a find may    *)
(* see are such that the SQL of the query is exact on them, and the pages of a *)
(* scope that nobody writes beside are a prefix of the documented order.       *)
(***************************************************************************)
EXTENDS Transfer, Queries, FiniteSetTheorems, SequenceTheorems, WellFoundedInduction, TLAPS

-----------------------------------------------------------------------------
(* The SQL of every predicate on a field is true or false, never NULL and    *)
(* never an error, and what the documentation says, for all values and        *)
(* arguments; and the connectives of SQL keep that.                          *)

(* What both backends find at the path is what the documentation says is     *)
(* there: the guard on the parents keeps arrays out.                         *)
LEMMA ValueIsFound ==
  ASSUME NEW pg \in BOOLEAN, NEW s
  PROVE  Value(pg, s) = Found(s)
BY DEF Value, Found, ExtractPath

LEMMA FoundIsValue ==
  ASSUME NEW s, IsStored(s)
  PROVE  IsValue(Found(s))
BY DEF IsStored, IsValue, Found, Missing, Types

-----------------------------------------------------------------------------
(* The equality of SQLite, in the form of the partial index.                 *)
LEMMA IndexedEqualExact ==
  ASSUME NEW p, IsAtom(p), p.op = "eq", p.arg.type # "null", NEW v, IsValue(v)
  PROVE  IndexedEqual(p, v) = Truth(Means(p, v))
<1>1. /\ v.type \in Types /\ v.val \in Int /\ (v.type = "boolean" => v.val \in {0, 1})
      /\ p.arg.type \in Scalars /\ p.arg.val \in Int
      /\ p.arg.type = "boolean" => p.arg.val \in {0, 1}
  BY DEF IsAtom, IsValue
<1>2. Relates("eq", v.val, p.arg.val) <=> v.val = p.arg.val
  BY DEF Relates
<1>3. Means(p, v) <=> Domain(v.type) = Domain(p.arg.type) /\ v.val = p.arg.val
  BY <1>2 DEF Means, Comparisons
<1>4. CASE v.type \notin Scalars
  <2>1. ~Means(p, v)
    BY <1>1, <1>3, <1>4 DEF Domain, Scalars, Types, Numeric
  <2>2. TypeOf(FALSE, v) \in {"NULL", "null", "array", "object"}
    BY <1>1, <1>4 DEF TypeOf, Types, Scalars
  <2>3. CASE TypeOf(FALSE, v) = "NULL"
    BY <2>1, <2>3 DEF IndexedEqual, And3, All3, Truth, TypeIn, Compare, Rank, Numeric, Parameter, Extracted, Text, Null, Class
  <2>4. CASE TypeOf(FALSE, v) # "NULL"
    BY <2>1, <2>2, <2>4 DEF IndexedEqual, And3, All3, Truth, TypeIn, Compare, Rank, Numeric, Parameter, Extracted, Text, Null, Class
  <2> QED BY <2>3, <2>4
<1>5. CASE v.type \in Scalars
  <2>1. Extracted(v) = [class |-> Class(FALSE, v.type), val |-> v.val]
    BY <1>5 DEF Extracted, Text, Class, Scalars, Numeric
  <2>2. Rank(v) = Expected(v)
    BY <1>1, <1>5 DEF Rank, Expected, TypeOf, Scalars, Numeric
  <2>3. TypeOf(FALSE, v) \in {"text", "integer", "real", "true", "false"}
    BY <1>5 DEF TypeOf, Scalars
  <2>4. CASE Domain(v.type) = Domain(p.arg.type)
    <3>1. Class(FALSE, v.type) = Class(FALSE, p.arg.type) /\ Class(FALSE, v.type) \in {"text", "number"}
      BY <1>1, <1>5, <2>4 DEF Class, Domain, Scalars, Numeric
    <3>2. Compare(FALSE, "eq", Extracted(v), Parameter(FALSE, p.arg)) = Truth(v.val = p.arg.val)
      <4> DEFINE k == Class(FALSE, v.type)  e == Extracted(v)  q == Parameter(FALSE, p.arg)
      <4>1. e = [class |-> k, val |-> v.val] /\ q = [class |-> k, val |-> p.arg.val]
        BY <2>1, <3>1, Zenon DEF Parameter
      <4>2. k \in {"text", "number"}
        BY <3>1
      <4>3. Compare(FALSE, "eq", e, q) = Truth(Relates("eq", v.val, p.arg.val))
        <5> HIDE DEF k, e, q
        <5> QED BY <4>1, <4>2 DEF Compare
      <4> QED BY <4>3, <1>2 DEF Truth
    <3>3. v.val = p.arg.val => Rank(v) = Expected(p.arg)
      BY <1>1, <1>5, <2>2, <2>4 DEF Expected, Domain, Scalars, Numeric
    <3>4. Rank(v) # "NULL"
      BY <1>5, <2>2 DEF Expected, Scalars, Numeric
    <3> QED BY <1>3, <2>3, <2>4, <3>2, <3>3, <3>4 DEF IndexedEqual, And3, All3, Truth, TypeIn
  <2>5. CASE Domain(v.type) # Domain(p.arg.type)
    <3>1. Rank(v) # Expected(p.arg) /\ Rank(v) # "NULL"
      BY <1>1, <1>5, <2>2, <2>5 DEF Expected, Domain, Scalars, Numeric
    <3>2. Compare(FALSE, "eq", Extracted(v), Parameter(FALSE, p.arg)) \in {"T", "F"}
      BY <2>1 DEF Compare, Parameter, Class, Truth
    <3> QED BY <1>3, <2>3, <2>5, <3>1, <3>2 DEF IndexedEqual, And3, All3, Truth, TypeIn
  <2> QED BY <2>4, <2>5
<1> QED BY <1>4, <1>5

(* The other comparisons: the guard holds just for the values of the          *)
(* argument's domain, and of these the comparison is that of their values.    *)
LEMMA GuardExact ==
  ASSUME NEW pg \in BOOLEAN, NEW p, IsAtom(p), p.arg.type # "null", NEW v, IsValue(v)
  PROVE  Guard(pg, p, v) = "T" <=> Domain(v.type) = Domain(p.arg.type)
<1>1. v.type \in Types /\ p.arg.type \in Scalars
  BY DEF IsAtom, IsValue
<1>2. CASE pg
  BY <1>1, <1>2 DEF Guard, TypeOf, TypeIn, Truth, Domain, Types, Scalars, Numeric
<1>3. CASE ~pg
  BY <1>1, <1>3 DEF Guard, TypeOf, TypeIn, Truth, Domain, Types, Scalars, Numeric
<1> QED BY <1>2, <1>3

LEMMA ComparisonExact ==
  ASSUME NEW pg \in BOOLEAN, NEW p, IsAtom(p), p.arg.type # "null", NEW v, IsValue(v),
         Domain(v.type) = Domain(p.arg.type)
  PROVE  Compare(pg, p.op, Operand(pg, p, v), Parameter(pg, p.arg))
           = Truth(Relates(p.op, v.val, p.arg.val))
<1>1. v.type \in Scalars /\ p.arg.type \in Scalars
  BY DEF IsAtom, IsValue, Domain, Types, Scalars, Numeric
<1>2. Operand(pg, p, v).class = Class(pg, p.arg.type) /\ Operand(pg, p, v).val = v.val
  <2>1. CASE ~pg
    BY <1>1, <2>1 DEF Operand, Extracted, Text, Class, Domain, Scalars, Numeric
  <2>2. CASE pg /\ p.arg.type = "string"
    BY <1>1, <2>2 DEF Operand, Text, Class, Domain, Scalars, Numeric
  <2>3. CASE pg /\ p.arg.type # "string"
    <3>1. Text(v) = [class |-> "text", val |-> v.val] /\ Text(v) # Null
      BY <1>1 DEF Text, Null, Scalars
    <3>2. Operand(pg, p, v) = [class |-> Domain(p.arg.type), val |-> v.val]
      BY <2>3, <3>1 DEF Operand, Cast
    <3>3. Class(pg, p.arg.type) = Domain(p.arg.type)
      BY <1>1, <2>3 DEF Class, Domain, Scalars, Numeric
    <3> QED BY <3>2, <3>3
  <2> QED BY <2>1, <2>2, <2>3
<1>3. Class(pg, p.arg.type) \in {"text", "boolean", "number"}
  BY DEF Class
<1> QED BY <1>2, <1>3 DEF Compare, Parameter

LEMMA OfFieldExact ==
  ASSUME NEW pg \in BOOLEAN, NEW p, IsAtom(p), NEW v, IsValue(v)
  PROVE  OfField(pg, p, v) = Truth(Means(p, v))
<1>1. IsValue(v) OBVIOUS
<1>2. CASE p.op = "missing"
  <2>1. TypeOf(pg, v) = "NULL" <=> v.type = "missing"
    BY <1>1 DEF TypeOf, Domain, IsValue, Types, Scalars, Numeric
  <2> QED BY <1>1, <1>2, <2>1 DEF OfField, Means, Comparisons, Ordered, Truth
<1>3. CASE p.op = "null"
  <2>1. TypeIn(TypeOf(pg, v), {"null"}) \in {"N", "T", "F"}
    BY DEF TypeIn, Truth
  <2>2. TypeIn(TypeOf(pg, v), {"null"}) = "T" <=> v.type = "null"
    BY <1>1 DEF TypeIn, Truth, TypeOf, Domain, IsValue, Types, Scalars, Numeric
  <2> QED BY <1>1, <1>3, <2>1, <2>2 DEF OfField, Means, Comparisons, Ordered, Truth, Coalesce
<1>4. CASE p.op \in Comparisons /\ p.arg.type = "null"
  BY <1>1, <1>4 DEF OfField, Means, Comparisons, Ordered, Truth
<1>5. CASE p.op \in Comparisons /\ p.arg.type # "null"
  <2>1. p.op \notin {"missing", "null"}
    BY <1>5 DEF Comparisons, Ordered
  <2>2. CASE p.op = "eq" /\ ~pg
    BY <1>1, <1>5, <2>1, <2>2, IndexedEqualExact DEF OfField
  <2>3. CASE ~(p.op = "eq" /\ ~pg)
    <3>1. OfField(pg, p, v)
            = When(Guard(pg, p, v), Compare(pg, p.op, Operand(pg, p, v), Parameter(pg, p.arg)))
      BY <1>5, <2>1, <2>3 DEF OfField
    <3>2. Means(p, v)
            <=> Domain(v.type) = Domain(p.arg.type) /\ Relates(p.op, v.val, p.arg.val)
      BY <1>5, <2>1 DEF Means
    <3>3. CASE Domain(v.type) = Domain(p.arg.type)
      BY <1>1, <1>5, <3>1, <3>2, <3>3, GuardExact, ComparisonExact DEF When, Truth
    <3>4. CASE Domain(v.type) # Domain(p.arg.type)
      BY <1>1, <1>5, <3>1, <3>2, <3>4, GuardExact DEF When, Truth
    <3> QED BY <3>3, <3>4
  <2> QED BY <2>2, <2>3
<1> QED BY <1>2, <1>3, <1>4, <1>5 DEF IsAtom

(* A predicate on a field of a document, on both backends.                   *)
THEOREM FieldExact ==
  ASSUME NEW pg \in BOOLEAN, NEW p, IsAtom(p), NEW s, IsStored(s)
  PROVE  Compiled(pg, FALSE, p, s) = Truth(Means(p, Found(s)))
BY ValueIsFound, FoundIsValue, OfFieldExact DEF Compiled

(* A predicate on a column of a table, whose type the argument has.          *)
THEOREM ColumnExact ==
  ASSUME NEW pg \in BOOLEAN, NEW p, IsAtom(p), NEW s, IsStored(s), s.parent = "object",
         s.child.type \in Scalars \cup {"null"},
         p.arg.type # "null" /\ s.child.type # "null" => Domain(s.child.type) = Domain(p.arg.type)
  PROVE  Compiled(pg, TRUE, p, s) = Truth(Means(p, Found(s)))
<1> DEFINE v == s.child
<1>1. Found(s) = v /\ IsValue(v) /\ Compiled(pg, TRUE, p, s) = OfColumn(pg, p, s)
  BY DEF Found, Compiled, IsStored
<1>2. Cell(pg, v) = Null <=> v.type = "null"
  BY <1>1 DEF Cell, Null, Parameter, Class, Scalars
<1>3. CASE p.op \in {"missing", "null"}
  BY <1>1, <1>2, <1>3 DEF OfColumn, Means, Comparisons, Ordered, Truth, Scalars
<1>4. CASE p.op \in Comparisons /\ p.arg.type = "null"
  BY <1>1, <1>4 DEF OfColumn, Means, Comparisons, Ordered, Truth
<1>5. CASE p.op \in Comparisons /\ p.arg.type # "null"
  <2>1. p.op \notin {"missing", "null"}
    BY <1>5 DEF Comparisons, Ordered
  <2>2. OfColumn(pg, p, s) = Coalesce(Compare(pg, p.op, Cell(pg, v), Parameter(pg, p.arg)))
    BY <1>5, <2>1 DEF OfColumn
  <2>3. Means(p, v) <=> Domain(v.type) = Domain(p.arg.type) /\ Relates(p.op, v.val, p.arg.val)
    BY <1>5, <2>1 DEF Means
  <2>4. p.arg.type \in Scalars
    BY <1>5 DEF IsAtom
  <2>5. CASE v.type = "null"
    <3>1. ~Means(p, v)
      BY <2>3, <2>4, <2>5 DEF Domain, Scalars, Numeric
    <3> QED BY <1>1, <2>2, <2>5, <3>1 DEF Cell, Null, Compare, Coalesce, Truth
  <2>6. CASE v.type # "null"
    <3>1. Class(pg, v.type) = Class(pg, p.arg.type) /\ Class(pg, v.type) \in {"text", "boolean", "number"}
      BY <1>5, <2>4, <2>6 DEF Class, Domain, Scalars, Numeric
    <3>2. Compare(pg, p.op, Cell(pg, v), Parameter(pg, p.arg)) = Truth(Relates(p.op, v.val, p.arg.val))
      BY <2>6, <3>1 DEF Cell, Compare, Parameter
    <3> QED BY <1>1, <1>5, <2>2, <2>3, <2>6, <3>2 DEF Coalesce, Truth
  <2> QED BY <2>5, <2>6
<1> QED BY <1>1, <1>3, <1>4, <1>5 DEF IsAtom

-----------------------------------------------------------------------------
(* Of expressions that are true or false NOT, AND and OR are the Boolean      *)
(* ones, so that ~p is the complement of p and a predicate is never NULL      *)
(* either (compile_predicate).                                              *)
LEMMA ConnectivesExact ==
  /\ \A a \in BOOLEAN : Not3(Truth(a)) = Truth(~a)
  /\ \A S \in SUBSET BOOLEAN :
       /\ All3({Truth(b) : b \in S}) = Truth(FALSE \notin S)
       /\ Any3({Truth(b) : b \in S}) = Truth(TRUE \in S)
<1>1. \A a \in BOOLEAN : Not3(Truth(a)) = Truth(~a) BY DEF Not3, Truth
<1>2. ASSUME NEW S \in SUBSET BOOLEAN
      PROVE  All3({Truth(b) : b \in S}) = Truth(FALSE \notin S)
  <2> DEFINE T == {Truth(b) : b \in S}
  <2>1. "E" \notin T /\ "N" \notin T /\ ("F" \in T <=> FALSE \in S) BY DEF Truth
  <2> HIDE DEF T
  <2> QED BY <2>1 DEF All3, Truth, T
<1>3. ASSUME NEW S \in SUBSET BOOLEAN
      PROVE  Any3({Truth(b) : b \in S}) = Truth(TRUE \in S)
  <2> DEFINE T == {Not3(a) : a \in {Truth(b) : b \in S}}
  <2>1. "E" \notin T /\ "N" \notin T /\ ("F" \in T <=> TRUE \in S) BY DEF Truth, Not3
  <2>2. Any3({Truth(b) : b \in S}) = Not3(All3(T)) BY DEF Any3
  <2> HIDE DEF T
  <2> QED BY <2>1, <2>2 DEF All3, Not3, Truth
<1> QED BY <1>1, <1>2, <1>3

-----------------------------------------------------------------------------
(* The numbers of JSON bodies.                                              *)
LEMMA MagnitudeType ==
  ASSUME NEW n \in Int
  PROVE  Magnitude(n) \in Nat
BY DEF Magnitude

LEMMA NumberFields ==
  ASSUME NEW v \in Numbers
  PROVE  v = Number(v.type, v.val) /\ v.val \in Int /\ v.type \in {"int", "float"}
BY DEF Numbers, Number

LEMMA EncodedType ==
  ASSUME NEW v \in Numbers
  PROVE  Encoded(v) \in Literals /\ Encoded(v).val = v.val
BY NumberFields DEF Encoded, Literals, Literal

LEMMA KeptType ==
  ASSUME NEW lit \in Literals, NEW pg \in BOOLEAN
  PROVE  Kept(pg, lit) \in Literals /\ Kept(pg, lit).val = lit.val
BY DEF Kept, Literals, Literal

(* A portable number that the library writes is read from either backend as  *)
(* the number it was, of the same type: a float that JSONB rendered as an     *)
(* integer is a float again, and no integer becomes one (encode,             *)
(* portable_json_integer).                                                  *)
THEOREM NumbersSurvive ==
  ASSUME NEW v \in Numbers, Portable(v), NEW pg \in BOOLEAN
  PROVE  Decoded(pg, Kept(pg, Encoded(v))) = v
<1>1. v = Number(v.type, v.val) /\ v.val \in Int /\ v.type \in {"int", "float"}
  BY NumberFields
<1>2. Kept(pg, Encoded(v)) \in Literals /\ Kept(pg, Encoded(v)).val = v.val
  BY EncodedType, KeptType
<1>3. CASE v.type = "int"
  <2>1. Kept(pg, Encoded(v)).form = "digits"
    BY <1>3 DEF Encoded, Kept, Literal
  <2>2. Magnitude(v.val) <= MaxSafe
    BY <1>3 DEF Portable
  <2> QED BY <1>1, <1>2, <1>3, <2>1, <2>2 DEF Decoded, PortableInteger
<1>4. CASE v.type = "float"
  <2>1. Magnitude(v.val) <= MaxFloat /\ Magnitude(v.val) \in Nat
    BY <1>1, <1>4, MagnitudeType DEF Portable
  <2>2. CASE pg /\ Magnitude(v.val) >= ExponentFrom
    <3>1. Kept(pg, Encoded(v)).form = "digits"
      BY <1>4, <2>2 DEF Encoded, Kept, Literal
    <3>2. ~(Magnitude(v.val) <= MaxSafe)
      BY <2>1, <2>2, NumbersAssumption
    <3> QED BY <1>1, <1>2, <1>4, <2>1, <2>2, <3>1, <3>2 DEF Decoded, PortableInteger
  <2>3. CASE ~(pg /\ Magnitude(v.val) >= ExponentFrom)
    <3>1. Kept(pg, Encoded(v)).form # "digits"
      BY <1>4, <2>3 DEF Encoded, Kept, Literal
    <3> QED BY <1>1, <1>2, <1>4, <3>1 DEF Decoded
  <2> QED BY <2>2, <2>3
<1> QED BY <1>1, <1>3, <1>4

(* Whatever digits JSONB renders, raw SQL's among them, a handle of PostgreSQL *)
(* refuses the body or reads a number it can write back                      *)
(* (portable_json_integer, json_value).                                     *)
THEOREM NumbersReturn ==
  ASSUME NEW lit \in Literals, lit.form = "digits", Decoded(TRUE, lit) # Refused
  PROVE  Decoded(TRUE, lit) \in Numbers /\ Portable(Decoded(TRUE, lit))
<1> DEFINE number == Decoded(TRUE, lit)
<1>1. lit.val \in Int /\ number = PortableInteger(lit.val) /\ number # Refused
  BY DEF Decoded, Literals
<1> HIDE DEF number
<1>2. ASSUME Magnitude(lit.val) <= MaxSafe
      PROVE  number \in Numbers /\ Portable(number)
  <2>1. number = [type |-> "int", val |-> lit.val]
    BY <1>1, <1>2 DEF PortableInteger, Number
  <2> QED BY <1>1, <1>2, <2>1 DEF Portable, Numbers
<1>3. ASSUME ~(Magnitude(lit.val) <= MaxSafe)
      PROVE  number \in Numbers /\ Portable(number)
  <2>1. Magnitude(lit.val) <= MaxFloat /\ number = [type |-> "float", val |-> lit.val]
    BY <1>1, <1>3 DEF PortableInteger, Number
  <2> QED BY <1>1, <2>1 DEF Portable, Numbers
<1> QED BY <1>2, <1>3 DEF number

(* A number that an export reads and accepts is read from the destination of *)
(* the import as it was from the source, whatever the two backends            *)
(* (transfer.export, transfer.import_into).                                 *)
THEOREM NumbersTransfer ==
  ASSUME NEW lit \in Literals, NEW fpg \in BOOLEAN, NEW pg \in BOOLEAN,
         Decoded(fpg, lit) # Refused, Portable(Decoded(fpg, lit))
  PROVE  Decoded(pg, Imported(pg, Exported(fpg, lit))) = Decoded(fpg, lit)
<1> DEFINE number == Decoded(fpg, lit)
<1>1. number \in Numbers
  BY DEF Decoded, PortableInteger, Number, Refused, Literals, Numbers
<1>2. Kept(FALSE, Encoded(number)) = Encoded(number)
  BY DEF Kept
<1>3. Decoded(FALSE, Encoded(number)) = number
  BY <1>1, <1>2, NumbersSurvive
<1>4. Imported(pg, Exported(fpg, lit)) = Kept(pg, Encoded(number))
  BY <1>3 DEF Imported, Exported
<1> QED BY <1>1, <1>4, NumbersSurvive

-----------------------------------------------------------------------------
(* Induction, as the impossibility of a least counterexample.               *)
LEMMA Least ==
  ASSUME NEW T, T \subseteq Nat, T # {}
  PROVE  \E n \in T : \A m \in T : n <= m
<1> DEFINE R == OpToRel(<, Nat)
<1>1. \A a, b \in Nat : a < b => <<a, b>> \in R
  BY DEF OpToRel
<1>2. IsWellFoundedOn(R, Nat)
  BY NatLessThanWellFounded
<1> HIDE DEF R
<1>3. PICK n \in T : \A m \in T : <<m, n>> \notin R
  BY <1>2, WFMin
<1>4. \A m \in T : n <= m
  <2> TAKE m \in T
  <2>1. m \in Nat /\ n \in Nat OBVIOUS
  <2>2. ~(m < n) BY <1>1, <1>3, <2>1
  <2> QED BY <2>1, <2>2
<1> QED BY <1>4

LEMMA Induction ==
  ASSUME NEW S, 0 \in S, \A n \in Nat : n \in S => n + 1 \in S
  PROVE  Nat \subseteq S
<1> DEFINE T == Nat \ S
<1> SUFFICES ASSUME T # {} PROVE FALSE OBVIOUS
<1>1. T \subseteq Nat OBVIOUS
<1> HIDE DEF T
<1>2. PICK n \in T : \A m \in T : n <= m BY <1>1, Least
<1>3. n \in Nat /\ n # 0 /\ n - 1 \in Nat /\ n - 1 \in S BY <1>2 DEF T
<1> QED BY <1>3 DEF T

-----------------------------------------------------------------------------
(* FlattenSeq, by the sequences it has put together after each of its steps.  *)
Accumulates(ss, n, G) ==
  /\ DOMAIN G = 0..n /\ G[0] = <<>> /\ G[n] = FlattenSeq(ss)
  /\ \A i \in 1..n : G[i] = G[i - 1] \o ss[i]

(* The proofs take a sequence as a function on 1..n, which the provers      *)
(* reason about, and come back.                                             *)
LEMMA IsSeq ==
  ASSUME NEW X, NEW n \in Nat, NEW s \in [1..n -> X]
  PROVE  s \in Seq(X) /\ Len(s) = n
OBVIOUS

(* The recursive function inside FlattenSeq, with its equations.            *)
Unfolded(ss, n, r) ==
  /\ DOMAIN r = 1..n /\ r[n] = FlattenSeq(ss)
  /\ \A i \in 1..n : r[i] = IF i = 1 THEN ss[i] ELSE r[i - 1] \o ss[i]

LEMMA FlattenUnfolds ==
  ASSUME NEW X, NEW n \in Nat \ {0}, NEW ss \in [1..n -> Seq(X)]
  PROVE  \E r : Unfolded(ss, n, r)
<1> DEFINE Body(r, i) == IF i = 1 THEN ss[i] ELSE r[i - 1] \o ss[i]
           Solves(r, m) == r = [i \in 1..m |-> Body(r, i)]
           S == {m \in Nat : \E r : Solves(r, m)}
<1>1. 0 \in S
  <2> DEFINE r == [i \in 1..0 |-> <<>>]
  <2>1. Solves(r, 0) OBVIOUS
  <2> QED BY <2>1
<1>2. \A m \in Nat : m \in S => m + 1 \in S
  <2> SUFFICES ASSUME NEW m \in Nat, m \in S PROVE m + 1 \in S
    OBVIOUS
  <2>0. PICK r : Solves(r, m) OBVIOUS
  <2> DEFINE s == [i \in 1..(m + 1) |-> IF i = m + 1 THEN Body(r, i) ELSE r[i]]
  <2>1. \A i \in 1..m : s[i] = r[i] OBVIOUS
  <2>2. \A i \in 1..m : r[i] = Body(r, i)  BY <2>0
  <2>3. \A i \in 1..(m + 1) : s[i] = Body(s, i)
    <3> TAKE i \in 1..(m + 1)
    <3>0. s[i] = IF i = m + 1 THEN Body(r, i) ELSE r[i] OBVIOUS
    <3> HIDE DEF Solves, s
    <3>1. s[i] = Body(r, i)
      BY <3>0, <2>1, <2>2
    <3>2. i # 1 => i - 1 \in 1..m OBVIOUS
    <3> QED BY <3>1, <3>2, <2>1
  <2>4. s = [i \in 1..(m + 1) |-> s[i]] OBVIOUS
  <2> HIDE DEF s, Body
  <2>5. Solves(s, m + 1) BY <2>3, <2>4
  <2> HIDE DEF Solves
  <2> QED BY <2>5
<1> HIDE DEF S
<1>3. Len(ss) = n /\ n # 0 BY IsSeq
<1>4. \E r : Solves(r, n) BY <1>1, <1>2, Induction DEF S
<1> DEFINE F == CHOOSE r : Solves(r, Len(ss))
<1>5. FlattenSeq(ss) = F[Len(ss)] BY <1>3, Zenon DEF FlattenSeq
<1>6. Solves(F, n) BY <1>3, <1>4, Zenon
<1> HIDE DEF F
<1>7. DOMAIN F = 1..n /\ \A i \in 1..n : F[i] = Body(F, i) BY <1>6
<1>8. Unfolded(ss, n, F) BY <1>3, <1>5, <1>7 DEF Unfolded
<1> QED BY <1>8

(* G[i] is the concatenation of the first i sequences.                      *)
LEMMA FlattenAccumulates ==
  ASSUME NEW X, NEW n \in Nat, NEW ss \in [1..n -> Seq(X)]
  PROVE  \E G : Accumulates(ss, n, G)
<1>1. CASE n = 0
  <2> DEFINE G == [i \in 0..0 |-> <<>>]
  <2>1. ss = <<>> /\ Len(ss) = 0 BY <1>1, IsSeq
  <2>2. FlattenSeq(ss) = <<>> BY <2>1 DEF FlattenSeq
  <2>3. Accumulates(ss, n, G) BY <1>1, <2>2 DEF Accumulates
  <2> QED BY <2>3
<1>2. CASE n # 0
  <2>1. PICK r : Unfolded(ss, n, r)
    <3>1. n \in Nat \ {0} BY <1>2
    <3> QED BY <3>1, FlattenUnfolds
  <2> DEFINE G == [i \in 0..n |-> IF i = 0 THEN <<>> ELSE r[i]]
  <2>2. G[0] = <<>> /\ DOMAIN G = 0..n /\ \A i \in 1..n : G[i] = r[i] OBVIOUS
  <2> HIDE DEF G
  <2>3. ASSUME NEW i \in 1..n PROVE G[i] = G[i - 1] \o ss[i]
    <3>2. CASE i = 1
      <4>1. ss[1] \in Seq(X) BY <1>2
      <4>2. <<>> \o ss[1] = ss[1] BY <4>1
      <4>3. i - 1 = 0 /\ G[i - 1] = <<>> /\ G[i] = ss[1] BY <2>1, <2>2, <3>2 DEF Unfolded
      <4> QED BY <3>2, <4>2, <4>3
    <3>3. CASE i # 1
      <4>1. i - 1 \in 1..n BY <3>3
      <4> QED BY <2>1, <2>2, <3>3, <4>1 DEF Unfolded
    <3> QED BY <3>2, <3>3
  <2>5. n \in 1..n BY <1>2
  <2>4. Accumulates(ss, n, G) BY <2>1, <2>2, <2>3, <2>5 DEF Accumulates, Unfolded
  <2> QED BY <2>4
<1> QED BY <1>1, <1>2

(* The position before which the i-th sequence begins.                       *)
Offsets(ss, n, at) ==
  /\ at \in [0..n -> Nat] /\ at[0] = 0 /\ at[n] = Len(FlattenSeq(ss))
  /\ \A i \in 1..n : at[i] = at[i - 1] + Len(ss[i])
  /\ \A i \in 1..n : \A a \in 1..Len(ss[i]) : FlattenSeq(ss)[at[i - 1] + a] = ss[i][a]

(* u is s and then t.                                                       *)
Joins(s, t, u) ==
  /\ Len(s) \in Nat /\ Len(t) \in Nat /\ Len(u) = Len(s) + Len(t)
  /\ \A p \in 1..Len(s) : u[p] = s[p]
  /\ \A a \in 1..Len(t) : u[Len(s) + a] = t[a]

LEMMA ConcatParts ==
  ASSUME NEW X, NEW s \in Seq(X), NEW t \in Seq(X)
  PROVE  s \o t \in Seq(X) /\ Joins(s, t, s \o t)
BY DEF Joins

(* What FlattenSeq puts at a position is what a sequence of its argument    *)
(* has there.                                                               *)
LEMMA FlattenOffsets ==
  ASSUME NEW X, NEW n \in Nat, NEW ss \in [1..n -> Seq(X)]
  PROVE  FlattenSeq(ss) \in Seq(X) /\ \E at : Offsets(ss, n, at)
<1>1. PICK G : Accumulates(ss, n, G) BY FlattenAccumulates
<1>3. \A i \in 0..n : G[i] \in Seq(X)
  <2> DEFINE S == {i \in Nat : i <= n => G[i] \in Seq(X)}
  <2>1. 0 \in S
    <3>1. <<>> \in Seq(X) OBVIOUS
    <3> QED BY <1>1, <3>1 DEF Accumulates
  <2>2. ASSUME NEW m \in Nat, m \in S, m + 1 <= n PROVE G[m + 1] \in Seq(X)
    <3>1. G[m] \in Seq(X) BY <2>2
    <3>2. m + 1 \in 1..n /\ (m + 1) - 1 = m BY <2>2
    <3>3. G[m + 1] = G[m] \o ss[m + 1] BY <1>1, <3>2 DEF Accumulates
    <3> QED BY <3>1, <3>2, <3>3, ConcatParts
  <2>3. Nat \subseteq S
    <3>1. \A m \in Nat : m \in S => m + 1 \in S BY <2>2
    <3> HIDE DEF S
    <3> QED BY <2>1, <3>1, Induction
  <2> QED BY <2>3
<1>4. ASSUME NEW i \in 1..n
      PROVE  /\ Len(G[i]) = Len(G[i - 1]) + Len(ss[i])
             /\ Len(ss[i]) \in Nat /\ Len(G[i - 1]) \in Nat
             /\ \A p \in 1..Len(G[i - 1]) : G[i][p] = G[i - 1][p]
             /\ \A a \in 1..Len(ss[i]) : G[i][Len(G[i - 1]) + a] = ss[i][a]
  <2>1. i - 1 \in 0..n OBVIOUS
  <2>2. G[i - 1] \in Seq(X) /\ ss[i] \in Seq(X) BY <1>3, <2>1
  <2>3. G[i] = G[i - 1] \o ss[i] BY <1>1 DEF Accumulates
  <2>4. Joins(G[i - 1], ss[i], G[i]) BY <2>2, <2>3, ConcatParts
  <2> HIDE <1>1, <1>3
  <2> QED BY <2>4 DEF Joins
<1> DEFINE at == [i \in 0..n |-> Len(G[i])]
<1>5. \A i \in 0..n : at[i] = Len(G[i]) /\ at[i] \in Nat BY <1>3
<1>6. at \in [0..n -> Nat] BY <1>3
<1> HIDE DEF at
<1>7. \A i \in 1..n : at[i] = at[i - 1] + Len(ss[i]) /\ Len(ss[i]) \in Nat /\ i - 1 \in 0..n
  <2> TAKE i \in 1..n
  <2>1. i \in 0..n /\ i - 1 \in 0..n OBVIOUS
  <2> QED BY <1>4, <1>5, <2>1
<1>8. \A i \in 0..n : \A p \in 1..at[i] : G[n][p] = G[i][p]
  <2> DEFINE Good(i) == \A p \in 1..at[i] : G[n][p] = G[i][p]
             S == {k \in Nat : k <= n => Good(n - k)}
  <2>1. 0 \in S OBVIOUS
  <2>2. ASSUME NEW m \in Nat, m \in S, m + 1 <= n PROVE Good(n - (m + 1))
    <3>1. Good(n - m) BY <2>2
    <3>2. n - m \in 1..n /\ n - (m + 1) = (n - m) - 1 /\ (n - m) - 1 \in 0..n BY <2>2
    <3>3. /\ \A p \in 1..at[(n - m) - 1] : G[n - m][p] = G[(n - m) - 1][p]
          /\ at[(n - m) - 1] <= at[n - m] /\ at[n - m] \in Nat /\ at[(n - m) - 1] \in Nat
      BY <1>4, <1>5, <1>7, <3>2
    <3> QED BY <3>1, <3>2, <3>3
  <2>3. Nat \subseteq S
    <3> HIDE DEF Good
    <3>1. \A m \in Nat : m \in S => m + 1 \in S BY <2>2
    <3> HIDE DEF S
    <3> QED BY <2>1, <3>1, Induction
  <2>4. ASSUME NEW i \in 0..n PROVE Good(i)
    <3>1. n - i \in Nat /\ n - (n - i) = i /\ n - i <= n OBVIOUS
    <3>2. n - i <= n => Good(n - (n - i)) BY <2>3, <3>1
    <3> QED BY <3>1, <3>2
  <2> QED BY <2>4
<1>9. Offsets(ss, n, at)
  <2>1. at[0] = 0 /\ at[n] = Len(FlattenSeq(ss))
    <3>1. Len(<<>>) = 0 OBVIOUS
    <3> QED BY <1>1, <1>5, <3>1 DEF Accumulates
  <2>2. ASSUME NEW i \in 1..n, NEW a \in 1..Len(ss[i])
        PROVE  FlattenSeq(ss)[at[i - 1] + a] = ss[i][a]
    <3>1. G[i][at[i - 1] + a] = ss[i][a] BY <1>4, <1>5, <1>7, ZenonT(60)
    <3>2. at[i - 1] + a \in 1..at[i] /\ i \in 0..n BY <1>5, <1>7
    <3> QED BY <1>1, <1>8, <3>1, <3>2 DEF Accumulates
  <2> QED BY <1>6, <1>7, <2>1, <2>2 DEF Offsets
<1>10. FlattenSeq(ss) \in Seq(X) BY <1>1, <1>3 DEF Accumulates
<1> QED BY <1>9, <1>10

(* Offsets grow, and every position of the result lies in one sequence.      *)
InBlock(ss, n, at, p) == \E i \in 1..n : \E a \in 1..Len(ss[i]) : p = at[i - 1] + a

LEMMA OffsetsGrow ==
  ASSUME NEW X, NEW n \in Nat, NEW ss \in [1..n -> Seq(X)], NEW at, Offsets(ss, n, at)
  PROVE  /\ \A i \in 0..n : \A j \in i..n : at[i] <= at[j]
         /\ \A p \in 1..Len(FlattenSeq(ss)) : InBlock(ss, n, at, p)
<1>0. /\ \A i \in 0..n : at[i] \in Nat
      /\ \A i \in 1..n : at[i] = at[i - 1] + Len(ss[i])
      /\ at[0] = 0 /\ at[n] = Len(FlattenSeq(ss))
  BY DEF Offsets
<1>00. \A i \in 1..n : Len(ss[i]) \in Nat OBVIOUS
<1>1. ASSUME NEW i \in 0..n PROVE \A j \in i..n : at[i] <= at[j]
  <2> DEFINE S == {k \in Nat : i + k <= n => at[i] <= at[i + k]}
  <2>1. 0 \in S BY <1>0
  <2>2. ASSUME NEW m \in Nat, m \in S, i + (m + 1) <= n PROVE at[i] <= at[i + (m + 1)]
    <3>1. at[i] <= at[i + m] BY <1>0, <2>2
    <3>2. i + (m + 1) \in 1..n /\ (i + (m + 1)) - 1 = i + m /\ i + m \in 0..n /\ i + (m + 1) \in 0..n
      BY <2>2
    <3>3. at[i + (m + 1)] = at[i + m] + Len(ss[i + (m + 1)]) /\ Len(ss[i + (m + 1)]) \in Nat
      BY <1>0, <1>00, <3>2
    <3>4. at[i] \in Nat /\ at[i + m] \in Nat BY <1>0, <3>2
    <3> QED BY <3>1, <3>3, <3>4
  <2>3. Nat \subseteq S
    <3>1. \A m \in Nat : m \in S => m + 1 \in S BY <2>2
    <3> HIDE DEF S
    <3> QED BY <2>1, <3>1, Induction
  <2> TAKE j \in i..n
  <2>4. j - i \in Nat /\ i + (j - i) = j /\ j <= n OBVIOUS
  <2>5. i + (j - i) <= n => at[i] <= at[i + (j - i)] BY <2>3, <2>4
  <2> QED BY <2>4, <2>5
<1>2. ASSUME NEW p \in 1..at[n]
      PROVE  \E i \in 1..n : \E a \in 1..Len(ss[i]) : p = at[i - 1] + a
  <2> DEFINE T == {i \in 0..n : p <= at[i]}
  <2>1. T \subseteq Nat /\ n \in T BY <1>0
  <2> HIDE DEF T
  <2>2. PICK i \in T : \A m \in T : i <= m BY <2>1, Least
  <2>3. i \in 0..n /\ p <= at[i] /\ i # 0 BY <1>0, <2>2 DEF T
  <2>4. i \in 1..n /\ i - 1 \in 0..n /\ ~(i <= i - 1) BY <2>3
  <2>5. i - 1 \notin T BY <2>2, <2>4
  <2>6. ~(p <= at[i - 1]) /\ at[i - 1] \in Nat /\ at[i] = at[i - 1] + Len(ss[i]) /\ Len(ss[i]) \in Nat
    BY <1>0, <1>00, <2>4, <2>5 DEF T
  <2>8. p \in Nat BY <1>0
  <2> DEFINE a == p - at[i - 1]
  <2>7. a \in 1..Len(ss[i]) /\ p = at[i - 1] + a
    BY <2>3, <2>6, <2>8
  <2> QED BY <2>4, <2>7
<1> QED BY <1>0, <1>1, <1>2 DEF InBlock

-----------------------------------------------------------------------------
(* What Selected keeps, and that it keeps it once.                           *)
OneToOne(s, n) == \A i, j \in 1..n : s[i] = s[j] => i = j

(* u has the members of s in S, each, and each once when s has no           *)
(* duplicates.                                                              *)
Selects(s, n, S, u) ==
  /\ \A i \in 1..n : s[i] \in S => \E p \in 1..Len(u) : u[p] = s[i]
  /\ OneToOne(s, n) => OneToOne(u, Len(u))

SumTo(i, j, k) == i + j = k

(* Selected keeps exactly the members in S, in a sequence without           *)
(* duplicates when the argument has none.                                   *)
LEMMA SelectedParts ==
  ASSUME NEW X, NEW n \in Nat, NEW s \in [1..n -> X], NEW S
  PROVE  /\ Selected(s, S) \in Seq(X \cap S) /\ Selects(s, n, S, Selected(s, S))
         /\ SumTo(Len(Selected(s, S)), Len(Selected(s, X \ S)), n)
<1> DEFINE Kept1(U) == [i \in 1..n |-> IF s[i] \in U THEN <<s[i]>> ELSE <<>>]
<1>1. \A U : Selected(s, U) = FlattenSeq(Kept1(U)) BY DEF Selected
<1>2. ASSUME NEW U, NEW i \in 1..n
      PROVE  /\ Kept1(U)[i] \in Seq(X \cap U) /\ Len(Kept1(U)[i]) \in Nat
             /\ s[i] \in U => Len(Kept1(U)[i]) = 1 /\ Kept1(U)[i][1] = s[i]
             /\ s[i] \notin U => Len(Kept1(U)[i]) = 0
  <2>1. Kept1(U)[i] = IF s[i] \in U THEN <<s[i]>> ELSE <<>> OBVIOUS
  <2> HIDE DEF Kept1
  <2>2. CASE s[i] \in U
    <3>1. Kept1(U)[i] = <<s[i]>> /\ s[i] \in X \cap U BY <2>1, <2>2
    <3>2. <<s[i]>> \in Seq(X \cap U) /\ Len(<<s[i]>>) = 1 /\ <<s[i]>>[1] = s[i] BY <3>1
    <3> QED BY <2>2, <3>1, <3>2
  <2>3. CASE s[i] \notin U
    <3>1. Kept1(U)[i] = <<>> BY <2>1, <2>3
    <3>2. <<>> \in Seq(X \cap U) /\ Len(<<>>) = 0 OBVIOUS
    <3> QED BY <2>3, <3>1, <3>2
  <2> QED BY <2>2, <2>3
<1>3. \A U : Kept1(U) \in [1..n -> Seq(X \cap U)]
  <2> TAKE U
  <2>1. DOMAIN Kept1(U) = 1..n /\ Kept1(U) = [i \in 1..n |-> Kept1(U)[i]] OBVIOUS
  <2> HIDE DEF Kept1
  <2> QED BY <1>2, <2>1
<1> HIDE DEF Kept1
<1>4. \A U : FlattenSeq(Kept1(U)) \in Seq(X \cap U) /\ \E at : Offsets(Kept1(U), n, at)
  BY <1>3, FlattenOffsets
<1>5. PICK at : Offsets(Kept1(S), n, at) BY <1>4
<1>6. ASSUME NEW i \in 1..n, s[i] \in S
      PROVE  \E p \in 1..Len(Selected(s, S)) : Selected(s, S)[p] = s[i]
  <2>0. Len(Kept1(S)[i]) = 1 /\ Kept1(S)[i][1] = s[i] BY <1>2, <1>6
  <2>1. /\ at[i] = at[i - 1] + 1 /\ FlattenSeq(Kept1(S))[at[i - 1] + 1] = s[i]
        /\ at[n] = Len(FlattenSeq(Kept1(S)))
    <3>1. 1 \in 1..Len(Kept1(S)[i]) BY <2>0
    <3> HIDE DEF Kept1
    <3>2. FlattenSeq(Kept1(S))[at[i - 1] + 1] = Kept1(S)[i][1] BY <1>5, <3>1 DEF Offsets
    <3>3. at[i] = at[i - 1] + Len(Kept1(S)[i]) /\ at[n] = Len(FlattenSeq(Kept1(S))) BY <1>5 DEF Offsets
    <3> QED BY <2>0, <3>2, <3>3
  <2>2. i \in 0..n /\ n \in i..n /\ i - 1 \in 0..n OBVIOUS
  <2>3. at[i] <= at[n] BY <1>3, <1>5, <2>2, OffsetsGrow
  <2>4. at[i] \in Nat /\ at[n] \in Nat /\ at[i - 1] \in Nat BY <1>5, <2>2 DEF Offsets
  <2>5. at[i] \in 1..Len(FlattenSeq(Kept1(S))) BY <2>1, <2>3, <2>4
  <2> QED BY <1>1, <2>1, <2>5
<1>7. ASSUME OneToOne(s, n),
             NEW p \in 1..Len(Selected(s, S)), NEW q \in 1..Len(Selected(s, S)),
             Selected(s, S)[p] = Selected(s, S)[q]
      PROVE  p = q
  <2>1. ASSUME NEW r \in 1..Len(Selected(s, S))
        PROVE  \E i \in 1..n : r = at[i - 1] + 1 /\ Selected(s, S)[r] = s[i]
    <3>0. \A u \in 1..Len(FlattenSeq(Kept1(S))) : InBlock(Kept1(S), n, at, u)
      <4>1. Kept1(S) \in [1..n -> Seq(X \cap S)] BY <1>3
      <4> QED BY <1>5, <4>1, OffsetsGrow
    <3>1. PICK i \in 1..n : \E a \in 1..Len(Kept1(S)[i]) : r = at[i - 1] + a
      BY <1>1, <3>0 DEF InBlock
    <3>2. PICK a \in 1..Len(Kept1(S)[i]) : r = at[i - 1] + a BY <3>1
    <3>3. s[i] \in S /\ a = 1 /\ Kept1(S)[i][1] = s[i]
      <4>1. CASE s[i] \in S
        <5>1. Len(Kept1(S)[i]) = 1 /\ Kept1(S)[i][1] = s[i] BY <1>2, <4>1
        <5> QED BY <4>1, <5>1
      <4>2. CASE s[i] \notin S
        <5>1. Len(Kept1(S)[i]) = 0 BY <1>2, <4>2
        <5> QED BY <5>1
      <4> QED BY <4>1, <4>2
    <3> QED BY <1>1, <1>5, <3>2, <3>3 DEF Offsets
  <2>2. PICK i \in 1..n : p = at[i - 1] + 1 /\ Selected(s, S)[p] = s[i] BY <2>1
  <2>3. PICK j \in 1..n : q = at[j - 1] + 1 /\ Selected(s, S)[q] = s[j] BY <2>1
  <2> QED BY <1>7, <2>2, <2>3 DEF OneToOne
<1>8. Len(Selected(s, S)) + Len(Selected(s, X \ S)) = n
  <2>1. PICK bt : Offsets(Kept1(X \ S), n, bt) BY <1>4
  <2> DEFINE T == {k \in Nat : k <= n => at[k] + bt[k] = k}
  <2>2. 0 \in T BY <1>5, <2>1 DEF Offsets
  <2>3. ASSUME NEW m \in Nat, m \in T, m + 1 <= n PROVE at[m + 1] + bt[m + 1] = m + 1
    <3>1. m + 1 \in 1..n /\ (m + 1) - 1 = m /\ m \in 0..n BY <2>3
    <3>2. at[m + 1] = at[m] + Len(Kept1(S)[m + 1]) /\ bt[m + 1] = bt[m] + Len(Kept1(X \ S)[m + 1])
      BY <1>5, <2>1, <3>1 DEF Offsets
    <3>3. Len(Kept1(S)[m + 1]) + Len(Kept1(X \ S)[m + 1]) = 1
      <4>1. s[m + 1] \in X /\ (s[m + 1] \in S <=> s[m + 1] \notin X \ S) BY <3>1
      <4>2. CASE s[m + 1] \in S
        <5>1. Len(Kept1(S)[m + 1]) = 1 BY <1>2, <3>1, <4>2
        <5>2. Len(Kept1(X \ S)[m + 1]) = 0 BY <1>2, <3>1, <4>1, <4>2
        <5> QED BY <5>1, <5>2
      <4>3. CASE s[m + 1] \notin S
        <5>1. Len(Kept1(S)[m + 1]) = 0 BY <1>2, <3>1, <4>3
        <5>2. Len(Kept1(X \ S)[m + 1]) = 1 BY <1>2, <3>1, <4>1, <4>3
        <5> QED BY <5>1, <5>2
      <4> QED BY <4>2, <4>3
    <3>4. Len(Kept1(S)[m + 1]) \in Nat /\ Len(Kept1(X \ S)[m + 1]) \in Nat
      <4>1. Kept1(S)[m + 1] \in Seq(X \cap S) /\ Kept1(X \ S)[m + 1] \in Seq(X \cap (X \ S)) BY <1>2, <3>1
      <4> QED BY <4>1
    <3>5. at[m] + bt[m] = m BY <2>3
    <3>6. at[m] \in Nat /\ bt[m] \in Nat BY <1>5, <2>1, <3>1 DEF Offsets
    <3> DEFINE a == at[m]  b == bt[m]  u == Len(Kept1(S)[m + 1])  v == Len(Kept1(X \ S)[m + 1])
               e == at[m + 1]  g == bt[m + 1]
    <3>7. e = a + u /\ g = b + v /\ u + v = 1 /\ a + b = m /\ a \in Nat /\ b \in Nat /\ u \in Nat /\ v \in Nat
      BY <3>2, <3>3, <3>4, <3>5, <3>6
    <3> HIDE DEF a, b, u, v, e, g
    <3>8. e + g = m + 1 BY <3>7
    <3> QED BY <3>8 DEF e, g
  <2>4. Nat \subseteq T
    <3>1. \A m \in Nat : m \in T => m + 1 \in T BY <2>3
    <3> HIDE DEF T
    <3> QED BY <2>2, <3>1, Induction
  <2>5. at[n] + bt[n] = n BY <2>4
  <2> QED BY <1>1, <1>5, <2>1, <2>5 DEF Offsets
<1>9. Selected(s, S) \in Seq(X \cap S) BY <1>1, <1>4
<1>10. Selects(s, n, S, Selected(s, S)) BY <1>6, <1>7 DEF Selects, OneToOne
<1> QED BY <1>8, <1>9, <1>10 DEF SumTo

(* SetToSeq lists a finite set, every element once.                         *)
LEMMA SetToSeqParts ==
  ASSUME NEW S, IsFiniteSet(S)
  PROVE  /\ Cardinality(S) \in Nat /\ SetToSeq(S) \in [1..Cardinality(S) -> S]
         /\ \A i, j \in 1..Cardinality(S) : SetToSeq(S)[i] = SetToSeq(S)[j] => i = j
         /\ \A x \in S : \E i \in 1..Cardinality(S) : SetToSeq(S)[i] = x
<1> DEFINE f == SetToSeq(S)  c == Cardinality(S)
<1>1. c \in Nat /\ ExistsBijection(1..c, S) BY FS_CardinalityType
<1>2. \E g \in [1..c -> S] : IsInjective(g)
  BY <1>1 DEF ExistsBijection, Bijection, Injection, IsInjective
<1>3. f \in [1..c -> S] /\ IsInjective(f) BY <1>2, Zenon DEF SetToSeq
<1> HIDE DEF f, c
<1>4. f \in Injection(1..c, S) BY <1>3 DEF Injection
<1>5. Cardinality(1..c) = c BY <1>1, FS_Interval
<1>6. f \in Surjection(1..c, S) BY <1>4, <1>5, FS_Injection DEF c
<1>7. \A x \in S : \E i \in 1..c : f[i] = x BY <1>6 DEF Surjection
<1>8. \A i, j \in 1..c : f[i] = f[j] => i = j BY <1>3 DEF IsInjective
<1> QED BY <1>1, <1>3, <1>7, <1>8 DEF f, c

-----------------------------------------------------------------------------
(* The statements of an object.                                             *)
CreateOf(d) == <<"create", d.name, Bare(d.spec)>>
RowsOf(d) == {<<"row", d.name, r>> : r \in d.rows}
RulesOf(d) == {<<"rule", d.name, rule>> : rule \in d.spec.rules}
Statements(d) == {CreateOf(d)} \cup RowsOf(d) \cup RulesOf(d)

LEMMA StatementsFinite ==
  ASSUME NEW d, IsFiniteSet(d.rows), IsFiniteSet(d.spec.rules)
  PROVE  IsFiniteSet(RowsOf(d)) /\ IsFiniteSet(RulesOf(d))
<1> DEFINE f == [r \in d.rows |-> <<"row", d.name, r>>]
           g == [rule \in d.spec.rules |-> <<"rule", d.name, rule>>]
<1>1. f \in Surjection(d.rows, RowsOf(d)) BY DEF Surjection, RowsOf
<1>2. g \in Surjection(d.spec.rules, RulesOf(d)) BY DEF Surjection, RulesOf
<1> HIDE DEF f, g
<1> QED BY <1>1, <1>2, FS_Surjection

ThreeOf(x, s, n1, t, n2, u) ==
  /\ Len(u) = 1 + n1 + n2 /\ u[1] = x
  /\ \A i \in 1..n1 : u[1 + i] = s[i]
  /\ \A i \in 1..n2 : u[1 + n1 + i] = t[i]

LEMMA ThreeParts ==
  ASSUME NEW X, NEW n1 \in Nat, NEW n2 \in Nat, NEW x \in X, NEW s \in [1..n1 -> X], NEW t \in [1..n2 -> X]
  PROVE  ThreeOf(x, s, n1, t, n2, <<x>> \o s \o t) /\ <<x>> \o s \o t \in Seq(X)
<1> DEFINE k == <<x>>  h == k \o s  u == h \o t
<1>1. s \in Seq(X) /\ Len(s) = n1 /\ t \in Seq(X) /\ Len(t) = n2 BY IsSeq
<1>2. k \in Seq(X) /\ Len(k) = 1 /\ k[1] = x OBVIOUS
<1> HIDE DEF k
<1>3. h \in Seq(X) /\ Joins(k, s, h) BY <1>1, <1>2, ConcatParts
<1> HIDE DEF h
<1>4. u \in Seq(X) /\ Joins(h, t, u) BY <1>1, <1>3, ConcatParts
<1> HIDE DEF u
<1>5. Len(h) = 1 + n1 /\ h[1] = x /\ \A i \in 1..n1 : h[1 + i] = s[i]
  BY <1>1, <1>2, <1>3 DEF Joins
<1>6. 1 \in 1..Len(h) /\ \A i \in 1..n1 : 1 + i \in 1..Len(h) BY <1>5
<1>7. ThreeOf(x, s, n1, t, n2, u) BY <1>1, <1>4, <1>5, <1>6 DEF Joins, ThreeOf
<1> QED BY <1>4, <1>7 DEF u, h, k

(* StatementsFor lists the statements of an object, each once: the create   *)
(* first, then the rows, then the rules.                                    *)
LEMMA StatementsInOrder ==
  ASSUME NEW d, IsFiniteSet(d.rows), IsFiniteSet(d.spec.rules)
  PROVE  LET T == StatementsFor(d)
         IN /\ T \in Seq(Statements(d)) /\ Len(T) \in Nat \ {0} /\ T[1] = CreateOf(d)
            /\ \A s \in Statements(d) : \E a \in 1..Len(T) : T[a] = s
            /\ \A a, b \in 1..Len(T) : T[a] = T[b] => a = b
<1> DEFINE s == SetToSeq(RowsOf(d))  t == SetToSeq(RulesOf(d))
           n1 == Cardinality(RowsOf(d))  n2 == Cardinality(RulesOf(d))
           T == <<CreateOf(d)>> \o s \o t  X == Statements(d)
<1>1. StatementsFor(d) = T BY DEF StatementsFor, CreateOf, RowsOf, RulesOf
<1>2. /\ n1 \in Nat /\ s \in [1..n1 -> RowsOf(d)]
      /\ \A i, j \in 1..n1 : s[i] = s[j] => i = j
      /\ \A x \in RowsOf(d) : \E i \in 1..n1 : s[i] = x
  BY StatementsFinite, SetToSeqParts
<1>3. /\ n2 \in Nat /\ t \in [1..n2 -> RulesOf(d)]
      /\ \A i, j \in 1..n2 : t[i] = t[j] => i = j
      /\ \A x \in RulesOf(d) : \E i \in 1..n2 : t[i] = x
  BY StatementsFinite, SetToSeqParts
<1>4. /\ CreateOf(d) \notin RowsOf(d) /\ CreateOf(d) \notin RulesOf(d) /\ RowsOf(d) \cap RulesOf(d) = {}
  BY DEF CreateOf, RowsOf, RulesOf
<1> HIDE DEF s, t, n1, n2
<1>5. s \in [1..n1 -> X] /\ t \in [1..n2 -> X] /\ CreateOf(d) \in X BY <1>2, <1>3 DEF Statements
<1>6. /\ T \in Seq(X) /\ Len(T) = 1 + n1 + n2 /\ T[1] = CreateOf(d)
      /\ \A i \in 1..n1 : T[1 + i] = s[i]
      /\ \A i \in 1..n2 : T[1 + n1 + i] = t[i]
  <2>1. n1 \in Nat /\ n2 \in Nat BY <1>2, <1>3
  <2> HIDE DEF X
  <2>2. T \in Seq(X) /\ ThreeOf(CreateOf(d), s, n1, t, n2, T) BY <2>1, <1>5, ThreeParts
  <2> QED BY <2>2 DEF ThreeOf
<1> HIDE DEF T, X
<1>8. ASSUME NEW x \in X PROVE \E a \in 1..(1 + n1 + n2) : T[a] = x
  <2>1. CASE x = CreateOf(d)
    <3>1. 1 \in 1..(1 + n1 + n2) BY <1>2, <1>3
    <3> QED BY <1>6, <2>1, <3>1
  <2>2. CASE x \in RowsOf(d)
    <3>1. PICK i \in 1..n1 : s[i] = x BY <1>2, <2>2
    <3>2. 1 + i \in 1..(1 + n1 + n2) BY <1>2, <1>3
    <3> QED BY <1>6, <3>1, <3>2
  <2>3. CASE x \in RulesOf(d)
    <3>1. PICK i \in 1..n2 : t[i] = x BY <1>3, <2>3
    <3>2. 1 + n1 + i \in 1..(1 + n1 + n2) BY <1>2, <1>3
    <3> QED BY <1>6, <3>1, <3>2
  <2> QED BY <2>1, <2>2, <2>3 DEF X, Statements
<1>9. ASSUME NEW a \in 1..(1 + n1 + n2), NEW b \in 1..(1 + n1 + n2), T[a] = T[b] PROVE a = b
  <2>1. ASSUME NEW e \in 1..(1 + n1 + n2)
        PROVE  \/ e = 1 /\ T[e] = CreateOf(d)
               \/ \E i \in 1..n1 : e = 1 + i /\ T[e] = s[i] /\ s[i] \in RowsOf(d)
               \/ \E i \in 1..n2 : e = 1 + n1 + i /\ T[e] = t[i] /\ t[i] \in RulesOf(d)
    <3>1. CASE e = 1 BY <1>6, <3>1
    <3>2. CASE e \in 2..(1 + n1)
      <4>1. e - 1 \in 1..n1 /\ e = 1 + (e - 1) BY <1>2, <3>2
      <4> DEFINE i == e - 1
      <4>2. i \in 1..n1 /\ e = 1 + i BY <4>1
      <4> HIDE DEF i
      <4>3. T[1 + i] = s[i] BY <1>6, <4>2
      <4>4. s[i] \in RowsOf(d) BY <1>2, <4>2
      <4> QED BY <4>2, <4>3, <4>4
    <3>3. CASE e > 1 + n1
      <4>1. e - (1 + n1) \in 1..n2 /\ e = 1 + n1 + (e - (1 + n1)) BY <1>2, <1>3, <3>3
      <4> QED BY <1>3, <1>6, <4>1
    <3> QED BY <1>2, <1>3, <3>1, <3>2, <3>3
  <2> HIDE <1>6
  <2> QED BY <1>2, <1>3, <1>4, <1>9, <2>1
<1>10. Len(T) \in Nat \ {0} BY <1>2, <1>3, <1>6
<1> QED BY <1>1, <1>6, <1>8, <1>9, <1>10 DEF X

(* A statement tells the object and the kind it is of.                      *)
LEMMA StatementNames ==
  ASSUME NEW d, NEW s \in Statements(d)
  PROVE  /\ s[2] = d.name /\ s[1] \in {"create", "row", "rule"}
         /\ s[1] = "create" => s = CreateOf(d)
         /\ s[1] = "row" => s = <<"row", d.name, s[3]>> /\ s[3] \in d.rows
         /\ s[1] = "rule" => s = <<"rule", d.name, s[3]>> /\ s[3] \in d.spec.rules
BY DEF Statements, CreateOf, RowsOf, RulesOf

-----------------------------------------------------------------------------
(* What an import may rely on of a bundle before it is validated.            *)
IsObject(d) ==
  /\ d = [name |-> d.name, spec |-> d.spec, rows |-> d.rows, sealed |-> d.sealed]
  /\ d.name \in Range(Names) /\ d.spec \in Schemas
  /\ IsFiniteSet(d.rows) /\ IsFiniteSet(d.spec.rules)
  /\ \A r \in d.rows : Fits(d.spec, r)

ObjectsOf(b) == {b.objects[i] : i \in DOMAIN b.objects}

(* The shape of a bundle; StrayRows and Edits keep it, checksums and names  *)
(* are not part of it.                                                      *)
IsBundle(b) ==
  /\ b = [sealed |-> b.sealed, log |-> b.log, objects |-> b.objects]
  /\ b.objects \in Seq(ObjectsOf(b)) /\ \A d \in ObjectsOf(b) : IsObject(d)
  /\ b.log \in Seq(Range(b.log))
  /\ \A i \in DOMAIN b.log : b.log[i] = [id |-> b.log[i].id, ops |-> b.log[i].ops, sealed |-> b.log[i].sealed]
                             /\ b.log[i].id \in Nat

(* No name is declared twice.                                               *)
Distinct(b) == \A i, j \in DOMAIN b.objects : b.objects[i].name = b.objects[j].name => i = j

(* Sorted has every object once, and every endpoint before a relationship.  *)
LEMMA SortedParts ==
  ASSUME NEW b, IsBundle(b), Distinct(b)
  PROVE  LET n == Len(b.objects)
         IN /\ n \in Nat /\ DOMAIN b.objects = 1..n /\ Sorted(b) \in [1..n -> ObjectsOf(b)]
            /\ \A d \in ObjectsOf(b) : \E i \in 1..n : Sorted(b)[i] = d
            /\ \A i, j \in 1..n : Sorted(b)[i].name = Sorted(b)[j].name => i = j
            /\ \A i, j \in 1..n : IsEdge(Sorted(b)[i].spec) /\ ~IsEdge(Sorted(b)[j].spec) => j < i
<1> DEFINE n == Len(b.objects)  O == ObjectsOf(b)  E == {d \in O : IsEdge(d.spec)}
           s == Selected(b.objects, O \ E)  t == Selected(b.objects, E)
<1>1. n \in Nat /\ b.objects \in [1..n -> O] /\ DOMAIN b.objects = 1..n BY DEF IsBundle
<1>2. Sorted(b) = s \o t
  <2>1. Range(b.objects) = O BY DEF Range, ObjectsOf
  <2> QED BY <2>1 DEF Sorted
<1>3. \A i, j \in 1..n : b.objects[i] = b.objects[j] => i = j
  BY <1>1 DEF Distinct
<1>4. \A d \in O : \E i \in 1..n : b.objects[i] = d BY <1>1 DEF ObjectsOf
<1> HIDE DEF n, O
<1>5. ASSUME NEW d \in O, NEW e \in O, d.name = e.name PROVE d = e
  <2>1. PICK i \in 1..n : b.objects[i] = d BY <1>4
  <2>2. PICK j \in 1..n : b.objects[j] = e BY <1>4
  <2>3. b.objects[i].name = b.objects[j].name BY <1>5, <2>1, <2>2
  <2>4. i = j BY <1>1, <2>3 DEF Distinct
  <2> QED BY <2>1, <2>2, <2>4
<1>51. ASSUME NEW S
       PROVE  /\ Selected(b.objects, S) \in Seq(O \cap S) /\ Selects(b.objects, n, S, Selected(b.objects, S))
              /\ Len(Selected(b.objects, S)) + Len(Selected(b.objects, O \ S)) = n
  <2> DEFINE u == b.objects
  <2>1. u \in [1..n -> O] BY <1>1
  <2> HIDE DEF u
  <2>2. /\ Selected(u, S) \in Seq(O \cap S) /\ Selects(u, n, S, Selected(u, S))
        /\ Len(Selected(u, S)) + Len(Selected(u, O \ S)) = n
    <3>1. n \in Nat BY <1>1
    <3>2. Selected(u, S) \in Seq(O \cap S) BY <3>1, <2>1, SelectedParts
    <3>3. Selects(u, n, S, Selected(u, S)) BY <3>1, <2>1, SelectedParts
    <3>4. SumTo(Len(Selected(u, S)), Len(Selected(u, O \ S)), n) BY <3>1, <2>1, SelectedParts
    <3> QED BY <3>2, <3>3, <3>4 DEF SumTo
  <2> QED BY <2>2 DEF u
<1>52. OneToOne(b.objects, n) BY <1>3 DEF OneToOne
<1>6. /\ s \in Seq(O \cap (O \ E)) /\ \A i \in 1..n : b.objects[i] \in O \ E => \E p \in 1..Len(s) : s[p] = b.objects[i]
      /\ \A p, q \in 1..Len(s) : s[p] = s[q] => p = q
  BY <1>51, <1>52 DEF Selects, OneToOne
<1>7. /\ t \in Seq(O \cap E) /\ \A i \in 1..n : b.objects[i] \in E => \E p \in 1..Len(t) : t[p] = b.objects[i]
      /\ \A p, q \in 1..Len(t) : t[p] = t[q] => p = q
      /\ Len(t) + Len(s) = n
  BY <1>51, <1>52 DEF Selects, OneToOne
<1> HIDE DEF s, t, E
<1>8. Len(s) \in Nat /\ Len(t) \in Nat BY <1>6, <1>7
<1>9. s \in Seq(O) /\ t \in Seq(O)
  BY <1>6, <1>7 DEF E
<1>10. /\ s \o t \in Seq(O) /\ Len(s \o t) = n
       /\ \A p \in 1..Len(s) : (s \o t)[p] = s[p]
       /\ \A p \in 1..Len(t) : (s \o t)[Len(s) + p] = t[p]
  <2> DEFINE u == s \o t
  <2>1. u \in Seq(O) /\ Joins(s, t, u) BY <1>9, ConcatParts
  <2> HIDE DEF u
  <2>2. u \in Seq(O) /\ Len(u) = n /\ (\A p \in 1..Len(s) : u[p] = s[p]) /\ \A p \in 1..Len(t) : u[Len(s) + p] = t[p]
    BY <1>7, <1>8, <2>1 DEF Joins
  <2> QED BY <2>2 DEF u
<1> DEFINE so == s \o t
<1>11. so \in [1..n -> O]
  <2> HIDE DEF so
  <2>1. so \in Seq(O) /\ Len(so) = n BY <1>10 DEF so
  <2> QED BY <1>1, <2>1
<1>12. ASSUME NEW d \in O PROVE \E i \in 1..n : so[i] = d
  <2>1. PICK i \in 1..n : b.objects[i] = d BY <1>4
  <2>2. CASE d \in E
    <3>1. PICK p \in 1..Len(t) : t[p] = d BY <1>7, <2>1, <2>2
    <3>2. Len(s) + p \in 1..n BY <1>7, <1>8
    <3> QED BY <1>10, <3>1, <3>2
  <2>3. CASE d \notin E
    <3>1. PICK p \in 1..Len(s) : s[p] = d BY <1>6, <2>1, <2>3
    <3>2. p \in 1..n BY <1>7, <1>8
    <3> QED BY <1>10, <3>1, <3>2
  <2> QED BY <2>2, <2>3
<1>13. ASSUME NEW i \in 1..n
       PROVE  \/ i \in 1..Len(s) /\ so[i] = s[i] /\ s[i] \in O \ E
              \/ i - Len(s) \in 1..Len(t) /\ so[i] = t[i - Len(s)] /\ t[i - Len(s)] \in E
  <2>1. CASE i <= Len(s) BY <1>1, <1>6, <1>8, <1>10, <2>1
  <2>2. CASE ~(i <= Len(s))
    <3>1. i - Len(s) \in 1..Len(t) /\ i = Len(s) + (i - Len(s)) BY <1>1, <1>7, <1>8, <2>2
    <3> QED BY <1>7, <1>10, <3>1
  <2> QED BY <2>1, <2>2
<1> HIDE DEF so
<1>14. \A i, j \in 1..n : so[i] = so[j] => i = j
  <2> SUFFICES ASSUME NEW i \in 1..n, NEW j \in 1..n, so[i] = so[j] PROVE i = j OBVIOUS
  <2>1. CASE so[i] \in E
    <3>1. /\ i - Len(s) \in 1..Len(t) /\ j - Len(s) \in 1..Len(t)
          /\ t[i - Len(s)] = t[j - Len(s)]
      BY <1>13, <2>1
    <3>2. i - Len(s) = j - Len(s) BY <1>7, <3>1
    <3> QED BY <1>8, <3>2
  <2>2. CASE so[i] \notin E
    <3>1. i \in 1..Len(s) /\ j \in 1..Len(s) /\ s[i] = s[j]
      BY <1>13, <2>2
    <3> QED BY <1>6, <3>1
  <2> QED BY <2>1, <2>2
<1>15. \A i, j \in 1..n : so[i].name = so[j].name => i = j
  BY <1>5, <1>11, <1>14
<1>16. \A i, j \in 1..n : IsEdge(so[i].spec) /\ ~IsEdge(so[j].spec) => j < i
  <2> SUFFICES ASSUME NEW i \in 1..n, NEW j \in 1..n, IsEdge(so[i].spec), ~IsEdge(so[j].spec)
               PROVE  j < i
    OBVIOUS
  <2>1. so[i] \in E /\ so[j] \notin E BY <1>11 DEF E
  <2>2. i - Len(s) \in 1..Len(t) /\ j \in 1..Len(s) BY <1>13, <2>1
  <2> QED BY <1>8, <2>2
<1> QED BY <1>1, <1>2, <1>11, <1>12, <1>15, <1>16 DEF so, n, O

-----------------------------------------------------------------------------
(* The part of the plan that makes the objects, and its order.               *)
ObjectPart(b) == FlattenSeq([i \in DOMAIN b.objects |-> StatementsFor(Sorted(b)[i])])

Before(A, p, s) == \E q \in 1..(p - 1) : A[q] = s

(* A has every statement of every object once; create comes first of an     *)
(* object, its rules after its rows, and all of an endpoint before any of a *)
(* relationship.                                                            *)
InOrder(b, A) ==
  /\ \A p \in 1..Len(A) : \E d \in ObjectsOf(b) : A[p] \in Statements(d)
  /\ \A d \in ObjectsOf(b) : \A s \in Statements(d) : \E p \in 1..Len(A) : A[p] = s
  /\ OneToOne(A, Len(A))
  /\ \A p \in 1..Len(A) : \A d \in ObjectsOf(b) : A[p] \in Statements(d) =>
       A[p] = CreateOf(d) \/ Before(A, p, CreateOf(d))
  /\ \A p \in 1..Len(A) : \A d, e \in ObjectsOf(b) :
       A[p] \in Statements(d) /\ IsEdge(d.spec) /\ ~IsEdge(e.spec) =>
         \A s \in Statements(e) : Before(A, p, s)

(* The part of the plan that makes the objects is such a sequence.          *)
LEMMA ObjectsInOrder ==
  ASSUME NEW b, IsBundle(b), Distinct(b)
  PROVE  /\ ObjectPart(b) \in Seq(UNION {Statements(d) : d \in ObjectsOf(b)})
         /\ Len(ObjectPart(b)) \in Nat /\ InOrder(b, ObjectPart(b))
<1> DEFINE n == Len(b.objects)  so == Sorted(b)  O == ObjectsOf(b)
           ss == [i \in 1..n |-> StatementsFor(so[i])]
           X == UNION {Statements(d) : d \in O}  A == FlattenSeq(ss)
<1>1. /\ n \in Nat /\ DOMAIN b.objects = 1..n /\ so \in [1..n -> O]
      /\ \A d \in O : \E i \in 1..n : so[i] = d
      /\ \A i, j \in 1..n : so[i].name = so[j].name => i = j
      /\ \A i, j \in 1..n : IsEdge(so[i].spec) /\ ~IsEdge(so[j].spec) => j < i
  BY SortedParts
<1>2. ObjectPart(b) = A BY <1>1 DEF ObjectPart
<1>3. \A d \in O : IsFiniteSet(d.rows) /\ IsFiniteSet(d.spec.rules) BY DEF IsBundle, IsObject
<1> HIDE DEF n, so, O
<1>4. ASSUME NEW i \in 1..n
      PROVE  /\ ss[i] \in Seq(Statements(so[i])) /\ Len(ss[i]) \in Nat \ {0} /\ ss[i][1] = CreateOf(so[i])
             /\ \A s \in Statements(so[i]) : \E a \in 1..Len(ss[i]) : ss[i][a] = s
             /\ \A a, c \in 1..Len(ss[i]) : ss[i][a] = ss[i][c] => a = c
             /\ \A a \in 1..Len(ss[i]) : ss[i][a] \in Statements(so[i])
  <2> DEFINE d == so[i]
  <2>1. d \in O /\ IsFiniteSet(d.rows) /\ IsFiniteSet(d.spec.rules) BY <1>1, <1>3
  <2>2. ss[i] = StatementsFor(d) OBVIOUS
  <2> HIDE DEF d, ss
  <2>3. /\ ss[i] \in Seq(Statements(d)) /\ Len(ss[i]) \in Nat \ {0} /\ ss[i][1] = CreateOf(d)
        /\ \A s \in Statements(d) : \E a \in 1..Len(ss[i]) : ss[i][a] = s
        /\ \A a, c \in 1..Len(ss[i]) : ss[i][a] = ss[i][c] => a = c
    BY <2>1, <2>2, StatementsInOrder
  <2>4. \A a \in 1..Len(ss[i]) : ss[i][a] \in Statements(d) BY <2>3
  <2> QED BY <2>3, <2>4 DEF d
<1>5. ss \in [1..n -> Seq(X)]
  <2>1. ASSUME NEW i \in 1..n PROVE ss[i] \in Seq(X)
    <3>1. Statements(so[i]) \subseteq X BY <1>1
    <3> HIDE DEF ss, X
    <3>2. \A S, T : S \subseteq T => Seq(S) \subseteq Seq(T) OBVIOUS
    <3> QED BY <1>4, <3>1, <3>2
  <2>2. ss = [i \in 1..n |-> ss[i]] OBVIOUS
  <2> HIDE DEF ss
  <2> QED BY <2>1, <2>2
<1> HIDE DEF ss, X
<1>6. A \in Seq(X) /\ \E at : Offsets(ss, n, at) BY <1>1, <1>5, FlattenOffsets
<1>7. PICK at : Offsets(ss, n, at) BY <1>6
<1>8. /\ \A i \in 0..n : \A j \in i..n : at[i] <= at[j]
      /\ \A p \in 1..Len(A) : InBlock(ss, n, at, p)
  BY <1>1, <1>5, <1>7, OffsetsGrow
<1>9. Len(A) \in Nat BY <1>6
<1> HIDE DEF A
<1>10. /\ \A i \in 0..n : at[i] \in Nat
       /\ at[n] = Len(A) /\ \A i \in 1..n : at[i] = at[i - 1] + Len(ss[i])
       /\ \A i \in 1..n : \A a \in 1..Len(ss[i]) : A[at[i - 1] + a] = ss[i][a]
  BY <1>7 DEF Offsets, A
<1>11. ASSUME NEW i \in 1..n, NEW a \in 1..Len(ss[i])
       PROVE  /\ at[i - 1] + a \in 1..Len(A) /\ at[i - 1] + a <= at[i]
              /\ A[at[i - 1] + a] = ss[i][a] /\ ss[i][a] \in Statements(so[i])
  <2>1. i - 1 \in 0..n /\ i \in 0..n /\ n \in i..n BY <1>1
  <2>2. at[i - 1] \in Nat /\ at[i] \in Nat /\ at[i] <= Len(A) /\ at[i] = at[i - 1] + Len(ss[i])
    BY <1>8, <1>10, <2>1
  <2>3. Len(ss[i]) \in Nat BY <1>4
  <2>4. A[at[i - 1] + a] = ss[i][a] BY <1>10
  <2>5. ss[i][a] \in Statements(so[i]) BY <1>4
  <2>6. at[i - 1] + a \in 1..Len(A) /\ at[i - 1] + a <= at[i] BY <1>9, <2>2, <2>3, SMTT(30)
  <2> QED BY <2>4, <2>5, <2>6
<1>12. ASSUME NEW p \in 1..Len(A)
       PROVE  \E i \in 1..n : \E a \in 1..Len(ss[i]) :
                p = at[i - 1] + a /\ A[p] = ss[i][a] /\ A[p] \in Statements(so[i])
  <2>1. PICK i \in 1..n : \E a \in 1..Len(ss[i]) : p = at[i - 1] + a BY <1>8 DEF InBlock
  <2>2. PICK a \in 1..Len(ss[i]) : p = at[i - 1] + a BY <2>1
  <2>3. A[p] = ss[i][a] /\ ss[i][a] \in Statements(so[i]) BY <1>11, <2>2
  <2> QED BY <2>2, <2>3
<1>13. ASSUME NEW i \in 1..n, NEW d \in O, NEW s \in Statements(d), s \in Statements(so[i])
       PROVE  d = so[i]
  <2>1. PICK j \in 1..n : so[j] = d BY <1>1
  <2>2. so[j].name = so[i].name BY <1>13, <2>1, StatementNames
  <2> QED BY <1>1, <2>1, <2>2
<1>14. \A p \in 1..Len(A) : \E d \in O : A[p] \in Statements(d) BY <1>1, <1>12
<1>15. \A d \in O : \A s \in Statements(d) : \E p \in 1..Len(A) : A[p] = s
  <2> TAKE d \in O
  <2> TAKE s \in Statements(d)
  <2>1. PICK i \in 1..n : so[i] = d BY <1>1
  <2>2. PICK a \in 1..Len(ss[i]) : ss[i][a] = s BY <1>4, <2>1
  <2> QED BY <1>11, <2>2
<1>16. OneToOne(A, Len(A))
  <2> SUFFICES ASSUME NEW p \in 1..Len(A), NEW q \in 1..Len(A), A[p] = A[q] PROVE p = q
    BY DEF OneToOne
  <2>1. PICK i \in 1..n : \E a \in 1..Len(ss[i]) :
          p = at[i - 1] + a /\ A[p] = ss[i][a] /\ A[p] \in Statements(so[i])
    BY <1>12
  <2>2. PICK j \in 1..n : \E a \in 1..Len(ss[j]) :
          q = at[j - 1] + a /\ A[q] = ss[j][a] /\ A[q] \in Statements(so[j])
    BY <1>12
  <2>3. so[i] \in O BY <1>1
  <2>4. so[i] = so[j] BY <1>13, <2>1, <2>2, <2>3
  <2>5. i = j BY <1>1, <2>4
  <2> QED BY <1>4, <2>1, <2>2, <2>5, SMTT(60)
<1>17. ASSUME NEW p \in 1..Len(A), NEW d \in O, A[p] \in Statements(d), A[p] # CreateOf(d)
       PROVE  Before(A, p, CreateOf(d))
  <2>1. PICK i \in 1..n : \E a \in 1..Len(ss[i]) :
          p = at[i - 1] + a /\ A[p] = ss[i][a] /\ A[p] \in Statements(so[i])
    BY <1>12
  <2>2. PICK a \in 1..Len(ss[i]) : p = at[i - 1] + a /\ A[p] = ss[i][a] BY <2>1
  <2>3. d = so[i] BY <1>13, <1>17, <2>1
  <2>4. ss[i][1] = CreateOf(d) /\ a # 1 /\ 1 \in 1..Len(ss[i]) BY <1>4, <1>17, <2>2, <2>3
  <2>5. A[at[i - 1] + 1] = CreateOf(d) /\ at[i - 1] + 1 \in 1..Len(A) BY <1>11, <2>4
  <2>6. at[i - 1] \in Nat /\ a \in Nat
    <3>1. i - 1 \in 0..n BY <1>1
    <3> QED BY <1>4, <1>10, <3>1
  <2>7. at[i - 1] + 1 \in 1..(p - 1) BY <2>2, <2>4, <2>6, SMTT(30)
  <2> QED BY <2>5, <2>7 DEF Before
<1>18. ASSUME NEW p \in 1..Len(A), NEW d \in O, NEW e \in O, A[p] \in Statements(d),
              IsEdge(d.spec), ~IsEdge(e.spec), NEW s \in Statements(e)
       PROVE  Before(A, p, s)
  <2>1. PICK i \in 1..n : \E a \in 1..Len(ss[i]) :
          p = at[i - 1] + a /\ A[p] = ss[i][a] /\ A[p] \in Statements(so[i])
    BY <1>12
  <2>2. PICK a \in 1..Len(ss[i]) : p = at[i - 1] + a BY <2>1
  <2>3. d = so[i] BY <1>13, <1>18, <2>1
  <2>4. PICK j \in 1..n : so[j] = e BY <1>1
  <2>5. j < i BY <1>1, <1>18, <2>3, <2>4
  <2>6. PICK c \in 1..Len(ss[j]) : ss[j][c] = s BY <1>4, <2>4
  <2>7. at[j - 1] + c \in 1..Len(A) /\ at[j - 1] + c <= at[j] /\ A[at[j - 1] + c] = s BY <1>11, <2>6
  <2>8. j \in 0..n /\ i - 1 \in j..n /\ i - 1 \in 0..n BY <1>1, <2>5
  <2>9. at[j] <= at[i - 1] /\ at[j] \in Nat /\ at[i - 1] \in Nat BY <1>8, <1>10, <2>8
  <2>10. Len(ss[i]) \in Nat BY <1>4
  <2>11. a \in Nat /\ a >= 1 BY <2>10
  <2> DEFINE x == at[j - 1] + c  y == at[j]  z == at[i - 1]
  <2>12. x \in Nat /\ x >= 1 /\ x <= y /\ y <= z /\ y \in Nat /\ z \in Nat /\ p = z + a
    BY <1>9, <2>2, <2>7, <2>9
  <2> HIDE DEF x, y, z
  <2>13. x \in 1..(p - 1) BY <2>11, <2>12
  <2> QED BY <2>7, <2>13 DEF Before, x
<1>19. InOrder(b, A)
  BY <1>14, <1>15, <1>16, <1>17, <1>18 DEF InOrder, O
<1>20. A \in Seq(X) BY <1>6 DEF A
<1> QED BY <1>2, <1>9, <1>19, <1>20 DEF X, O

-----------------------------------------------------------------------------
(* What an import has made of the objects of a bundle once the statements of *)
(* D are done, and of its revisions once j of them are recorded.             *)
Stored(pg, row) == IF HasNumber(row) THEN [row EXCEPT ![4] = Imported(pg, @)] ELSE row

Made(b, D) == {d \in ObjectsOf(b) : CreateOf(d) \in D}
RulesDone(D, d) == {rule \in d.spec.rules : <<"rule", d.name, rule>> \in D}
RowsDone(D, d) == {r \in d.rows : <<"row", d.name, r>> \in D}

(* A database has its fields, whatever they hold.                           *)
IsRecord(db) ==
  /\ db = [made |-> db.made, specs |-> db.specs, tables |-> db.tables, guards |-> db.guards,
           triggers |-> db.triggers, rows |-> db.rows, log |-> db.log]
  /\ db.specs = [n \in Declared(db) |-> db.specs[n]]
  /\ db.rows = [n \in Range(Names) |-> db.rows[n]]

(* The database has what the statements of D make, and nothing else; no     *)
(* statement is done before the create of its object.                       *)
Holds(pg, b, D, db) ==
  /\ IsRecord(db) /\ db.made = TRUE /\ StructureMatches(db)
  /\ Declared(db) = {d.name : d \in Made(b, D)}
  /\ \A d \in Made(b, D) :
       /\ db.specs[d.name] = [d.spec EXCEPT !.rules = RulesDone(D, d)]
       /\ db.rows[d.name] = {Stored(pg, r) : r \in RowsDone(D, d)}
  /\ \A n \in Range(Names) \ Declared(db) : db.rows[n] = {}
  /\ \A d \in ObjectsOf(b) : \A s \in Statements(d) \cap D : CreateOf(d) \in D

(* The first j revisions of the bundle are in the log.                      *)
Recorded(b, j, db) ==
  /\ j \in 0..Len(b.log) /\ Len(db.log) = j /\ db.log \in Seq(Range(b.log))
  /\ \A i \in 1..j : db.log[i] = b.log[i]

(* What the engine and the import keep true of the data: no dangling edge,  *)
(* and no number that the handle would refuse.                              *)
Keeps(pg, db) ==
  EndsDeclared(db) /\ ForeignKeyCheck(db) /\ \A n \in Declared(db) : NumbersPortable(pg, db.rows[n])

(* Where the import stands after k statements of the plan.                   *)
Done(b, k) == {ObjectPart(b)[q] : q \in {p \in 1..Len(ObjectPart(b)) : p <= k}}

(* After k statements, so many revisions are recorded.                      *)
Entered(b, k) ==
  LET n == Len(ObjectPart(b))
  IN IF k <= n THEN 0 ELSE IF k - n <= Len(b.log) THEN k - n ELSE Len(b.log)

(* The import after k statements of the plan: it has made of the bundle     *)
(* what they make, and the last of them is the check.                       *)
Progress(pg, b, k, db) ==
  /\ k \in 0..Len(Plan(b))
  /\ Holds(pg, b, Done(b, k), db) /\ Recorded(b, Entered(b, k), db) /\ Keeps(pg, db)
  /\ k = Len(Plan(b)) => Check(db, pg)

(* The statements that are left are those of the plan from k on.            *)
Left(b, k, rest) ==
  /\ rest \in Seq(Range(Plan(b))) /\ Len(rest) = Len(Plan(b)) - k
  /\ \A i \in 1..Len(rest) : rest[i] = Plan(b)[k + i]

(* Where the source and the bundle come from: an unedited bundle is what    *)
(* the export of a checked source is.                                       *)
FromSource ==
  /\ toPg \in BOOLEAN /\ fromPg \in BOOLEAN /\ source \in Sources
  /\ fromPg => ForeignKeyCheck(source) /\ source.guards = {} /\ ~source.triggers
               /\ \A n \in Declared(source) : source.specs[n].rules = {}
  /\ pc = "source" => ~edited
  /\ pc # "source" =>
       /\ Check(source, fromPg) /\ \A n \in Declared(source) : NumbersPortable(fromPg, source.rows[n])
       /\ IsBundle(bundle) /\ (~edited => bundle = Export(source, fromPg))

(* While an import runs, the destination was empty, the bundle is valid,    *)
(* and the scope sees what the statements that have run make of it.         *)
InProgress ==
  pc = "importing" =>
    ~dest.made /\ Valid(bundle) /\ \E k \in Nat : Progress(toPg, bundle, k, mine) /\ Left(bundle, k, todo)

(* An import that committed has run the whole plan.                         *)
Finished ==
  pc = "done" => Valid(bundle) /\ Progress(toPg, bundle, Len(Plan(bundle)), dest)

(* The inductive invariant. ImportedIsSound and RoundTrip follow from       *)
(* Finished; ExportedIsImportable is a part of it, since no other state     *)
(* tells why an import was refused.                                         *)
TransferInv == FromSource /\ InProgress /\ Finished /\ ExportedIsImportable

-----------------------------------------------------------------------------
(* Each kind of statement of the import, and what it does to Holds and Keeps. *)
LEMMA NumberStored ==
  ASSUME NEW pg \in BOOLEAN, NEW lit \in Literals, Portable(Decoded(FALSE, lit))
  PROVE  Decoded(pg, Imported(pg, lit)) = Decoded(FALSE, lit)
<1>1. Decoded(FALSE, lit) \in Numbers
  BY DEF Decoded, Number, Literals, Numbers
<1> QED BY <1>1, NumbersSurvive DEF Imported

(* What an export writes is read back as what it read.                      *)
LEMMA NumberExported ==
  ASSUME NEW pg \in BOOLEAN, NEW lit \in Literals, Portable(Decoded(pg, lit))
  PROVE  Exported(pg, lit) \in Literals /\ Decoded(FALSE, Exported(pg, lit)) = Decoded(pg, lit)
<1>1. Decoded(pg, lit) \in Numbers
  BY DEF Decoded, PortableInteger, Number, Refused, Literals, Numbers, Portable
<1>2. Kept(FALSE, Encoded(Decoded(pg, lit))) = Encoded(Decoded(pg, lit))
  BY DEF Kept
<1>3. Decoded(FALSE, Encoded(Decoded(pg, lit))) = Decoded(pg, lit)
  BY <1>1, <1>2, NumbersSurvive
<1> QED BY <1>1, <1>3, EncodedType DEF Exported

(* An edge is stored as it comes.                                           *)
LEMMA EdgeRow ==
  ASSUME NEW spec, NEW row, IsEdge(spec), Fits(spec, row), NEW pg
  PROVE  ~HasNumber(row) /\ Stored(pg, row) = row /\ row = <<row[1], row[2]>>
<1>1. row = <<row[1], row[2]>> BY DEF Fits
<1>2. Len(row) = 2 BY <1>1
<1> QED BY <1>1, <1>2 DEF HasNumber, Stored

LEMMA ReplacedNumber ==
  ASSUME NEW row, row = <<row[1], row[2], row[3], row[4]>>, NEW lit
  PROVE  [row EXCEPT ![4] = lit] = <<row[1], row[2], row[3], lit>>
OBVIOUS

(* A record is stored with the number put into the form of the backend.     *)
LEMMA RecordRow ==
  ASSUME NEW spec, NEW row, ~IsEdge(spec), Fits(spec, row), NEW pg
  PROVE  /\ HasNumber(row) /\ row[4] \in Literals /\ row[2] \in Nat
         /\ row = <<row[1], row[2], row[3], row[4]>>
         /\ Stored(pg, row) = <<row[1], row[2], row[3], Imported(pg, row[4])>>
<1>1. row = <<row[1], row[2], row[3], row[4]>> /\ row[4] \in Literals /\ row[2] \in Nat BY DEF Fits
<1>2. Len(row) = 4 BY <1>1
<1> QED BY <1>1, <1>2, ReplacedNumber DEF HasNumber, Stored

LEMMA StoredKeepsID ==
  ASSUME NEW spec, NEW row, Fits(spec, row), NEW pg
  PROVE  Stored(pg, row)[1] = row[1] /\ Stored(pg, row)[2] = row[2]
BY EdgeRow, RecordRow

LEMMA CreateOfNames ==
  ASSUME NEW b, Distinct(b), NEW d \in ObjectsOf(b), NEW e \in ObjectsOf(b), d.name = e.name
  PROVE  d = e
BY DEF Distinct, ObjectsOf

(* A database by its fields: the provers replace one field at a time.       *)
DbOf(made, specs, tables, guards, triggers, rows, log) ==
  [made |-> made, specs |-> specs, tables |-> tables, guards |-> guards,
   triggers |-> triggers, rows |-> rows, log |-> log]

LEMMA WithFields ==
  ASSUME NEW db, IsRecord(db), NEW x, NEW y
  PROVE  /\ [db EXCEPT !.specs = x, !.tables = y] =
               DbOf(db.made, x, y, db.guards, db.triggers, db.rows, db.log)
         /\ [db EXCEPT !.specs = x, !.guards = y] =
               DbOf(db.made, x, db.tables, y, db.triggers, db.rows, db.log)
         /\ [db EXCEPT !.rows = x] =
               DbOf(db.made, db.specs, db.tables, db.guards, db.triggers, x, db.log)
         /\ [db EXCEPT !.log = x] =
               DbOf(db.made, db.specs, db.tables, db.guards, db.triggers, db.rows, x)
<1> DEFINE m == db.made  s == db.specs  t == db.tables  g == db.guards
           r == db.triggers  w == db.rows  l == db.log  d == [db EXCEPT !.specs = x]
<1>1. db = DbOf(m, s, t, g, r, w, l) BY DEF IsRecord, DbOf
<1> HIDE DEF m, s, t, g, r, w, l
<1> HIDE DEF d
<1>2. d = DbOf(m, x, t, g, r, w, l) BY <1>1 DEF DbOf, d
<1>3. [d EXCEPT !.tables = y] = DbOf(m, x, y, g, r, w, l) BY <1>2 DEF DbOf
<1>4. [d EXCEPT !.guards = y] = DbOf(m, x, t, y, r, w, l) BY <1>2 DEF DbOf
<1>5. [db EXCEPT !.rows = x] = DbOf(m, s, t, g, r, x, l) BY <1>1 DEF DbOf, d
<1>6. [db EXCEPT !.log = x] = DbOf(m, s, t, g, r, w, x) BY <1>1 DEF DbOf, d
<1> QED BY <1>3, <1>4, <1>5, <1>6, Zenon DEF m, s, t, g, r, w, l, d

LEMMA WithRows ==
  ASSUME NEW db, db = DbOf(db.made, db.specs, db.tables, db.guards, db.triggers, db.rows, db.log), NEW x, NEW y
  PROVE  [db EXCEPT !.made = y, !.rows = x] =
           DbOf(y, db.specs, db.tables, db.guards, db.triggers, x, db.log)
<1> DEFINE m == db.made  s == db.specs  t == db.tables  g == db.guards
           r == db.triggers  w == db.rows  l == db.log  d == [db EXCEPT !.made = y]
<1>1. db = DbOf(m, s, t, g, r, w, l) OBVIOUS
<1> HIDE DEF m, s, t, g, r, w, l, d
<1>2. d = DbOf(y, s, t, g, r, w, l) BY <1>1 DEF DbOf, d
<1>3. [d EXCEPT !.rows = x] = DbOf(y, s, t, g, r, x, l) BY <1>2 DEF DbOf
<1> QED BY <1>3, Zenon DEF m, s, t, g, r, w, l, d

LEMMA DbRecord ==
  ASSUME NEW m, NEW s, NEW t, NEW g, NEW r, NEW w, NEW l
  PROVE  LET db == DbOf(m, s, t, g, r, w, l)
         IN /\ db.made = m /\ db.specs = s /\ db.tables = t /\ db.guards = g
            /\ db.triggers = r /\ db.rows = w /\ db.log = l
BY DEF DbOf

(* The database after CreateOn, field by field.                             *)
LEMMA CreatedOn ==
  ASSUME NEW db, IsRecord(db), NEW n, NEW spec
  PROVE  CreateOn(db, n, spec) =
           DbOf(db.made, [m \in Declared(db) \cup {n} |-> IF m = n THEN spec ELSE db.specs[m]],
                db.tables \cup {n}, db.guards, db.triggers, db.rows, db.log)
<1> DEFINE s == [m \in Declared(db) \cup {n} |-> IF m = n THEN spec ELSE db.specs[m]]
           t == db.tables \cup {n}
<1>1. CreateOn(db, n, spec) = [db EXCEPT !.specs = s, !.tables = t]
  BY DEF CreateOn
<1> HIDE DEF s, t
<1>2. [db EXCEPT !.specs = s, !.tables = t] =
        DbOf(db.made, s, t, db.guards, db.triggers, db.rows, db.log)
  BY WithFields, ZenonT(30)
<1> QED BY <1>1, <1>2, Zenon DEF s, t

(* A create statement of the import.                                        *)
LEMMA CreateStep ==
  ASSUME NEW pg, NEW b, IsBundle(b), Distinct(b), NEW D, NEW db, Holds(pg, b, D, db),
         NEW d \in ObjectsOf(b), CreateOf(d) \notin D
  PROVE  LET after == CreateOn(db, d.name, Bare(d.spec))
         IN /\ d.name \notin Declared(db) /\ d.name \in Range(Names)
            /\ Holds(pg, b, D \cup {CreateOf(d)}, after)
            /\ after.log = db.log
            /\ Keeps(pg, db) /\ CreateAccepts(db, d.name, Bare(d.spec)) => Keeps(pg, after)
<1> DEFINE n == d.name  after == CreateOn(db, n, Bare(d.spec))  E == D \cup {CreateOf(d)}
<1>1. n \in Range(Names) /\ d.spec \in Schemas /\ IsObject(d) BY DEF IsBundle, IsObject
<1>2. IsRecord(db) /\ Declared(db) = {e.name : e \in Made(b, D)} /\ StructureMatches(db) /\ db.made = TRUE
  BY DEF Holds
<1>3. n \notin Declared(db)
  BY <1>2, CreateOfNames DEF Made
<1>4. \A e \in ObjectsOf(b) : \A s \in Statements(e) : s \in E <=> s \in D \/ s = CreateOf(d)
  OBVIOUS
<1>5. Made(b, E) = Made(b, D) \cup {d}
  <2>1. \A e \in ObjectsOf(b) : CreateOf(e) = CreateOf(d) => e = d
    BY CreateOfNames DEF CreateOf
  <2> QED BY <2>1 DEF Made
<1>6. \A e \in ObjectsOf(b) : RulesDone(E, e) = RulesDone(D, e) /\ RowsDone(E, e) = RowsDone(D, e)
  BY DEF RulesDone, RowsDone, CreateOf
<1>7. RulesDone(D, d) = {} /\ RowsDone(D, d) = {}
  BY DEF Holds, RulesDone, RowsDone, Statements, RowsOf, RulesOf
<1>8. /\ after.made = db.made /\ after.triggers = db.triggers /\ after.rows = db.rows
      /\ after.log = db.log /\ after.guards = db.guards /\ after.tables = db.tables \cup {n}
      /\ after.specs = [m \in Declared(db) \cup {n} |-> IF m = n THEN Bare(d.spec) ELSE db.specs[m]]
      /\ after = DbOf(after.made, after.specs, after.tables, after.guards, after.triggers, after.rows, after.log)
  <2> DEFINE s == [m \in Declared(db) \cup {n} |-> IF m = n THEN Bare(d.spec) ELSE db.specs[m]]
             t == db.tables \cup {n}
  <2>1. after = DbOf(db.made, s, t, db.guards, db.triggers, db.rows, db.log) BY <1>2, CreatedOn
  <2> HIDE DEF s, t, after
  <2>2. /\ after.made = db.made /\ after.triggers = db.triggers /\ after.rows = db.rows
        /\ after.log = db.log /\ after.guards = db.guards /\ after.tables = t /\ after.specs = s
    BY <2>1, DbRecord
  <2> QED BY <2>1, <2>2 DEF s, t
<1> HIDE DEF after, n, E
<1>9. Declared(after) = Declared(db) \cup {n} BY <1>8 DEF Declared
<1>10. /\ \A m \in Declared(db) : after.specs[m] = db.specs[m] /\ m # n
       /\ after.specs[n] = Bare(d.spec)
  BY <1>3, <1>8
<1>11. Bare(d.spec).rules = {} /\ Bare(d.spec) = [d.spec EXCEPT !.rules = RulesDone(E, d)]
  BY <1>1, <1>6, <1>7 DEF Bare, Schemas
<1>12. IsRecord(after)
  BY <1>2, <1>8, <1>9 DEF IsRecord, DbOf
<1>13. StructureMatches(after)
  <2>1. db.guards = {g \in Declared(db) \X Rules : g[2] \in db.specs[g[1]].rules} /\ ~db.triggers /\ db.tables = Declared(db)
    BY <1>2 DEF StructureMatches
  <2>2. db.guards = {g \in Declared(after) \X Rules : g[2] \in after.specs[g[1]].rules}
    <3>1. ASSUME NEW g \in Declared(after) \X Rules PROVE g \in db.guards <=> g[2] \in after.specs[g[1]].rules
      BY <1>3, <1>9, <1>10, <1>11, <2>1
    <3> QED BY <1>9, <2>1, <3>1
  <2> QED BY <1>8, <1>9, <2>1, <2>2 DEF StructureMatches
<1>14. Declared(after) = {e.name : e \in Made(b, E)}
  BY <1>2, <1>5, <1>9 DEF n
<1>15. ASSUME NEW e \in Made(b, E)
       PROVE  /\ after.specs[e.name] = [e.spec EXCEPT !.rules = RulesDone(E, e)]
              /\ after.rows[e.name] = {Stored(pg, r) : r \in RowsDone(E, e)}
  <2>1. CASE e = d
    <3>1. db.rows[n] = {} BY <1>1, <1>3 DEF Holds, n
    <3> QED BY <1>6, <1>7, <1>8, <1>10, <1>11, <2>1, <3>1 DEF n
  <2>2. CASE e \in Made(b, D)
    <3>1. e.name \in Declared(db) /\ e \in ObjectsOf(b) BY <1>2, <2>2 DEF Made
    <3>2. /\ db.specs[e.name] = [e.spec EXCEPT !.rules = RulesDone(D, e)]
          /\ db.rows[e.name] = {Stored(pg, r) : r \in RowsDone(D, e)}
      BY <2>2 DEF Holds
    <3> QED BY <1>6, <1>8, <1>10, <3>1, <3>2
  <2> QED BY <1>5, <2>1, <2>2
<1>16. \A m \in Range(Names) \ Declared(after) : after.rows[m] = {}
  BY <1>8, <1>9 DEF Holds
<1>17. \A e \in ObjectsOf(b) : \A s \in Statements(e) \cap E : CreateOf(e) \in E
  <2> SUFFICES ASSUME NEW e \in ObjectsOf(b), NEW s \in Statements(e), s \in E PROVE CreateOf(e) \in E
    OBVIOUS
  <2>1. CASE s \in D BY <2>1 DEF Holds, E
  <2>2. CASE s = CreateOf(d)
    <3>1. s[2] = e.name /\ s[2] = d.name BY <2>2, StatementNames DEF CreateOf
    <3>2. e = d BY <3>1, CreateOfNames
    <3> QED BY <3>2 DEF E
  <2> QED BY <2>1, <2>2 DEF E
<1>18. Holds(pg, b, E, after)
  BY <1>2, <1>8, <1>12, <1>13, <1>14, <1>15, <1>16, <1>17 DEF Holds
<1>19. ASSUME Keeps(pg, db), CreateAccepts(db, n, Bare(d.spec)) PROVE Keeps(pg, after)
  <2>1. after.rows[n] = {} BY <1>1, <1>3, <1>8 DEF Holds, n
  <2>2. ForeignKeyCheck(after)
    <3>1. ForeignKeyCheck(db) BY <1>19 DEF Keeps
    <3>2. ASSUME NEW m \in Declared(after), IsEdge(after.specs[m]), NEW row \in after.rows[m]
          PROVE EndpointsThere(after, m, row)
      <4>1. m \in Declared(db) /\ after.specs[m] = db.specs[m] BY <1>9, <1>10, <2>1, <3>2
      <4> QED BY <1>8, <3>1, <3>2, <4>1 DEF ForeignKeyCheck, EndpointsThere
    <3> QED BY <3>2 DEF ForeignKeyCheck
  <2>3. ASSUME NEW m \in Declared(after) PROVE NumbersPortable(pg, after.rows[m])
    <3>1. CASE m = n BY <2>1, <3>1 DEF NumbersPortable
    <3>2. CASE m \in Declared(db) BY <1>8, <1>19, <3>2 DEF Keeps
    <3> QED BY <1>9, <3>1, <3>2
  <2>4. ASSUME NEW m \in Declared(after), IsEdge(after.specs[m]),
               NEW end \in {after.specs[m].source, after.specs[m].target}
        PROVE  end \in Declared(after) /\ ~IsEdge(after.specs[end])
    <3>1. end \in Declared(db) /\ ~IsEdge(db.specs[end])
      <4>1. CASE m = n BY <1>3, <1>9, <1>10, <1>19, <2>4, <4>1 DEF CreateAccepts
      <4>2. CASE m # n
        <5>1. m \in Declared(db) /\ after.specs[m] = db.specs[m] BY <1>9, <1>10, <4>2
        <5> QED BY <1>19, <2>4, <5>1 DEF Keeps, EndsDeclared
      <4> QED BY <4>1, <4>2
    <3>2. end \in Declared(after) /\ end # n BY <1>3, <1>9, <3>1
    <3> QED BY <1>10, <3>1, <3>2
  <2> QED BY <2>2, <2>3, <2>4 DEF Keeps, EndsDeclared
<1>20. Keeps(pg, db) /\ CreateAccepts(db, n, Bare(d.spec)) => Keeps(pg, after) BY <1>19
<1> QED BY <1>1, <1>3, <1>8, <1>18, <1>20 DEF n, after, E

(* A row statement of the import.                                           *)
LEMMA RowStep ==
  ASSUME NEW pg \in BOOLEAN, NEW b, IsBundle(b), Distinct(b), NEW D, NEW db, Holds(pg, b, D, db),
         NEW d \in ObjectsOf(b), CreateOf(d) \in D, NEW row \in d.rows, <<"row", d.name, row>> \notin D
  PROVE  LET after == [db EXCEPT !.rows[d.name] = @ \cup {Stored(pg, row)}]
         IN /\ Holds(pg, b, D \cup {<<"row", d.name, row>>}, after)
            /\ after.log = db.log
            /\ Keeps(pg, db) /\ RowAccepts(db, d.name, row) => Keeps(pg, after)
<1> DEFINE n == d.name  after == [db EXCEPT !.rows[n] = @ \cup {Stored(pg, row)}]
           s == <<"row", n, row>>  E == D \cup {s}
           rows == [db.rows EXCEPT ![n] = @ \cup {Stored(pg, row)}]
<1>1. n \in Range(Names) /\ d.spec \in Schemas /\ Fits(d.spec, row) BY DEF IsBundle, IsObject
<1>2. IsRecord(db) /\ Declared(db) = {e.name : e \in Made(b, D)} /\ StructureMatches(db) /\ db.made = TRUE
  BY DEF Holds
<1>3. n \in Declared(db) /\ d \in Made(b, D) BY <1>2 DEF Made
<1>4. s \in Statements(d) BY DEF Statements, RowsOf
<1>5. Made(b, E) = Made(b, D)
  BY DEF Made, CreateOf
<1>6. \A e \in ObjectsOf(b) : RulesDone(E, e) = RulesDone(D, e)
  BY DEF RulesDone
<1>7. RowsDone(E, d) = RowsDone(D, d) \cup {row} /\ \A e \in ObjectsOf(b) : e.name # n => RowsDone(E, e) = RowsDone(D, e)
  BY DEF RowsDone
<1>8. /\ after.made = db.made /\ after.triggers = db.triggers /\ after.rows = rows
      /\ after.log = db.log /\ after.guards = db.guards /\ after.tables = db.tables
      /\ after.specs = db.specs
      /\ after = DbOf(after.made, after.specs, after.tables, after.guards, after.triggers, after.rows, after.log)
  <2>1. after = [db EXCEPT !.rows = rows] OBVIOUS
  <2> HIDE DEF rows, after
  <2>2. after = DbOf(db.made, db.specs, db.tables, db.guards, db.triggers, rows, db.log)
    BY <1>2, <2>1, WithFields
  <2> QED BY <2>2, DbRecord
<1> HIDE DEF after, E, s
<1>9. Declared(after) = Declared(db) BY <1>8 DEF Declared
<1>10. /\ rows = [m \in Range(Names) |-> rows[m]] /\ rows[n] = db.rows[n] \cup {Stored(pg, row)}
       /\ \A m \in Range(Names) : m # n => rows[m] = db.rows[m]
  BY <1>1, <1>2 DEF IsRecord
<1> HIDE DEF rows
<1>11. IsRecord(after)
  BY <1>2, <1>8, <1>9, <1>10 DEF IsRecord, DbOf
<1>12. StructureMatches(after)
  BY <1>2, <1>8, <1>9 DEF StructureMatches
<1>13. \A e \in ObjectsOf(b) : e.name = n => e = d BY CreateOfNames
<1>14. ASSUME NEW e \in Made(b, E)
       PROVE  /\ after.specs[e.name] = [e.spec EXCEPT !.rules = RulesDone(E, e)]
              /\ after.rows[e.name] = {Stored(pg, r) : r \in RowsDone(E, e)}
  <2>1. /\ e \in Made(b, D) /\ e \in ObjectsOf(b) /\ e.name \in Range(Names)
        /\ db.specs[e.name] = [e.spec EXCEPT !.rules = RulesDone(D, e)]
        /\ db.rows[e.name] = {Stored(pg, r) : r \in RowsDone(D, e)}
    BY <1>5 DEF Holds, Made, IsBundle, IsObject
  <2>2. CASE e = d
    <3>1. after.rows[n] = {Stored(pg, r) : r \in RowsDone(D, d)} \cup {Stored(pg, row)}
      BY <1>8, <1>10, <2>1, <2>2 DEF n
    <3>2. after.rows[n] = {Stored(pg, r) : r \in RowsDone(E, d)} BY <1>7, <3>1
    <3> QED BY <1>6, <1>8, <2>1, <2>2, <3>2 DEF n
  <2>3. CASE e # d BY <1>6, <1>7, <1>8, <1>10, <1>13, <2>1, <2>3
  <2> QED BY <2>2, <2>3
<1>15. \A m \in Range(Names) \ Declared(after) : after.rows[m] = {}
  BY <1>3, <1>8, <1>9, <1>10 DEF Holds
<1>16. \A e \in ObjectsOf(b) : \A x \in Statements(e) \cap E : CreateOf(e) \in E
  <2> SUFFICES ASSUME NEW e \in ObjectsOf(b), NEW x \in Statements(e), x \in E PROVE CreateOf(e) \in E
    OBVIOUS
  <2>1. CASE x \in D BY <2>1 DEF Holds, E
  <2>2. CASE x = s
    <3>1. e.name = n BY <1>4, <2>2, StatementNames DEF n
    <3> QED BY <1>13, <3>1 DEF E
  <2> QED BY <2>1, <2>2 DEF E
<1>17. Holds(pg, b, E, after)
  BY <1>2, <1>5, <1>8, <1>9, <1>11, <1>12, <1>14, <1>15, <1>16 DEF Holds
<1>18. ASSUME Keeps(pg, db), RowAccepts(db, n, row) PROVE Keeps(pg, after)
  <2>1. db.specs[n].op = d.spec.op
    BY <1>1, <1>3 DEF Holds, Schemas, n
  <2>2. Stored(pg, row)[1] = row[1] /\ Stored(pg, row)[2] = row[2] BY <1>1, StoredKeepsID
  <2>3. \A m \in Range(Names) : IdsOf(db.rows[m]) \subseteq IdsOf(after.rows[m]) BY <1>8, <1>10 DEF IdsOf
  <2>4. EndsDeclared(after) BY <1>8, <1>9, <1>18 DEF Keeps, EndsDeclared
  <2>5. Declared(db) \subseteq Range(Names) BY <1>2 DEF Made, IsBundle, IsObject
  <2>6. ForeignKeyCheck(after)
    <3>1. ASSUME NEW m \in Declared(after), IsEdge(after.specs[m]), NEW r \in after.rows[m]
          PROVE  EndpointsThere(after, m, r)
      <4>1. m \in Declared(db) /\ after.specs[m] = db.specs[m] /\ m \in Range(Names) BY <1>8, <1>9, <2>5
      <4>2. {db.specs[m].source, db.specs[m].target} \subseteq Range(Names)
        <5>1. \A end \in {db.specs[m].source, db.specs[m].target} : end \in Declared(db)
          BY <1>18, <3>1, <4>1 DEF Keeps, EndsDeclared
        <5> QED BY <2>5, <5>1
      <4>3. EndpointsThere(db, m, r)
        <5>1. CASE r \in db.rows[m] BY <1>18, <3>1, <4>1, <5>1 DEF Keeps, ForeignKeyCheck
        <5>2. CASE m = n /\ r = Stored(pg, row)
          <6>1. r[1] = row[1] /\ r[2] = row[2] BY <2>2, <5>2
          <6> QED BY <1>18, <3>1, <4>1, <5>2, <6>1 DEF RowAccepts, EndpointsThere
        <5> QED BY <1>8, <1>10, <3>1, <4>1, <5>1, <5>2
      <4> QED BY <2>3, <4>1, <4>2, <4>3 DEF EndpointsThere
    <3> QED BY <3>1 DEF ForeignKeyCheck
  <2>7. ASSUME NEW m \in Declared(after) PROVE NumbersPortable(pg, after.rows[m])
    <3>1. m \in Declared(db) /\ m \in Range(Names) /\ NumbersPortable(pg, db.rows[m]) BY <1>9, <1>18, <2>5 DEF Keeps
    <3>2. HasNumber(Stored(pg, row)) => Portable(Decoded(pg, Stored(pg, row)[4]))
      <4>1. CASE IsEdge(d.spec) BY <1>1, <4>1, EdgeRow
      <4>2. CASE ~IsEdge(d.spec)
        <5>1. row[4] \in Literals /\ Stored(pg, row) = <<row[1], row[2], row[3], Imported(pg, row[4])>>
          BY <1>1, <4>2, RecordRow
        <5>2. Portable(Decoded(FALSE, row[4])) BY <1>18, <2>1, <4>2 DEF RowAccepts, IsEdge
        <5>3. Decoded(pg, Imported(pg, row[4])) = Decoded(FALSE, row[4]) BY <5>1, <5>2, NumberStored
        <5>4. Stored(pg, row)[4] = Imported(pg, row[4]) BY <5>1
        <5> QED BY <5>2, <5>3, <5>4
      <4> QED BY <4>1, <4>2
    <3> QED BY <1>8, <1>10, <3>1, <3>2 DEF NumbersPortable
  <2> QED BY <2>4, <2>6, <2>7 DEF Keeps
<1>19. Keeps(pg, db) /\ RowAccepts(db, n, row) => Keeps(pg, after) BY <1>18
<1> QED BY <1>8, <1>17, <1>19 DEF n, after, E, s

(* A rule statement of the import.                                          *)
RuleOn(db, n, rule) ==
  [db EXCEPT !.specs[n].rules = @ \cup {rule}, !.guards = @ \cup {<<n, rule>>}]

(* The rule is declared, the guard is there, and the rows obey the rule.    *)
LEMMA RuleStep ==
  ASSUME NEW pg \in BOOLEAN, NEW b, IsBundle(b), Distinct(b), NEW D, NEW db, Holds(pg, b, D, db),
         NEW d \in ObjectsOf(b), CreateOf(d) \in D, NEW rule \in d.spec.rules
  PROVE  LET after == RuleOn(db, d.name, rule)
         IN /\ Holds(pg, b, D \cup {<<"rule", d.name, rule>>}, after)
            /\ after.log = db.log
            /\ Keeps(pg, db) => Keeps(pg, after)
<1> DEFINE n == d.name
           after == RuleOn(db, n, rule)
           s == <<"rule", n, rule>>  E == D \cup {s}
           specs == [db.specs EXCEPT ![n].rules = @ \cup {rule}]
           guards == db.guards \cup {<<n, rule>>}
<1>1. n \in Range(Names) /\ d.spec \in Schemas /\ rule \in Rules BY DEF IsBundle, IsObject, Schemas
<1>2. IsRecord(db) /\ Declared(db) = {e.name : e \in Made(b, D)} /\ StructureMatches(db) /\ db.made = TRUE
  BY DEF Holds
<1>3. n \in Declared(db) /\ d \in Made(b, D) BY <1>2 DEF Made
<1>4. s \in Statements(d) BY DEF Statements, RulesOf
<1>5. Made(b, E) = Made(b, D)
  BY DEF Made, CreateOf
<1>6. \A e \in ObjectsOf(b) : RowsDone(E, e) = RowsDone(D, e)
  BY DEF RowsDone
<1>7. /\ RulesDone(E, d) = RulesDone(D, d) \cup {rule}
      /\ \A e \in ObjectsOf(b) : e.name # n => RulesDone(E, e) = RulesDone(D, e)
  BY DEF RulesDone
<1>8. /\ after.made = db.made /\ after.triggers = db.triggers /\ after.rows = db.rows
      /\ after.log = db.log /\ after.guards = guards /\ after.tables = db.tables
      /\ after.specs = specs
      /\ after = DbOf(after.made, after.specs, after.tables, after.guards, after.triggers, after.rows, after.log)
  <2>0. after = [db EXCEPT !.specs = specs, !.guards = guards] BY DEF RuleOn
  <2> HIDE DEF specs, guards, after
  <2>2. after = DbOf(db.made, specs, db.tables, guards, db.triggers, db.rows, db.log)
    BY <1>2, <2>0, WithFields, ZenonT(60)
  <2> QED BY <2>2, DbRecord
<1> HIDE DEF after, E, s
<1>10. /\ DOMAIN specs = Declared(db) /\ specs = [m \in Declared(db) |-> specs[m]]
       /\ specs[n] = [db.specs[n] EXCEPT !.rules = @ \cup {rule}]
       /\ \A m \in Declared(db) : m # n => specs[m] = db.specs[m]
  BY <1>2, <1>3 DEF IsRecord, Declared
<1> HIDE DEF specs
<1>9. Declared(after) = Declared(db) BY <1>8, <1>10 DEF Declared
<1>11. db.specs[n] = [d.spec EXCEPT !.rules = RulesDone(D, d)] BY <1>3 DEF Holds
<1>12. specs[n] = [d.spec EXCEPT !.rules = RulesDone(E, d)] /\ specs[n].rules = db.specs[n].rules \cup {rule}
       /\ specs[n].op = db.specs[n].op /\ specs[n].source = db.specs[n].source /\ specs[n].target = db.specs[n].target
  <2>1. db.specs[n] = [op |-> d.spec.op, source |-> d.spec.source, target |-> d.spec.target, rules |-> RulesDone(D, d)]
    BY <1>1, <1>11 DEF Schemas
  <2>2. specs[n] = [op |-> d.spec.op, source |-> d.spec.source, target |-> d.spec.target,
                    rules |-> RulesDone(D, d) \cup {rule}]
    BY <1>10, <2>1, SMTT(30)
  <2>3. [d.spec EXCEPT !.rules = RulesDone(E, d)] =
          [op |-> d.spec.op, source |-> d.spec.source, target |-> d.spec.target, rules |-> RulesDone(E, d)]
    BY <1>1 DEF Schemas
  <2> QED BY <1>7, <2>1, <2>2, <2>3
<1>13. IsRecord(after)
  BY <1>2, <1>8, <1>9, <1>10 DEF IsRecord, DbOf
<1>14. StructureMatches(after)
  <2>1. db.guards = {g \in Declared(db) \X Rules : g[2] \in db.specs[g[1]].rules} /\ ~db.triggers /\ db.tables = Declared(db)
    BY <1>2 DEF StructureMatches
  <2>2. guards = {g \in Declared(db) \X Rules : g[2] \in specs[g[1]].rules}
    <3> DEFINE H == {g \in Declared(db) \X Rules : g[2] \in specs[g[1]].rules}
    <3>1. ASSUME NEW g \in Declared(db) \X Rules
          PROVE  g[2] \in specs[g[1]].rules <=> g[2] \in db.specs[g[1]].rules \/ g = <<n, rule>>
      BY <1>10, <1>12
    <3>2. <<n, rule>> \in Declared(db) \X Rules BY <1>1, <1>3
    <3>3. guards \subseteq H BY <2>1, <3>1, <3>2
    <3>4. H \subseteq guards BY <2>1, <3>1
    <3> QED BY <3>3, <3>4
  <2> HIDE DEF guards
  <2> QED BY <1>8, <1>9, <2>1, <2>2 DEF StructureMatches
<1>15. \A e \in ObjectsOf(b) : e.name = n => e = d BY CreateOfNames
<1>16. ASSUME NEW e \in Made(b, E)
       PROVE  /\ after.specs[e.name] = [e.spec EXCEPT !.rules = RulesDone(E, e)]
              /\ after.rows[e.name] = {Stored(pg, r) : r \in RowsDone(E, e)}
  <2>1. /\ e \in Made(b, D) /\ e \in ObjectsOf(b) /\ e.name \in Declared(db)
        /\ db.specs[e.name] = [e.spec EXCEPT !.rules = RulesDone(D, e)]
        /\ db.rows[e.name] = {Stored(pg, r) : r \in RowsDone(D, e)}
    BY <1>2, <1>5 DEF Holds, Made
  <2>2. CASE e = d BY <1>6, <1>8, <1>12, <2>1, <2>2 DEF n
  <2>3. CASE e # d BY <1>6, <1>7, <1>8, <1>10, <1>15, <2>1, <2>3
  <2> QED BY <2>2, <2>3
<1>17. \A m \in Range(Names) \ Declared(after) : after.rows[m] = {}
  BY <1>8, <1>9 DEF Holds
<1>18. \A e \in ObjectsOf(b) : \A x \in Statements(e) \cap E : CreateOf(e) \in E
  <2> SUFFICES ASSUME NEW e \in ObjectsOf(b), NEW x \in Statements(e), x \in E PROVE CreateOf(e) \in E
    OBVIOUS
  <2>1. CASE x \in D BY <2>1 DEF Holds, E
  <2>2. CASE x = s
    <3>1. e.name = n BY <1>4, <2>2, StatementNames DEF n
    <3> QED BY <1>15, <3>1 DEF E
  <2> QED BY <2>1, <2>2 DEF E
<1>19. Holds(pg, b, E, after)
  BY <1>2, <1>5, <1>8, <1>9, <1>13, <1>14, <1>16, <1>17, <1>18 DEF Holds
<1>20. ASSUME Keeps(pg, db) PROVE Keeps(pg, after)
  <2>1. \A m \in Declared(db) : after.specs[m].op = db.specs[m].op
          /\ after.specs[m].source = db.specs[m].source /\ after.specs[m].target = db.specs[m].target
    BY <1>8, <1>10, <1>12
  <2>2. EndsDeclared(after)
    <3> SUFFICES ASSUME NEW m \in Declared(after), IsEdge(after.specs[m]),
                        NEW end \in {after.specs[m].source, after.specs[m].target}
                 PROVE  end \in Declared(after) /\ ~IsEdge(after.specs[end])
      BY DEF EndsDeclared
    <3>1. m \in Declared(db) /\ IsEdge(db.specs[m]) /\ end \in {db.specs[m].source, db.specs[m].target}
      BY <1>9, <2>1 DEF IsEdge
    <3>2. end \in Declared(db) /\ ~IsEdge(db.specs[end]) BY <1>20, <3>1 DEF Keeps, EndsDeclared
    <3> QED BY <1>9, <2>1, <3>2 DEF IsEdge
  <2>3. ForeignKeyCheck(after)
    BY <1>8, <1>9, <1>20, <2>1 DEF Keeps, ForeignKeyCheck, EndpointsThere, IsEdge
  <2> QED BY <1>8, <1>9, <1>20, <2>2, <2>3 DEF Keeps
<1>21. Keeps(pg, db) => Keeps(pg, after) BY <1>20
<1> QED BY <1>8, <1>19, <1>21 DEF n, after, E, s

(* A revision statement of the import.                                      *)
LEMMA RevisionStep ==
  ASSUME NEW pg \in BOOLEAN, NEW b, IsBundle(b), NEW D, NEW db, Holds(pg, b, D, db),
         NEW j, Recorded(b, j, db), j < Len(b.log)
  PROVE  LET after == [db EXCEPT !.log = Append(@, b.log[j + 1])]
         IN /\ Holds(pg, b, D, after) /\ Recorded(b, j + 1, after)
            /\ Keeps(pg, db) => Keeps(pg, after)
<1> DEFINE log == Append(db.log, b.log[j + 1])  after == [db EXCEPT !.log = Append(@, b.log[j + 1])]
<1>1. IsRecord(db) BY DEF Holds
<1>2. /\ after.made = db.made /\ after.triggers = db.triggers /\ after.rows = db.rows
      /\ after.log = log /\ after.guards = db.guards /\ after.tables = db.tables
      /\ after.specs = db.specs
      /\ after = DbOf(after.made, after.specs, after.tables, after.guards, after.triggers, after.rows, after.log)
  <2>1. after = [db EXCEPT !.log = log] OBVIOUS
  <2> HIDE DEF log, after
  <2>2. after = DbOf(db.made, db.specs, db.tables, db.guards, db.triggers, db.rows, log)
    BY <1>1, <2>1, WithFields
  <2> QED BY <2>2, DbRecord
<1> HIDE DEF after
<1>3. Declared(after) = Declared(db) BY <1>2 DEF Declared
<1>4. Holds(pg, b, D, after)
  <2>1. IsRecord(after) BY <1>1, <1>2, <1>3 DEF IsRecord, DbOf
  <2>2. StructureMatches(after) BY <1>2, <1>3 DEF Holds, StructureMatches
  <2> QED BY <1>2, <1>3, <2>1, <2>2 DEF Holds
<1>5. Keeps(pg, db) => Keeps(pg, after)
  <2>1. EndsDeclared(db) <=> EndsDeclared(after) BY <1>2, <1>3 DEF EndsDeclared
  <2>2. \A n, row : EndpointsThere(db, n, row) <=> EndpointsThere(after, n, row)
    BY <1>2 DEF EndpointsThere
  <2>3. ForeignKeyCheck(db) <=> ForeignKeyCheck(after) BY <1>2, <1>3, <2>2 DEF ForeignKeyCheck
  <2> QED BY <1>2, <1>3, <2>1, <2>3 DEF Keeps
<1>6. Recorded(b, j + 1, after)
  <2>1. /\ j \in Nat /\ Len(b.log) \in Nat /\ Len(db.log) = j /\ db.log \in Seq(Range(b.log))
        /\ b.log \in Seq(Range(b.log)) /\ \A i \in 1..j : db.log[i] = b.log[i]
    BY DEF Recorded, IsBundle
  <2>2. j + 1 \in 0..Len(b.log) /\ j + 1 \in 1..Len(b.log) BY <2>1
  <2>3. b.log[j + 1] \in Range(b.log) BY <2>1, <2>2
  <2>4. log \in Seq(Range(b.log)) /\ Len(log) = j + 1 /\ log[j + 1] = b.log[j + 1]
        /\ \A i \in 1..j : log[i] = db.log[i]
    BY <2>1, <2>3
  <2> HIDE DEF log
  <2> QED BY <1>2, <2>1, <2>2, <2>4 DEF Recorded
<1> QED BY <1>4, <1>5, <1>6 DEF after

-----------------------------------------------------------------------------
(* The plan, statement by statement.                                        *)
LEMMA PlanParts ==
  ASSUME NEW b, IsBundle(b), Distinct(b)
  PROVE  LET n == Len(ObjectPart(b))  m == Len(b.log)
         IN /\ n \in Nat /\ m \in Nat /\ Plan(b) \in Seq(Range(Plan(b))) /\ Len(Plan(b)) = n + m + 1
            /\ \A i \in 1..n : Plan(b)[i] = ObjectPart(b)[i]
            /\ \A i \in 1..m : Plan(b)[n + i] = <<"revision", b.log[i]>>
            /\ Plan(b)[n + m + 1] = <<"check">>
<1> DEFINE A == ObjectPart(b)  m == Len(b.log)  R == [i \in 1..m |-> <<"revision", b.log[i]>>]  C == <<<<"check">>>>
           H == A \o R  P == H \o C
           X == (UNION {Statements(d) : d \in ObjectsOf(b)}) \cup {<<"revision", e>> : e \in Range(b.log)} \cup {<<"check">>}
<1>1. b.log \in Seq(Range(b.log)) /\ m \in Nat /\ DOMAIN b.log = 1..m BY DEF IsBundle
<1>2. Plan(b) = P
  <2>1. [i \in DOMAIN b.log |-> <<"revision", b.log[i]>>] = R BY <1>1
  <2> HIDE DEF R
  <2> QED BY <2>1 DEF Plan, ObjectPart
<1>3. A \in Seq(X)
  <2> DEFINE Y == UNION {Statements(d) : d \in ObjectsOf(b)}
  <2>1. A \in Seq(Y) BY ObjectsInOrder
  <2>2. Y \subseteq X OBVIOUS
  <2> HIDE DEF A, X, Y
  <2> QED BY <2>1, <2>2
<1>4. R \in [1..m -> X]
  <2>1. \A i \in 1..m : b.log[i] \in Range(b.log) BY <1>1
  <2>2. \A i \in 1..m : <<"revision", b.log[i]>> \in X BY <2>1
  <2> HIDE DEF X
  <2> QED BY <2>2
<1>5. <<"check">> \in X OBVIOUS
<1>51. \A i \in 1..m : R[i] = <<"revision", b.log[i]>> OBVIOUS
<1> HIDE DEF A, R, X
<1>6. R \in Seq(X) /\ Len(R) = m BY <1>1, <1>4, IsSeq
<1>7. C \in Seq(X) /\ Len(C) = 1 /\ C[1] = <<"check">> BY <1>5
<1> HIDE DEF C, m
<1>8. H \in Seq(X) /\ Joins(A, R, H) BY <1>3, <1>6, ConcatParts
<1> HIDE DEF H
<1>9. P \in Seq(X) /\ Joins(H, C, P) BY <1>7, <1>8, ConcatParts
<1> HIDE DEF P
<1>10. Len(A) \in Nat /\ Len(H) = Len(A) + m BY <1>3, <1>6, <1>8 DEF Joins
<1>11. Len(P) = Len(A) + m + 1 BY <1>7, <1>9, <1>10 DEF Joins
<1>12. ASSUME NEW i \in 1..Len(A) PROVE P[i] = A[i]
  <2>1. i \in 1..Len(H) BY <1>1, <1>10
  <2> QED BY <1>8, <1>9, <2>1 DEF Joins
<1>13. ASSUME NEW i \in 1..m PROVE P[Len(A) + i] = <<"revision", b.log[i]>>
  <2>1. Len(A) + i \in 1..Len(H) BY <1>1, <1>10
  <2>2. H[Len(A) + i] = R[i] BY <1>6, <1>8 DEF Joins
  <2>3. P[Len(A) + i] = H[Len(A) + i] BY <1>9, <2>1 DEF Joins
  <2> QED BY <1>51, <2>2, <2>3
<1>14. P[Len(A) + m + 1] = <<"check">>
  <2>1. 1 \in 1..Len(C) BY <1>7
  <2>2. P[Len(H) + 1] = C[1] BY <1>9, <2>1 DEF Joins
  <2> QED BY <1>7, <1>10, <2>2
<1>15. P \in Seq(Range(P))
  <2>1. DOMAIN P = 1..Len(P) /\ Len(P) \in Nat /\ P = [i \in 1..Len(P) |-> P[i]] BY <1>9
  <2>2. \A i \in 1..Len(P) : P[i] \in Range(P) BY <2>1 DEF Range
  <2>3. P \in [1..Len(P) -> Range(P)] BY <2>1, <2>2
  <2> QED BY <2>1, <2>3, IsSeq
<1> QED BY <1>1, <1>2, <1>10, <1>11, <1>12, <1>13, <1>14, <1>15 DEF A, m

(* What has been done when a statement of an object comes.                   *)
Ready(b, D, s, d) ==
  /\ s \in Statements(d) /\ (s = CreateOf(d) \/ CreateOf(d) \in D)
  /\ IsEdge(d.spec) => \A e \in ObjectsOf(b) : ~IsEdge(e.spec) => Statements(e) \subseteq D

(* The statement to come is of an object, is not done, and what must come   *)
(* before it is.                                                            *)
LEMMA NextStatement ==
  ASSUME NEW b, IsBundle(b), Distinct(b), NEW k \in Nat, k < Len(ObjectPart(b))
  PROVE  LET s == ObjectPart(b)[k + 1]
         IN /\ s \notin Done(b, k) /\ Done(b, k + 1) = Done(b, k) \cup {s}
            /\ \E d \in ObjectsOf(b) : Ready(b, Done(b, k), s, d)
<1> DEFINE A == ObjectPart(b)  s == A[k + 1]
<1>1. Len(A) \in Nat /\ InOrder(b, A) BY ObjectsInOrder
<1>2. Done(b, k) = {A[q] : q \in {p \in 1..Len(A) : p <= k}} /\ Done(b, k + 1) = {A[q] : q \in {p \in 1..Len(A) : p <= k + 1}}
  BY DEF Done
<1> HIDE DEF A
<1>3. k + 1 \in 1..Len(A) BY <1>1 DEF A
<1>4. s \notin Done(b, k) BY <1>1, <1>2, <1>3 DEF InOrder, OneToOne
<1>5. Done(b, k + 1) = Done(b, k) \cup {s}
  <2>1. {p \in 1..Len(A) : p <= k + 1} = {p \in 1..Len(A) : p <= k} \cup {k + 1} BY <1>1, <1>3
  <2> HIDE <1>1
  <2> QED BY <1>2, <2>1
<1>6. ASSUME NEW x, Before(A, k + 1, x) PROVE x \in Done(b, k)
  <2>1. PICK q \in 1..k : A[q] = x BY <1>6 DEF Before
  <2>2. q \in 1..Len(A) /\ q <= k BY <1>1, <1>3
  <2> QED BY <1>2, <2>1, <2>2
<1>7. PICK d \in ObjectsOf(b) : s \in Statements(d) BY <1>1, <1>3 DEF InOrder
<1>8. s = CreateOf(d) \/ CreateOf(d) \in Done(b, k)
  BY <1>1, <1>3, <1>6, <1>7 DEF InOrder
<1>9. ASSUME IsEdge(d.spec), NEW e \in ObjectsOf(b), ~IsEdge(e.spec), NEW x \in Statements(e)
      PROVE  x \in Done(b, k)
  <2>1. Before(A, k + 1, x) BY <1>1, <1>3, <1>7, <1>9 DEF InOrder
  <2> QED BY <1>6, <2>1
<1>10. Ready(b, Done(b, k), s, d) BY <1>7, <1>8, <1>9 DEF Ready
<1> QED BY <1>4, <1>5, <1>10 DEF A

(* After the last of them, every statement of every object is done.         *)
LEMMA AllDone ==
  ASSUME NEW b, IsBundle(b), Distinct(b), NEW k \in Nat, k >= Len(ObjectPart(b))
  PROVE  /\ \A d \in ObjectsOf(b) : Statements(d) \subseteq Done(b, k)
         /\ Done(b, k + 1) = Done(b, k)
<1> DEFINE A == ObjectPart(b)
<1>1. Len(A) \in Nat /\ InOrder(b, A) BY ObjectsInOrder
<1>2. Done(b, k) = {A[q] : q \in {p \in 1..Len(A) : p <= k}} /\ Done(b, k + 1) = {A[q] : q \in {p \in 1..Len(A) : p <= k + 1}}
  BY DEF Done
<1> HIDE DEF A
<1>3. {p \in 1..Len(A) : p <= k} = 1..Len(A) /\ {p \in 1..Len(A) : p <= k + 1} = 1..Len(A) BY <1>1 DEF A
<1>4. \A d \in ObjectsOf(b) : \A s \in Statements(d) : s \in {A[q] : q \in 1..Len(A)} BY <1>1 DEF InOrder
<1> HIDE <1>1
<1> QED BY <1>2, <1>3, <1>4

(* An accepted statement of an object takes the import one statement        *)
(* further.                                                                 *)
LEMMA ObjectStep ==
  ASSUME toPg \in BOOLEAN, NEW b, IsBundle(b), Distinct(b), NEW D, NEW db,
         Holds(toPg, b, D, db), Keeps(toPg, db),
         NEW d \in ObjectsOf(b), NEW s, Ready(b, D, s, d), s \notin D, Accepts(db, s)
  PROVE  /\ Holds(toPg, b, D \cup {s}, Applied(db, s)) /\ Keeps(toPg, Applied(db, s))
         /\ Applied(db, s).log = db.log
<1>1. s \in Statements(d) /\ (s = CreateOf(d) \/ CreateOf(d) \in D) BY DEF Ready
<1>2. /\ s[2] = d.name /\ s[1] \in {"create", "row", "rule"}
      /\ s[1] = "create" => s = CreateOf(d)
      /\ s[1] = "row" => s = <<"row", d.name, s[3]>> /\ s[3] \in d.rows
      /\ s[1] = "rule" => s = <<"rule", d.name, s[3]>> /\ s[3] \in d.spec.rules
  BY <1>1, StatementNames
<1>3. CASE s[1] = "create"
  <2>1. s = CreateOf(d) /\ s[3] = Bare(d.spec) BY <1>2, <1>3 DEF CreateOf
  <2>2. CreateAccepts(db, d.name, Bare(d.spec)) BY <1>2, <1>3, <2>1 DEF Accepts
  <2> DEFINE after == CreateOn(db, d.name, Bare(d.spec))
  <2>3. /\ d.name \notin Declared(db) /\ Holds(toPg, b, D \cup {s}, after)
        /\ after.log = db.log /\ Keeps(toPg, after)
    BY <2>1, <2>2, CreateStep
  <2>4. Applied(db, s) = after BY <1>2, <1>3, <2>1, <2>3 DEF Applied
  <2> QED BY <2>3, <2>4
<1>4. CASE s[1] = "row"
  <2> DEFINE row == s[3]  after == [db EXCEPT !.rows[d.name] = @ \cup {Stored(toPg, row)}]
  <2>1. s = <<"row", d.name, row>> /\ row \in d.rows BY <1>2, <1>4
  <2>2. RowAccepts(db, d.name, row) BY <1>2, <1>4 DEF Accepts
  <2>3. CreateOf(d) \in D BY <1>1, <1>4 DEF CreateOf
  <2>4. AsStored(row) = Stored(toPg, row) BY DEF AsStored, Stored
  <2>5. Applied(db, s) = after
    <3> HIDE DEF row
    <3>1. s[1] = "row" /\ s[2] = d.name /\ s[3] = row BY <2>1
    <3> QED BY <2>4, <3>1 DEF Applied
  <2> HIDE DEF row
  <2>6. Holds(toPg, b, D \cup {<<"row", d.name, row>>}, after) /\ after.log = db.log /\ Keeps(toPg, after)
    BY <2>1, <2>2, <2>3, RowStep
  <2> QED BY <2>1, <2>5, <2>6
<1>5. CASE s[1] = "rule"
  <2> DEFINE rule == s[3]
             after == RuleOn(db, d.name, rule)
  <2>1. s = <<"rule", d.name, rule>> /\ rule \in d.spec.rules BY <1>2, <1>5
  <2>2. CreateOf(d) \in D BY <1>1, <1>5 DEF CreateOf
  <2>3. Applied(db, s) = after
    <3>1. s[2] = d.name BY <1>2
    <3> QED BY <1>5, <3>1 DEF Applied, RuleOn
  <2> HIDE DEF rule
  <2>4. Holds(toPg, b, D \cup {<<"rule", d.name, rule>>}, after) /\ after.log = db.log /\ Keeps(toPg, after)
    <3>1. rule \in d.spec.rules BY <2>1
    <3> HIDE <1>1, <1>2
    <3> QED BY <2>2, <3>1, RuleStep, SMTT(60)
  <2> QED BY <2>1, <2>3, <2>4
<1> QED BY <1>2, <1>3, <1>4, <1>5

(* A statement that is accepted takes the import one statement further.      *)
LEMMA PlanStep ==
  ASSUME toPg \in BOOLEAN, NEW b, IsBundle(b), Distinct(b), NEW k \in Nat, k < Len(Plan(b)),
         NEW db, Progress(toPg, b, k, db), Accepts(db, Plan(b)[k + 1])
  PROVE  Progress(toPg, b, k + 1, Applied(db, Plan(b)[k + 1]))
<1> DEFINE n == Len(ObjectPart(b))  m == Len(b.log)  P == Plan(b)  s == P[k + 1]  after == Applied(db, s)
<1>1. /\ n \in Nat /\ m \in Nat /\ Len(P) = n + m + 1
      /\ \A i \in 1..n : P[i] = ObjectPart(b)[i]
      /\ \A i \in 1..m : P[n + i] = <<"revision", b.log[i]>>
      /\ P[n + m + 1] = <<"check">>
  BY PlanParts
<1>2. Holds(toPg, b, Done(b, k), db) /\ Recorded(b, Entered(b, k), db) /\ Keeps(toPg, db)
  BY DEF Progress
<1>3. \A i \in Nat : Entered(b, i) = IF i <= n THEN 0 ELSE IF i - n <= m THEN i - n ELSE m
  BY DEF Entered
<1>4. k + 1 \in 0..Len(P) BY <1>1
<1>5. SUFFICES /\ Holds(toPg, b, Done(b, k + 1), after) /\ Recorded(b, Entered(b, k + 1), after)
               /\ Keeps(toPg, after) /\ (k + 1 = Len(P) => Check(after, toPg))
  BY <1>4 DEF Progress
<1> HIDE DEF n, m, P
<1>6. CASE k < n
  <2>1. s = ObjectPart(b)[k + 1] BY <1>1, <1>6
  <2>2. s \notin Done(b, k) /\ Done(b, k + 1) = Done(b, k) \cup {s} BY <1>6, <2>1, NextStatement DEF n
  <2>3. PICK d \in ObjectsOf(b) : Ready(b, Done(b, k), s, d) BY <1>6, <2>1, NextStatement DEF n
  <2>4. Accepts(db, s) BY DEF P
  <2> HIDE DEF s
  <2>5. Holds(toPg, b, Done(b, k + 1), after) /\ Keeps(toPg, after) /\ after.log = db.log
    BY <1>2, <2>2, <2>3, <2>4, ObjectStep
  <2>6. Entered(b, k) = 0 /\ Entered(b, k + 1) = 0
    <3>1. k \in Nat /\ k <= n /\ k + 1 \in Nat /\ k + 1 <= n BY <1>1, <1>6
    <3> QED BY <1>3, <3>1, ZenonT(30)
  <2>7. Recorded(b, Entered(b, k + 1), after) BY <1>2, <2>5, <2>6 DEF Recorded
  <2>8. k + 1 # Len(P) BY <1>1, <1>6
  <2> QED BY <2>5, <2>7, <2>8
<1>7. CASE n <= k /\ k < n + m
  <2> DEFINE j == k - n
  <2>1. j \in Nat /\ j < m /\ k + 1 = n + (j + 1) /\ j + 1 \in 1..m BY <1>1, <1>7, SMTT(30)
  <2>2. Entered(b, k) = j /\ Entered(b, k + 1) = j + 1 BY <1>1, <1>3, <1>7
  <2> HIDE DEF j
  <2>3. s = <<"revision", b.log[j + 1]>> BY <1>1, <2>1
  <2>4. after = [db EXCEPT !.log = Append(@, b.log[j + 1])] BY <2>3 DEF Applied
  <2>5. Recorded(b, j, db) /\ j < Len(b.log) BY <1>2, <2>1, <2>2 DEF m
  <2>6. Done(b, k + 1) = Done(b, k) BY <1>1, <1>7, AllDone DEF n
  <2> HIDE DEF after
  <2>7. Holds(toPg, b, Done(b, k), after) /\ Recorded(b, j + 1, after) /\ Keeps(toPg, after)
    BY <1>2, <2>4, <2>5, RevisionStep
  <2>8. k + 1 # Len(P) BY <1>1, <1>7
  <2> QED BY <2>2, <2>6, <2>7, <2>8
<1>8. CASE k = n + m
  <2>1. s = <<"check">> BY <1>1, <1>8
  <2>2. after = db BY <2>1 DEF Applied
  <2>3. Check(db, toPg)
    <3>1. Accepts(db, s) BY DEF P
    <3> QED BY <2>1, <3>1 DEF Accepts
  <2>4. Entered(b, k) = m /\ Entered(b, k + 1) = m
    <3>1. k \in Nat /\ k + 1 \in Nat /\ ~(k + 1 <= n) /\ ~((k + 1) - n <= m) BY <1>1, <1>8
    <3> QED BY <1>1, <1>3, <1>8, <3>1
  <2>5. Done(b, k + 1) = Done(b, k)
    <3>1. k >= n BY <1>1, <1>8
    <3> QED BY <3>1, AllDone DEF n
  <2> QED BY <1>2, <2>2, <2>3, <2>4, <2>5
<1> QED BY <1>1, <1>6, <1>7, <1>8 DEF P

-----------------------------------------------------------------------------
(* A whole import.                                                          *)
AllMade(pg, b, db) ==
  /\ Declared(db) = {d.name : d \in ObjectsOf(b)}
  /\ \A d \in ObjectsOf(b) : db.specs[d.name] = d.spec /\ db.rows[d.name] = {Stored(pg, r) : r \in d.rows}

(* The database that a bundle describes.                                    *)
Complete(pg, b, db) ==
  /\ IsRecord(db) /\ db.made = TRUE /\ StructureMatches(db) /\ AllMade(pg, b, db)
  /\ \A n \in Range(Names) \ Declared(db) : db.rows[n] = {}
  /\ db.log = b.log

LEMMA WithItsRules ==
  ASSUME NEW spec \in Schemas
  PROVE  [spec EXCEPT !.rules = spec.rules] = spec
BY DEF Schemas

(* A plan that has run has made every object with all its rows and rules.   *)
LEMMA EverythingMade ==
  ASSUME NEW pg, NEW b, IsBundle(b), Distinct(b), NEW k \in Nat, k >= Len(ObjectPart(b)),
         NEW db, Holds(pg, b, Done(b, k), db)
  PROVE  /\ Made(b, Done(b, k)) = ObjectsOf(b)
         /\ \A d \in ObjectsOf(b) : RulesDone(Done(b, k), d) = d.spec.rules /\ RowsDone(Done(b, k), d) = d.rows
         /\ AllMade(pg, b, db)
<1> DEFINE D == Done(b, k)
<1>1. \A d \in ObjectsOf(b) : Statements(d) \subseteq D BY AllDone
<1>2. Holds(pg, b, D, db) OBVIOUS
<1> HIDE DEF D
<1>3. ASSUME NEW d \in ObjectsOf(b)
      PROVE  CreateOf(d) \in D /\ RulesDone(D, d) = d.spec.rules /\ RowsDone(D, d) = d.rows
  BY <1>1 DEF Statements, RowsOf, RulesOf, RulesDone, RowsDone
<1>4. Made(b, D) = ObjectsOf(b) BY <1>3 DEF Made
<1>5. \A d \in ObjectsOf(b) : [d.spec EXCEPT !.rules = d.spec.rules] = d.spec
  <2> TAKE d \in ObjectsOf(b)
  <2>1. d.spec \in Schemas BY DEF IsBundle, IsObject
  <2> QED BY <2>1, WithItsRules
<1>6. Declared(db) = {d.name : d \in Made(b, D)} BY <1>2 DEF Holds
<1>7. ASSUME NEW d \in ObjectsOf(b)
      PROVE  db.specs[d.name] = d.spec /\ db.rows[d.name] = {Stored(pg, r) : r \in d.rows}
  <2>1. /\ db.specs[d.name] = [d.spec EXCEPT !.rules = RulesDone(D, d)]
        /\ db.rows[d.name] = {Stored(pg, r) : r \in RowsDone(D, d)}
    BY <1>2, <1>4 DEF Holds
  <2> QED BY <1>3, <1>5, <2>1
<1>8. AllMade(pg, b, db) BY <1>4, <1>6, <1>7 DEF AllMade
<1> QED BY <1>3, <1>4, <1>8 DEF D

LEMMA SameSequence ==
  ASSUME NEW X, NEW s \in Seq(X), NEW t \in Seq(X), Len(s) = Len(t), \A i \in 1..Len(s) : s[i] = t[i]
  PROVE  s = t
OBVIOUS

(* A finished import has made the database that the bundle describes.       *)
LEMMA ImportCompletes ==
  ASSUME NEW pg, NEW b, IsBundle(b), Distinct(b), NEW db, Progress(pg, b, Len(Plan(b)), db)
  PROVE  Complete(pg, b, db)
<1> DEFINE n == Len(ObjectPart(b))  m == Len(b.log)  k == Len(Plan(b))
<1>1. n \in Nat /\ m \in Nat /\ k = n + m + 1 BY PlanParts
<1>2. Holds(pg, b, Done(b, k), db) /\ Recorded(b, Entered(b, k), db) BY DEF Progress
<1>3. Entered(b, k) = m BY <1>1 DEF Entered
<1> HIDE DEF n, m, k
<1>4. k \in Nat /\ k >= n BY <1>1
<1>5. AllMade(pg, b, db)
  <2>1. k \in Nat /\ k >= Len(ObjectPart(b)) /\ Holds(pg, b, Done(b, k), db) BY <1>2, <1>4 DEF n
  <2> HIDE <1>2, <1>4
  <2> QED BY <2>1, EverythingMade
<1>6. db.log = b.log
  <2>1. db.log \in Seq(Range(b.log)) /\ b.log \in Seq(Range(b.log)) /\ Len(db.log) = Len(b.log)
        /\ \A i \in 1..Len(b.log) : db.log[i] = b.log[i]
    BY <1>2, <1>3 DEF Recorded, IsBundle, m
  <2>2. \A i \in 1..Len(db.log) : db.log[i] = b.log[i] BY <2>1
  <2> HIDE <1>2
  <2> QED BY <2>1, <2>2, SameSequence
<1> QED BY <1>2, <1>5, <1>6 DEF Complete, Holds

LEMMA ValidIsDistinct ==
  ASSUME NEW b, Valid(b)
  PROVE  Distinct(b)
BY DEF Valid, Distinct

LEMMA ObjectsInRange ==
  ASSUME NEW b
  PROVE  Range(b.objects) = ObjectsOf(b)
BY DEF Range, ObjectsOf

(* A finished import of a valid bundle is sound: what Valid asks of the     *)
(* bundle is what holds in the database made of it.                         *)
LEMMA SoundWhenFinished ==
  ASSUME pc = "done", toPg \in BOOLEAN, IsBundle(bundle), Valid(bundle), Progress(toPg, bundle, Len(Plan(bundle)), dest)
  PROVE  ImportedIsSound
<1>1. Distinct(bundle) BY ValidIsDistinct
<1>2. Complete(toPg, bundle, dest) BY <1>1, ImportCompletes
<1>3. Keeps(toPg, dest) /\ Check(dest, toPg) BY DEF Progress
<1>4. Check(dest, FALSE)
  <2>1. RevisionsSealed(dest) /\ ForeignKeyCheck(dest) /\ EndsDeclared(dest) /\ StructureMatches(dest)
    BY <1>2, <1>3 DEF Check, Keeps, Complete
  <2>2. DataObeysRules(dest)
    <3>1. CASE toPg
      <4>1. \A d \in ObjectsOf(bundle) : d.spec.rules = {} BY <3>1, ObjectsInRange DEF Valid, CreationOnly
      <4> QED BY <1>2, <4>1 DEF Complete, AllMade, DataObeysRules
    <3>2. CASE ~toPg BY <1>3, <3>2 DEF Check
    <3> QED BY <3>1, <3>2
  <2> QED BY <2>1, <2>2 DEF Check
<1>5. \A n \in Declared(dest) : NumbersPortable(toPg, dest.rows[n]) BY <1>3 DEF Keeps
<1>6. Increasing(dest.log) BY <1>2 DEF Valid, Complete
<1>7. ASSUME NEW e \in Range(dest.log), NEW o \in e.ops PROVE InForce(dest, o)
  <2>1. e \in Range(bundle.log) BY <1>2 DEF Complete
  <2>2. Agrees(bundle, o) BY <2>1, <1>7 DEF Valid
  <2>3. PICK d \in ObjectsOf(bundle) :
          /\ d.name = o[2]
          /\ IF o[1] = "create" THEN o[3] = Bare(d.spec) ELSE o[3] \in d.spec.rules
    BY <2>2, ObjectsInRange DEF Agrees
  <2>4. o[2] \in Declared(dest) /\ dest.specs[o[2]] = d.spec BY <1>2, <2>3 DEF Complete, AllMade
  <2> QED BY <2>3, <2>4 DEF InForce
<1> QED BY <1>4, <1>5, <1>6, <1>7 DEF ImportedIsSound, LogInForce

-----------------------------------------------------------------------------
(* What an export writes.                                                   *)
Written(pg, r) == IF HasNumber(r) THEN [r EXCEPT ![4] = Exported(pg, @)] ELSE r

(* What an export writes of a storage object.                               *)
ObjectOf(db, pg, n) ==
  [name |-> n, spec |-> db.specs[n], rows |-> ExportedRows(pg, db.rows[n]), sealed |-> TRUE]

LEMMA EdgeWritten ==
  ASSUME NEW spec, NEW row, IsEdge(spec), Fits(spec, row), NEW pg
  PROVE  Written(pg, row) = row
BY EdgeRow DEF Written

LEMMA RecordWritten ==
  ASSUME NEW spec, NEW row, ~IsEdge(spec), Fits(spec, row), NEW pg
  PROVE  Written(pg, row) = <<row[1], row[2], row[3], Exported(pg, row[4])>>
BY RecordRow, ReplacedNumber DEF Written

(* What an export writes of a row is a row of the declaration, and reads as *)
(* the row did.                                                             *)
LEMMA WrittenFits ==
  ASSUME NEW spec, NEW row, Fits(spec, row), NEW pg \in BOOLEAN, HasNumber(row) => Portable(Decoded(pg, row[4]))
  PROVE  /\ Fits(spec, Written(pg, row))
         /\ Written(pg, row)[1] = row[1] /\ Written(pg, row)[2] = row[2]
         /\ ~IsEdge(spec) => /\ Written(pg, row)[3] = row[3]
                             /\ Decoded(FALSE, Written(pg, row)[4]) = Decoded(pg, row[4])
                             /\ Portable(Decoded(pg, row[4]))
<1>1. CASE IsEdge(spec) BY <1>1, EdgeWritten
<1>2. CASE ~IsEdge(spec)
  <2>1. HasNumber(row) /\ row[4] \in Literals /\ row[2] \in Nat BY <1>2, RecordRow
  <2>2. Exported(pg, row[4]) \in Literals /\ Decoded(FALSE, Exported(pg, row[4])) = Decoded(pg, row[4])
    BY <2>1, NumberExported
  <2> DEFINE w == Written(pg, row)
  <2>3. w = <<row[1], row[2], row[3], Exported(pg, row[4])>> BY <1>2, RecordWritten
  <2> HIDE DEF w
  <2>4. w[1] = row[1] /\ w[2] = row[2] /\ w[3] = row[3] /\ w[4] = Exported(pg, row[4])
        /\ w = <<w[1], w[2], w[3], w[4]>>
    BY <2>3
  <2>5. Fits(spec, w) BY <1>2, <2>1, <2>2, <2>4 DEF Fits
  <2> QED BY <1>2, <2>1, <2>2, <2>4, <2>5 DEF w
<1> QED BY <1>1, <1>2

(* ExportedRows, with the row that is written named.                        *)
LEMMA RowsWritten ==
  ASSUME NEW rows, IsFiniteSet(rows), NEW pg
  PROVE  ExportedRows(pg, rows) = {Written(pg, r) : r \in rows} /\ IsFiniteSet(ExportedRows(pg, rows))
<1> DEFINE f == [r \in rows |-> Written(pg, r)]
<1>1. ExportedRows(pg, rows) = {Written(pg, r) : r \in rows} BY DEF ExportedRows, Written
<1>2. f \in Surjection(rows, ExportedRows(pg, rows)) BY <1>1 DEF Surjection
<1> HIDE DEF f
<1> QED BY <1>1, <1>2, FS_Surjection

NamedOnce(s, S) ==
  /\ s \in Seq(S) /\ OneToOne(s, Len(s)) /\ \A n \in S : \E p \in 1..Len(s) : s[p] = n

(* The names an export goes through are the declared ones, each once.       *)
LEMMA NamesSelected ==
  ASSUME NEW db, Declared(db) \subseteq Range(Names)
  PROVE  NamedOnce(NamesOf(db), Declared(db))
<1> DEFINE X == Range(Names)  c == Len(Names)
<1>1. Names \in [1..c -> X] /\ c \in Nat /\ DOMAIN Names = 1..c BY TransferAssumption
<1>2. \A n \in X : \E p \in 1..c : Names[p] = n BY <1>1 DEF Range
<1>3. OneToOne(Names, c) BY <1>1, TransferAssumption DEF OneToOne, IsInjective
<1> HIDE DEF X, c
<1>4. /\ NamesOf(db) \in Seq(X \cap Declared(db))
      /\ Selects(Names, c, Declared(db), NamesOf(db))
  BY <1>1, SelectedParts DEF NamesOf
<1>5. X \cap Declared(db) = Declared(db) BY DEF X
<1>6. ASSUME NEW n \in Declared(db) PROVE \E p \in 1..Len(NamesOf(db)) : NamesOf(db)[p] = n
  <2>1. PICK i \in 1..c : Names[i] = n BY <1>2 DEF X
  <2> QED BY <1>4, <2>1 DEF Selects
<1> QED BY <1>3, <1>4, <1>5, <1>6 DEF NamedOnce, Selects

(* A bundle that an export has written.                                     *)
ExportIs(db, pg, b) ==
  /\ IsBundle(b) /\ Distinct(b) /\ b.log = db.log /\ b.sealed
  /\ ObjectsOf(b) = {ObjectOf(db, pg, n) : n \in Declared(db)}

(* Export writes such a bundle.                                             *)
LEMMA ExportParts ==
  ASSUME NEW db, IsDatabase(db), NEW pg \in BOOLEAN,
         \A n \in Declared(db) : NumbersPortable(pg, db.rows[n])
  PROVE  ExportIs(db, pg, Export(db, pg))
<1> DEFINE s == NamesOf(db)  b == Export(db, pg)  S == Declared(db)  X == {ObjectOf(db, pg, n) : n \in S}
           objects == [i \in DOMAIN s |-> ObjectOf(db, pg, s[i])]
<1>1. S \subseteq Range(Names) /\ \A n \in S : IsDeclaration(db, n) BY DEF IsDatabase
<1>2. NamedOnce(s, S) BY <1>1, NamesSelected
<1>3. b = [sealed |-> TRUE, log |-> db.log, objects |-> objects] BY DEF Export, ObjectOf
<1> HIDE DEF s
<1>4. s \in Seq(S) /\ Len(s) \in Nat /\ DOMAIN s = 1..Len(s) BY <1>2 DEF NamedOnce
<1>5. objects \in [1..Len(s) -> X] BY <1>4
<1>51. \A i \in 1..Len(s) : objects[i] = ObjectOf(db, pg, s[i]) BY <1>4
<1>52. DOMAIN objects = 1..Len(s) BY <1>4
<1>53. \A n \in S : \E p \in 1..Len(s) : objects[p] = ObjectOf(db, pg, n)
  <2> TAKE n \in S
  <2>1. PICK p \in 1..Len(s) : s[p] = n BY <1>2 DEF NamedOnce
  <2> QED BY <1>51, <2>1
<1> HIDE DEF objects, b
<1>6. b.objects = objects /\ b.log = db.log /\ b.sealed /\ b = [sealed |-> b.sealed, log |-> b.log, objects |-> b.objects]
  BY <1>3
<1>7. ObjectsOf(b) = X
  <2>1. ObjectsOf(b) = {objects[i] : i \in 1..Len(s)} BY <1>6, <1>52 DEF ObjectsOf
  <2>2. {objects[i] : i \in 1..Len(s)} \subseteq X BY <1>5
  <2>3. X \subseteq {objects[i] : i \in 1..Len(s)} BY <1>53
  <2> QED BY <2>1, <2>2, <2>3
<1>8. ASSUME NEW n \in S PROVE IsObject(ObjectOf(db, pg, n))
  <2> DEFINE d == ObjectOf(db, pg, n)  spec == db.specs[n]  rows == db.rows[n]
  <2>1. /\ d.name = n /\ d.spec = spec /\ d.rows = ExportedRows(pg, rows)
        /\ d = [name |-> d.name, spec |-> d.spec, rows |-> d.rows, sealed |-> d.sealed] BY DEF ObjectOf
  <2>2. /\ spec \in Schemas /\ IsFiniteSet(spec.rules) /\ IsFiniteSet(rows)
        /\ \A r \in rows : Fits(spec, r) /\ (HasNumber(r) => Portable(Decoded(pg, r[4])))
    BY <1>1 DEF IsDeclaration, NumbersPortable
  <2> HIDE DEF d, spec, rows
  <2>3. d.rows = {Written(pg, r) : r \in rows} /\ IsFiniteSet(d.rows) BY <2>1, <2>2, RowsWritten
  <2>4. \A r \in d.rows : Fits(spec, r) BY <2>2, <2>3, WrittenFits, ZenonT(30)
  <2>5. n \in Range(Names) BY <1>1
  <2> QED BY <2>1, <2>2, <2>3, <2>4, <2>5 DEF IsObject, d
<1>9. objects \in Seq(X) /\ Len(objects) = Len(s) BY <1>4, <1>5, IsSeq
<1>10. IsBundle(b)
  <2>1. \A d \in X : IsObject(d) BY <1>8
  <2>2. /\ db.log \in Seq(Range(db.log))
        /\ \A i \in DOMAIN db.log : db.log[i] = [id |-> db.log[i].id, ops |-> db.log[i].ops, sealed |-> db.log[i].sealed]
                                    /\ db.log[i].id \in Nat
    BY DEF IsDatabase, Range
  <2> HIDE DEF X
  <2> QED BY <1>6, <1>7, <1>9, <2>1, <2>2 DEF IsBundle
<1>11. Distinct(b)
  <2>0. \A n : ObjectOf(db, pg, n).name = n BY DEF ObjectOf
  <2>1. \A i \in 1..Len(s) : objects[i].name = s[i] BY <1>51, <2>0
  <2> QED BY <1>2, <1>6, <1>52, <2>1 DEF Distinct, NamedOnce, OneToOne
<1>12. ExportIs(db, pg, b) BY <1>6, <1>7, <1>10, <1>11 DEF ExportIs
<1> QED BY <1>12 DEF b

(* The bundle of a database whose log is in force is valid, but for the       *)
(* constraints that PostgreSQL does not take.                               *)
LEMMA ExportValid ==
  ASSUME NEW db, IsDatabase(db), NEW pg \in BOOLEAN, RevisionsSealed(db), LogInForce(db),
         NEW b, ExportIs(db, pg, b),
         toPg => CreationOnly(b)
  PROVE  Valid(b)
<1>1. \A n : ObjectOf(db, pg, n).name = n /\ ObjectOf(db, pg, n).spec = db.specs[n] /\ ObjectOf(db, pg, n).sealed
  BY DEF ObjectOf
<1>2. b.sealed /\ Distinct(b) /\ b.log = db.log /\ ObjectsOf(b) = {ObjectOf(db, pg, n) : n \in Declared(db)}
  BY DEF ExportIs
<1>3. ASSUME NEW d \in Range(b.objects) PROVE WellFormed(d)
  <2>1. PICK n \in Declared(db) : d = ObjectOf(db, pg, n) BY <1>2, <1>3, ObjectsInRange
  <2>2. IsDeclaration(db, n) BY DEF IsDatabase
  <2>3. d.sealed /\ d.spec = db.specs[n] BY <1>1, <2>1
  <2> QED BY <2>2, <2>3 DEF IsDeclaration, WellFormed, Schemas, IsEdge
<1>4. ASSUME NEW e \in Range(b.log), NEW o \in e.ops PROVE Agrees(b, o)
  <2>1. InForce(db, o) BY <1>2, <1>4 DEF LogInForce
  <2>2. ObjectOf(db, pg, o[2]) \in Range(b.objects) BY <1>2, <2>1, ObjectsInRange DEF InForce
  <2> QED BY <1>1, <2>1, <2>2 DEF Agrees, InForce
<1>5. \A e \in Range(b.log) : e.sealed BY <1>2 DEF RevisionsSealed
<1>6. Increasing(b.log) BY <1>2 DEF IsDatabase
<1> QED BY <1>2, <1>3, <1>4, <1>5, <1>6 DEF Valid, Distinct

(* The IDs of an increasing log grow from any entry to any later one.       *)
LEMMA EarlierIDs ==
  ASSUME NEW X, NEW log \in Seq(X), \A i \in DOMAIN log : log[i].id \in Nat, Increasing(log)
  PROVE  \A i, j \in DOMAIN log : i < j => log[i].id < log[j].id
<1> DEFINE n == Len(log)
<1>1. n \in Nat /\ DOMAIN log = 1..n OBVIOUS
<1>2. ASSUME NEW i \in 2..n PROVE log[i].id > log[i - 1].id
  <2>1. i \in DOMAIN log \ {1} BY <1>1
  <2> HIDE <1>1
  <2> QED BY <2>1 DEF Increasing
<1>3. \A i \in 1..n : log[i].id \in Nat BY <1>1
<1> HIDE DEF n
<1>4. ASSUME NEW i \in 1..n PROVE \A j \in (i + 1)..n : log[i].id < log[j].id
  <2> DEFINE S == {k \in Nat : i + 1 + k <= n => log[i].id < log[i + 1 + k].id}
  <2>1. 0 \in S
    <3>1. i + 1 <= n => i + 1 \in 2..n /\ (i + 1) - 1 = i /\ i + 1 + 0 = i + 1 BY <1>1
    <3>2. i + 1 <= n => i + 1 \in 1..n BY <1>1
    <3>3. i + 1 <= n => log[i + 1].id > log[i].id BY <1>2, <3>1
    <3> QED BY <1>3, <3>1, <3>2, <3>3
  <2>2. ASSUME NEW k \in Nat, k \in S, i + 1 + (k + 1) <= n PROVE log[i].id < log[i + 1 + (k + 1)].id
    <3>1. i + 1 + (k + 1) \in 2..n /\ (i + 1 + (k + 1)) - 1 = i + 1 + k /\ i + 1 + k \in 1..n /\ i + 1 + (k + 1) \in 1..n
      BY <1>1, <2>2
    <3>2. log[i].id < log[i + 1 + k].id BY <2>2, <3>1
    <3>3. log[i + 1 + (k + 1)].id > log[i + 1 + k].id BY <1>2, <3>1
    <3>4. log[i].id \in Nat /\ log[i + 1 + k].id \in Nat /\ log[i + 1 + (k + 1)].id \in Nat BY <1>3, <3>1
    <3> DEFINE x == log[i].id  y == log[i + 1 + k].id  z == log[i + 1 + (k + 1)].id
    <3>5. x < y /\ z > y /\ x \in Nat /\ y \in Nat /\ z \in Nat BY <3>2, <3>3, <3>4
    <3> HIDE DEF x, y, z
    <3>6. x < z BY <3>5
    <3> QED BY <3>6 DEF x, z
  <2>3. Nat \subseteq S
    <3>1. \A k \in Nat : k \in S => k + 1 \in S BY <2>2
    <3> HIDE DEF S
    <3> QED BY <2>1, <3>1, Induction
  <2> TAKE j \in (i + 1)..n
  <2>4. j - (i + 1) \in Nat /\ i + 1 + (j - (i + 1)) = j /\ j <= n BY <1>1
  <2>5. i + 1 + (j - (i + 1)) <= n => log[i].id < log[i + 1 + (j - (i + 1))].id BY <2>3, <2>4
  <2> QED BY <2>4, <2>5
<1> QED BY <1>1, <1>4

(* What an import has made of an export so far.                              *)
LEMMA MadeOfExport ==
  ASSUME NEW db, IsDatabase(db), NEW fpg \in BOOLEAN, NEW b, ExportIs(db, fpg, b),
         NEW pg, NEW D, NEW now, Holds(pg, b, D, now), NEW n \in Declared(now)
  PROVE  /\ n \in Declared(db) /\ ObjectOf(db, fpg, n) \in Made(b, D)
         /\ now.specs[n].op = db.specs[n].op /\ now.specs[n].source = db.specs[n].source
         /\ now.specs[n].target = db.specs[n].target /\ now.specs[n].rules \subseteq db.specs[n].rules
         /\ now.rows[n] = {Stored(pg, r) : r \in RowsDone(D, ObjectOf(db, fpg, n))}
<1>1. \A m : ObjectOf(db, fpg, m).name = m /\ ObjectOf(db, fpg, m).spec = db.specs[m]
  BY DEF ObjectOf
<1>2. PICK d \in Made(b, D) : d.name = n BY DEF Holds
<1>3. PICK m \in Declared(db) : d = ObjectOf(db, fpg, m) BY <1>2 DEF Made, ExportIs
<1>4. m = n /\ d = ObjectOf(db, fpg, n) BY <1>1, <1>2, <1>3
<1>5. /\ now.specs[n] = [db.specs[n] EXCEPT !.rules = RulesDone(D, d)]
      /\ now.rows[n] = {Stored(pg, r) : r \in RowsDone(D, d)}
  BY <1>1, <1>2, <1>4 DEF Holds
<1>6. db.specs[n] \in Schemas BY <1>3, <1>4 DEF IsDatabase, IsDeclaration
<1>7. RulesDone(D, d) \subseteq db.specs[n].rules BY <1>1, <1>4 DEF RulesDone
<1>8. /\ now.specs[n].op = db.specs[n].op /\ now.specs[n].source = db.specs[n].source
      /\ now.specs[n].target = db.specs[n].target /\ now.specs[n].rules \subseteq db.specs[n].rules
  BY <1>5, <1>6, <1>7 DEF Schemas
<1> QED BY <1>2, <1>3, <1>4, <1>5, <1>8

-----------------------------------------------------------------------------
(* A database that check accepts and export takes.                           *)
Exportable(db, pg) ==
  /\ IsDatabase(db) /\ RevisionsSealed(db) /\ ForeignKeyCheck(db) /\ StructureMatches(db) /\ DataObeysRules(db)
  /\ \A n \in Declared(db) : NumbersPortable(pg, db.rows[n])

(* Every object of an export is a declared object of the source.            *)
LEMMA ObjectParts ==
  ASSUME NEW db, IsDatabase(db), NEW fpg, NEW b, ExportIs(db, fpg, b), NEW d \in ObjectsOf(b)
  PROVE  /\ d.name \in Declared(db) /\ d = ObjectOf(db, fpg, d.name) /\ d.spec = db.specs[d.name]
         /\ d.rows = {Written(fpg, r) : r \in db.rows[d.name]}
         /\ \A r \in db.rows[d.name] : Fits(d.spec, r)
<1>1. PICK n \in Declared(db) : d = ObjectOf(db, fpg, n) BY DEF ExportIs
<1>2. d.name = n /\ d.spec = db.specs[n] /\ d.rows = ExportedRows(fpg, db.rows[n]) BY <1>1 DEF ObjectOf
<1>3. IsFiniteSet(db.rows[n]) /\ \A r \in db.rows[n] : Fits(db.specs[n], r) BY DEF IsDatabase, IsDeclaration
<1> QED BY <1>1, <1>2, <1>3, RowsWritten

(* Every declared object of the source is in the export.                    *)
LEMMA ExportedObject ==
  ASSUME NEW db, NEW fpg, NEW b, ExportIs(db, fpg, b), NEW n \in Declared(db)
  PROVE  /\ ObjectOf(db, fpg, n) \in ObjectsOf(b) /\ ObjectOf(db, fpg, n).name = n
         /\ ObjectOf(db, fpg, n).spec = db.specs[n]
BY DEF ExportIs, ObjectOf

(* The create of an export is accepted: the endpoints of a relationship are *)
(* there and are collections.                                               *)
LEMMA CreateAccepted ==
  ASSUME NEW db, NEW fpg \in BOOLEAN, Exportable(db, fpg), EndsDeclared(db), NEW b, ExportIs(db, fpg, b),
         NEW pg, NEW D, NEW now, Holds(pg, b, D, now), NEW d \in ObjectsOf(b), CreateOf(d) \notin D, Ready(b, D, CreateOf(d), d)
  PROVE  CreateAccepts(now, d.name, Bare(d.spec))
<1>1. IsDatabase(db) /\ IsBundle(b) /\ Distinct(b) BY DEF Exportable, ExportIs
<1>2. d.name \notin Declared(now) BY <1>1, CreateStep
<1>3. d.name \in Declared(db) /\ d.spec = db.specs[d.name] BY <1>1, ObjectParts
<1>4. IsDeclaration(db, d.name) /\ d.spec \in Schemas BY <1>1, <1>3 DEF IsDatabase, IsDeclaration
<1>5. Bare(d.spec).op = d.spec.op /\ Bare(d.spec).source = d.spec.source /\ Bare(d.spec).target = d.spec.target
  BY <1>4 DEF Bare, Schemas
<1>6. ASSUME IsEdge(d.spec), NEW end \in {d.spec.source, d.spec.target}
      PROVE  end \in Declared(now) /\ ~IsEdge(now.specs[end])
  <2>1. end \in Declared(db) /\ ~IsEdge(db.specs[end]) BY <1>3, <1>6 DEF EndsDeclared
  <2> DEFINE e == ObjectOf(db, fpg, end)
  <2>2. e \in ObjectsOf(b) /\ e.name = end /\ e.spec = db.specs[end] BY <2>1, ExportedObject
  <2> HIDE DEF e
  <2>3. CreateOf(e) \in D BY <1>6, <2>1, <2>2 DEF Ready, Statements
  <2>4. end \in Declared(now) BY <2>2, <2>3 DEF Holds, Made
  <2>5. now.specs[end].op = db.specs[end].op BY <1>1, <2>4, MadeOfExport
  <2> QED BY <2>1, <2>4, <2>5 DEF IsEdge
<1> QED BY <1>2, <1>5, <1>6 DEF CreateAccepts, IsEdge

(* Once all of an endpoint is done, its IDs are those of the source.        *)
LEMMA EndpointMade ==
  ASSUME NEW db, NEW fpg \in BOOLEAN, Exportable(db, fpg), NEW b, ExportIs(db, fpg, b), NEW pg, NEW D, NEW now,
         Holds(pg, b, D, now), NEW end \in Declared(db), Statements(ObjectOf(db, fpg, end)) \subseteq D
  PROVE  IdsOf(db.rows[end]) \subseteq IdsOf(now.rows[end])
<1> DEFINE e == ObjectOf(db, fpg, end)
<1>0. Statements(e) \subseteq D OBVIOUS
<1>1. IsDatabase(db) /\ IsBundle(b) BY DEF Exportable, ExportIs
<1>2. e \in ObjectsOf(b) /\ e.name = end /\ e.spec = db.specs[end] BY ExportedObject
<1> HIDE DEF e
<1>3. /\ e.rows = {Written(fpg, r) : r \in db.rows[end]} /\ \A r \in db.rows[end] : Fits(e.spec, r)
      /\ \A r \in e.rows : Fits(e.spec, r)
  <2>1. /\ e.rows = {Written(fpg, r) : r \in db.rows[e.name]} /\ \A r \in db.rows[e.name] : Fits(e.spec, r)
    BY <1>1, <1>2, ObjectParts
  <2>2. IsObject(e) BY <1>1, <1>2 DEF IsBundle
  <2>3. \A r \in e.rows : Fits(e.spec, r) BY <2>2 DEF IsObject
  <2> QED BY <1>2, <2>1, <2>3
<1>4. CreateOf(e) \in D /\ RowsDone(D, e) = e.rows BY <1>0 DEF RowsDone, Statements, RowsOf
<1>5. now.rows[end] = {Stored(pg, r) : r \in e.rows} BY <1>2, <1>4 DEF Holds, Made
<1>6. ASSUME NEW x \in db.rows[end] PROVE x[1] \in IdsOf(now.rows[end])
  <2>1. HasNumber(x) => Portable(Decoded(fpg, x[4])) BY DEF Exportable, NumbersPortable
  <2>2. Written(fpg, x)[1] = x[1] /\ Written(fpg, x) \in e.rows BY <1>3, <2>1, WrittenFits, ZenonT(30)
  <2>3. Stored(pg, Written(fpg, x))[1] = x[1] /\ Stored(pg, Written(fpg, x)) \in now.rows[end]
    BY <1>3, <1>5, <2>2, StoredKeepsID
  <2> QED BY <2>3 DEF IdsOf
<1> QED BY <1>6 DEF IdsOf

(* A row of an export is accepted: no row has its ID yet, its number is     *)
(* portable, and the endpoints of an edge are there because they were in    *)
(* the source, which the foreign-key check has seen.                        *)
LEMMA RowAccepted ==
  ASSUME NEW db, NEW fpg \in BOOLEAN, Exportable(db, fpg), EndsDeclared(db), NEW b, ExportIs(db, fpg, b),
         NEW pg, NEW D, NEW now, Holds(pg, b, D, now), NEW d \in ObjectsOf(b), NEW row \in d.rows, <<"row", d.name, row>> \notin D,
         Ready(b, D, <<"row", d.name, row>>, d)
  PROVE  RowAccepts(now, d.name, row)
<1> DEFINE n == d.name
<1>1. IsDatabase(db) /\ IsBundle(b) /\ Distinct(b) BY DEF Exportable, ExportIs
<1>2. /\ n \in Declared(db) /\ d.spec = db.specs[n] /\ d.rows = {Written(fpg, r) : r \in db.rows[n]}
      /\ \A r \in db.rows[n] : Fits(d.spec, r)
  BY <1>1, ObjectParts
<1>3. CreateOf(d) \in D BY DEF Ready, CreateOf
<1>4. d \in Made(b, D) /\ n \in Declared(now) BY <1>3 DEF Holds, Made
<1>5. /\ now.rows[n] = {Stored(pg, r) : r \in RowsDone(D, d)}
      /\ now.specs[n].op = d.spec.op /\ now.specs[n].source = d.spec.source /\ now.specs[n].target = d.spec.target
  <2>1. now.rows[d.name] = {Stored(pg, r) : r \in RowsDone(D, d)} BY <1>4 DEF Holds
  <2> HIDE DEF n
  <2>2. /\ now.specs[n].op = db.specs[n].op /\ now.specs[n].source = db.specs[n].source
        /\ now.specs[n].target = db.specs[n].target
    BY <1>1, <1>4, MadeOfExport
  <2> QED BY <1>2, <2>1, <2>2 DEF n
<1>6. RowsDone(D, d) \subseteq d.rows /\ row \notin RowsDone(D, d) BY DEF RowsDone
<1>7. \A r \in d.rows : Fits(d.spec, r) BY DEF IsBundle, IsObject, ExportIs
<1>8. \A r \in db.rows[n] : HasNumber(r) => Portable(Decoded(fpg, r[4])) BY <1>2 DEF Exportable, NumbersPortable
<1>9. PICK x \in db.rows[n] : row = Written(fpg, x) BY <1>2
<1>10. IsDeclaration(db, n) BY <1>1, <1>2 DEF IsDatabase
<1>11. IsEdge(now.specs[n]) <=> IsEdge(d.spec) BY <1>5 DEF IsEdge
<1>100. Ready(b, D, <<"row", n, row>>, d) OBVIOUS
<1> HIDE DEF n
<1>12. CASE IsEdge(d.spec)
  <2>1. row \notin now.rows[n] BY <1>5, <1>6, <1>7, <1>12, EdgeRow
  <2>2. EndpointsThere(db, n, row)
    <3>1. row = x BY <1>2, <1>9, <1>12, EdgeWritten
    <3> QED BY <1>2, <1>9, <1>12, <3>1 DEF Exportable, ForeignKeyCheck
  <2>3. ASSUME NEW end \in {d.spec.source, d.spec.target}
        PROVE  IdsOf(db.rows[end]) \subseteq IdsOf(now.rows[end])
    <3>1. end \in Declared(db) /\ ~IsEdge(db.specs[end]) BY <1>2, <1>12 DEF EndsDeclared
    <3>2. /\ ObjectOf(db, fpg, end) \in ObjectsOf(b) /\ ObjectOf(db, fpg, end).spec = db.specs[end]
      BY <3>1, ExportedObject
    <3>3. Statements(ObjectOf(db, fpg, end)) \subseteq D BY <1>12, <1>100, <3>1, <3>2 DEF Ready
    <3> QED BY <3>1, <3>3, EndpointMade
  <2>4. EndpointsThere(now, n, row) BY <1>2, <1>5, <2>2, <2>3 DEF EndpointsThere
  <2> QED BY <1>11, <1>12, <2>1, <2>4 DEF RowAccepts, n
<1>13. CASE ~IsEdge(d.spec)
  <2>1. x[2] >= 1 /\ \A r, s \in db.rows[n] : r[1] = s[1] => r = s BY <1>2, <1>9, <1>10, <1>13 DEF IsDeclaration
  <2>2. row[1] = x[1] /\ row[2] = x[2] /\ Portable(Decoded(FALSE, row[4]))
    <3>1. Fits(d.spec, x) /\ (HasNumber(x) => Portable(Decoded(fpg, x[4]))) BY <1>2, <1>8, <1>9
    <3> QED BY <1>9, <1>13, <3>1, WrittenFits, ZenonT(30)
  <2>3. ASSUME NEW r \in RowsDone(D, d), Stored(pg, r)[1] = row[1] PROVE FALSE
    <3>1. r \in d.rows /\ r # row BY <1>6
    <3>2. r[1] = row[1] BY <1>7, <2>3, <3>1, StoredKeepsID
    <3>3. PICK y \in db.rows[n] : r = Written(fpg, y) BY <1>2, <3>1
    <3>4. y[1] = r[1]
      <4>1. Fits(d.spec, y) /\ (HasNumber(y) => Portable(Decoded(fpg, y[4]))) BY <1>2, <1>8, <3>3
      <4> QED BY <3>3, <4>1, WrittenFits
    <3>5. y = x BY <1>9, <2>1, <2>2, <3>2, <3>3, <3>4
    <3> QED BY <1>9, <3>1, <3>3, <3>5
  <2>4. row[1] \notin IdsOf(now.rows[n]) BY <1>5, <2>3 DEF IdsOf
  <2> QED BY <1>11, <1>13, <2>1, <2>2, <2>4 DEF RowAccepts, n
<1> QED BY <1>12, <1>13

(* Rows that obey the rules in the source obey them in the destination,     *)
(* also when fewer of them have come.                                       *)
LEMMA RuleCarries ==
  ASSUME NEW db, NEW fpg \in BOOLEAN, Exportable(db, fpg), NEW b, ExportIs(db, fpg, b), NEW pg, NEW D, NEW now,
         Holds(pg, b, D, now), NEW n \in Declared(now), db.specs[n].rules # {}
  PROVE  RuleHolds(now, n)
<1> DEFINE d == ObjectOf(db, fpg, n)
<1>1. IsDatabase(db) /\ IsBundle(b) BY DEF Exportable, ExportIs
<1>2. n \in Declared(db) /\ d \in Made(b, D) /\ now.rows[n] = {Stored(pg, r) : r \in RowsDone(D, d)}
  BY <1>1, MadeOfExport
<1>3. d \in ObjectsOf(b) /\ d.name = n /\ d.spec = db.specs[n] BY <1>2, ExportedObject
<1> HIDE DEF d
<1>4. d.rows = {Written(fpg, r) : r \in db.rows[n]} /\ \A r \in db.rows[n] : Fits(d.spec, r)
  BY <1>1, <1>3, ObjectParts
<1>5. ~IsEdge(d.spec) BY <1>1, <1>2, <1>3 DEF IsDatabase, IsDeclaration
<1>6. RuleHolds(db, n) BY <1>2 DEF Exportable, DataObeysRules
<1>7. ASSUME NEW r \in RowsDone(D, d) PROVE Stored(pg, r)[3]
  <2>1. PICK x \in db.rows[n] : r = Written(fpg, x) BY <1>4 DEF RowsDone
  <2>2. Fits(d.spec, x) /\ (HasNumber(x) => Portable(Decoded(fpg, x[4])))
    BY <1>2, <1>4, <2>1 DEF Exportable, NumbersPortable
  <2>3. Fits(d.spec, r) /\ r[3] = x[3] BY <1>5, <2>1, <2>2, WrittenFits, ZenonT(30)
  <2>4. Stored(pg, r) = <<r[1], r[2], r[3], Imported(pg, r[4])>> BY <1>5, <2>3, RecordRow
  <2>5. Stored(pg, r)[3] = r[3] BY <2>4
  <2>6. x[3] BY <1>6, <2>1 DEF RuleHolds
  <2> QED BY <2>3, <2>5, <2>6
<1> QED BY <1>2, <1>7 DEF RuleHolds

(* Every statement of an export's import is accepted, where the ends of its  *)
(* relationships are declared.                                              *)
LEMMA ExportAccepted ==
  ASSUME toPg \in BOOLEAN, NEW db, NEW fpg \in BOOLEAN, Exportable(db, fpg), EndsDeclared(db), NEW b, ExportIs(db, fpg, b),
         NEW k \in Nat, k < Len(Plan(b)), NEW now, Progress(toPg, b, k, now)
  PROVE  Accepts(now, Plan(b)[k + 1])
<1> DEFINE n == Len(ObjectPart(b))  m == Len(b.log)  P == Plan(b)  s == P[k + 1]  D == Done(b, k)
<1>1. IsDatabase(db) /\ IsBundle(b) /\ Distinct(b) BY DEF Exportable, ExportIs
<1>2. /\ n \in Nat /\ m \in Nat /\ Len(P) = n + m + 1
      /\ \A i \in 1..n : P[i] = ObjectPart(b)[i]
      /\ \A i \in 1..m : P[n + i] = <<"revision", b.log[i]>>
      /\ P[n + m + 1] = <<"check">>
  BY <1>1, PlanParts
<1>3. Holds(toPg, b, D, now) /\ Recorded(b, Entered(b, k), now) /\ Keeps(toPg, now)
  BY DEF Progress
<1>4. b.log = db.log /\ b.log \in Seq(Range(b.log)) /\ \A i \in DOMAIN b.log : b.log[i].id \in Nat
  BY <1>1 DEF ExportIs, IsBundle
<1>41. DOMAIN b.log = 1..m /\ k < Len(P) BY <1>4
<1> HIDE DEF n, m, P, D
<1>5. CASE k < n
  <2>1. s = ObjectPart(b)[k + 1] BY <1>2, <1>5
  <2>2. s \notin D BY <1>1, <1>5, <2>1, NextStatement DEF n, D
  <2>3. PICK d \in ObjectsOf(b) : Ready(b, D, s, d) BY <1>1, <1>5, <2>1, NextStatement DEF n, D
  <2> HIDE DEF s
  <2>4. /\ s[2] = d.name /\ s[1] \in {"create", "row", "rule"}
        /\ s[1] = "create" => s = CreateOf(d)
        /\ s[1] = "row" => s = <<"row", d.name, s[3]>> /\ s[3] \in d.rows
        /\ s[1] = "rule" => s = <<"rule", d.name, s[3]>> /\ s[3] \in d.spec.rules
    BY <2>3, StatementNames DEF Ready
  <2>5. CASE s[1] = "create"
    <3>1. s = CreateOf(d) /\ s[3] = Bare(d.spec) BY <2>4, <2>5 DEF CreateOf
    <3>2. CreateAccepts(now, d.name, Bare(d.spec)) BY <1>3, <2>2, <2>3, <3>1, CreateAccepted
    <3> QED BY <2>4, <2>5, <3>1, <3>2 DEF Accepts, s, P
  <2>6. CASE s[1] = "row"
    <3> DEFINE row == s[3]
    <3>1. s = <<"row", d.name, row>> /\ row \in d.rows BY <2>4, <2>6
    <3> HIDE DEF row
    <3>2. RowAccepts(now, d.name, row) BY <1>3, <2>2, <2>3, <3>1, RowAccepted
    <3> QED BY <2>4, <2>6, <3>2 DEF Accepts, s, P, row
  <2>7. CASE s[1] = "rule"
    <3>1. s[3] \in d.spec.rules /\ s # CreateOf(d) BY <2>4, <2>7 DEF CreateOf
    <3>2. d.name \in Declared(now) BY <1>3, <2>3, <3>1 DEF Ready, Holds, Made
    <3>3. db.specs[d.name].rules # {} BY <1>1, <3>1, ObjectParts
    <3>4. RuleHolds(now, d.name) BY <1>3, <3>2, <3>3, RuleCarries
    <3> QED BY <2>4, <2>7, <3>4 DEF Accepts, s, P
  <2> QED BY <2>4, <2>5, <2>6, <2>7
<1>6. CASE n <= k /\ k < n + m
  <2> DEFINE j == k - n
  <2>1. j \in Nat /\ j < m /\ k + 1 = n + (j + 1) /\ j + 1 \in 1..m BY <1>2, <1>6
  <2>2. Entered(b, k) = j BY <1>2, <1>6 DEF Entered, n, m
  <2> HIDE DEF j
  <2>3. s = <<"revision", b.log[j + 1]>> BY <1>2, <2>1
  <2>4. Recorded(b, j, now) BY <1>3, <2>2
  <2>5. Increasing(b.log) BY <1>1, <1>4 DEF IsDatabase
  <2>6. \A i \in 1..j : b.log[i].id < b.log[j + 1].id
    <3>1. \A i \in 1..j : i \in DOMAIN b.log /\ i < j + 1 /\ j + 1 \in DOMAIN b.log BY <1>2, <1>41, <2>1
    <3>2. \A i, l \in DOMAIN b.log : i < l => b.log[i].id < b.log[l].id BY <1>4, <2>5, EarlierIDs
    <3> QED BY <3>1, <3>2
  <2>7. ASSUME NEW e \in Range(now.log) PROVE e.id # b.log[j + 1].id
    <3>1. DOMAIN now.log = 1..j /\ \A i \in 1..j : now.log[i] = b.log[i] BY <2>4 DEF Recorded
    <3>2. PICK i \in 1..j : e = b.log[i] BY <2>7, <3>1 DEF Range
    <3>3. b.log[i].id < b.log[j + 1].id /\ b.log[i].id \in Nat /\ b.log[j + 1].id \in Nat
      <4>1. i \in DOMAIN b.log /\ j + 1 \in DOMAIN b.log BY <1>2, <1>41, <2>1
      <4> QED BY <1>4, <2>6, <4>1
    <3> DEFINE x == b.log[i].id  y == b.log[j + 1].id
    <3>4. x < y /\ x \in Nat /\ y \in Nat BY <3>3
    <3> HIDE DEF x, y
    <3>5. x # y BY <3>4
    <3> QED BY <3>2, <3>5 DEF x, y
  <2> QED BY <2>3, <2>7 DEF Accepts, P
<1>7. CASE k = n + m
  <2>1. s = <<"check">> BY <1>2, <1>7
  <2>2. RevisionsSealed(now)
    <3>1. Range(now.log) \subseteq Range(b.log)
      BY <1>3 DEF Recorded, Range
    <3> QED BY <1>4, <3>1 DEF Exportable, RevisionsSealed
  <2>3. StructureMatches(now) /\ ForeignKeyCheck(now) /\ EndsDeclared(now) BY <1>3 DEF Holds, Keeps
  <2>4. DataObeysRules(now)
    <3>1. ASSUME NEW x \in Declared(now), now.specs[x].rules # {} PROVE RuleHolds(now, x)
      <4>1. db.specs[x].rules # {} BY <1>1, <1>3, <3>1, MadeOfExport
      <4> QED BY <1>3, <4>1, RuleCarries
    <3> QED BY <3>1 DEF DataObeysRules
  <2>5. Check(now, toPg) BY <2>2, <2>3, <2>4 DEF Check, StructureMatches
  <2> QED BY <2>1, <2>5 DEF Accepts, P
<1> QED BY <1>2, <1>41, <1>5, <1>6, <1>7 DEF P

(* An import of an export that is complete has restored it.                  *)
Restores(pg, now, fpg, db) ==
  /\ now = [db EXCEPT !.made = TRUE, !.rows = now.rows]
  /\ \A n \in Range(Names) : Reading(pg, now.rows[n]) = Reading(fpg, db.rows[n])

LEMMA Restored ==
  ASSUME NEW pg \in BOOLEAN, NEW db, NEW fpg \in BOOLEAN, Exportable(db, fpg), NEW b, ExportIs(db, fpg, b),
         NEW now, Complete(pg, b, now)
  PROVE  Restores(pg, now, fpg, db)
<1>1. IsDatabase(db) /\ IsBundle(b) /\ Distinct(b) /\ b.log = db.log BY DEF Exportable, ExportIs
<1>2. Declared(now) = Declared(db)
  <2>1. \A d \in ObjectsOf(b) : d.name \in Declared(db) BY <1>1, ObjectParts
  <2>2. \A n \in Declared(db) : \E d \in ObjectsOf(b) : d.name = n BY ExportedObject
  <2> QED BY <2>1, <2>2 DEF Complete, AllMade
<1>3. ASSUME NEW n \in Declared(db)
      PROVE  /\ now.specs[n] = db.specs[n]
             /\ now.rows[n] = {Stored(pg, r) : r \in ObjectOf(db, fpg, n).rows}
  BY ExportedObject DEF Complete, AllMade
<1>4. now.specs = db.specs
  <2>1. now.specs = [n \in Declared(now) |-> now.specs[n]] /\ db.specs = [n \in Declared(db) |-> db.specs[n]]
    BY <1>1 DEF Complete, IsRecord, IsDatabase
  <2> QED BY <1>2, <1>3, <2>1
<1>5. now.tables = db.tables /\ now.guards = db.guards /\ now.triggers = db.triggers
  <2>1. StructureMatches(now) /\ StructureMatches(db) BY DEF Complete, Exportable
  <2>2. now.triggers = FALSE /\ db.triggers = FALSE
    <3>1. db.triggers \in BOOLEAN BY <1>1 DEF IsDatabase
    <3> QED BY <2>1, <3>1 DEF StructureMatches
  <2> QED BY <1>2, <1>4, <2>1, <2>2 DEF StructureMatches
<1>6. now.log = db.log BY <1>1 DEF Complete
<1>7. now = [db EXCEPT !.made = TRUE, !.rows = now.rows]
  <2>1. db = DbOf(db.made, db.specs, db.tables, db.guards, db.triggers, db.rows, db.log) BY <1>1 DEF IsDatabase, DbOf
  <2>2. now = DbOf(TRUE, now.specs, now.tables, now.guards, now.triggers, now.rows, now.log)
    BY DEF Complete, IsRecord, DbOf
  <2>3. [db EXCEPT !.made = TRUE, !.rows = now.rows] =
          DbOf(TRUE, db.specs, db.tables, db.guards, db.triggers, now.rows, db.log)
    BY <2>1, WithRows
  <2> QED BY <1>4, <1>5, <1>6, <2>2, <2>3
<1>8. ASSUME NEW n \in Range(Names) PROVE Reading(pg, now.rows[n]) = Reading(fpg, db.rows[n])
  <2>1. CASE n \notin Declared(db)
    <3>1. now.rows[n] = {} /\ db.rows[n] = {} BY <1>1, <1>2, <2>1 DEF Complete, IsDatabase
    <3> QED BY <3>1 DEF Reading
  <2>2. CASE n \in Declared(db)
    <3> DEFINE spec == db.specs[n]  rows == db.rows[n]
               Read(p, r) == IF HasNumber(r) THEN [r EXCEPT ![4] = Decoded(p, @)] ELSE r
    <3>1. /\ IsFiniteSet(rows) /\ \A r \in rows : Fits(spec, r)
          /\ \A r \in rows : HasNumber(r) => Portable(Decoded(fpg, r[4]))
      BY <1>1, <2>2 DEF IsDatabase, IsDeclaration, Exportable, NumbersPortable
    <3>2. now.rows[n] = {Stored(pg, r) : r \in ExportedRows(fpg, rows)} BY <1>3, <2>2 DEF ObjectOf
    <3> HIDE DEF spec, rows
    <3>3. now.rows[n] = {Stored(pg, Written(fpg, r)) : r \in rows} BY <3>1, <3>2, RowsWritten
    <3>4. ASSUME NEW r \in rows PROVE Read(pg, Stored(pg, Written(fpg, r))) = Read(fpg, r)
      <4>1. CASE IsEdge(spec)
        <5>1. Stored(pg, Written(fpg, r)) = r /\ ~HasNumber(r) BY <3>1, <4>1, EdgeRow, EdgeWritten
        <5> QED BY <5>1
      <4>2. CASE ~IsEdge(spec)
        <5> DEFINE w == Written(fpg, r)  v == Stored(pg, w)
        <5>1. /\ r = <<r[1], r[2], r[3], r[4]>> /\ HasNumber(r) /\ w = <<r[1], r[2], r[3], Exported(fpg, r[4])>>
              /\ Fits(spec, w) /\ Decoded(FALSE, w[4]) = Decoded(fpg, r[4]) /\ Portable(Decoded(fpg, r[4]))
          BY <3>1, <4>2, RecordRow, RecordWritten, WrittenFits
        <5> HIDE DEF w
        <5>2. HasNumber(w) /\ w[4] \in Literals /\ v = <<w[1], w[2], w[3], Imported(pg, w[4])>>
          BY <4>2, <5>1, RecordRow
        <5> HIDE DEF v
        <5>3. w[1] = r[1] /\ w[2] = r[2] /\ w[3] = r[3] BY <5>1
        <5>4. Decoded(pg, Imported(pg, w[4])) = Decoded(fpg, r[4]) BY <5>1, <5>2, NumberStored
        <5>5. v = <<v[1], v[2], v[3], v[4]>> /\ Len(v) = 4 /\ v[1] = r[1] /\ v[2] = r[2] /\ v[3] = r[3]
              /\ v[4] = Imported(pg, w[4])
          BY <5>2, <5>3
        <5>6. [v EXCEPT ![4] = Decoded(pg, @)] = <<r[1], r[2], r[3], Decoded(pg, v[4])>> BY <5>5, ReplacedNumber
        <5>7. [r EXCEPT ![4] = Decoded(fpg, @)] = <<r[1], r[2], r[3], Decoded(fpg, r[4])>> BY <5>1, ReplacedNumber
        <5>8. HasNumber(v) BY <5>5 DEF HasNumber
        <5>9. Read(pg, v) = Read(fpg, r) BY <5>1, <5>4, <5>5, <5>6, <5>7, <5>8
        <5> QED BY <5>9 DEF v, w
      <4> QED BY <4>1, <4>2
    <3>5. Reading(pg, now.rows[n]) = {Read(pg, x) : x \in now.rows[n]} BY DEF Reading
    <3>6. Reading(fpg, rows) = {Read(fpg, x) : x \in rows} BY DEF Reading
    <3> HIDE DEF Read
    <3>7. {Read(pg, x) : x \in now.rows[n]} = {Read(fpg, x) : x \in rows} BY <3>3, <3>4
    <3> QED BY <3>5, <3>6, <3>7 DEF rows
  <2> QED BY <2>1, <2>2
<1> QED BY <1>7, <1>8, Zenon DEF Restores

-----------------------------------------------------------------------------
(* What an editor leaves is a bundle still.                                  *)
IsEntry(e) == e = [id |-> e.id, ops |-> e.ops, sealed |-> e.sealed] /\ e.id \in Nat

BundleOf(sealed, log, objects) == [sealed |-> sealed, log |-> log, objects |-> objects]

(* A bundle put together of parts that are well shaped is well shaped.      *)
LEMMA BundleFrom ==
  ASSUME NEW Y, \A y \in Y : IsObject(y), NEW objects \in Seq(Y),
         NEW Z, \A z \in Z : IsEntry(z), NEW log \in Seq(Z), NEW sealed
  PROVE  IsBundle(BundleOf(sealed, log, objects))
<1> DEFINE b == BundleOf(sealed, log, objects)
<1>1. b.sealed = sealed /\ b.log = log /\ b.objects = objects /\ b = [sealed |-> b.sealed, log |-> b.log, objects |-> b.objects]
  BY DEF BundleOf
<1> HIDE DEF b
<1>2. /\ DOMAIN objects = 1..Len(objects) /\ Len(objects) \in Nat /\ \A i \in 1..Len(objects) : objects[i] \in Y
      /\ objects = [i \in 1..Len(objects) |-> objects[i]]
  OBVIOUS
<1>3. objects \in Seq(ObjectsOf(b)) /\ ObjectsOf(b) \subseteq Y
  <2>1. \A i \in 1..Len(objects) : objects[i] \in ObjectsOf(b) BY <1>1, <1>2 DEF ObjectsOf
  <2>2. objects \in [1..Len(objects) -> ObjectsOf(b)] BY <1>2, <2>1
  <2>3. objects \in Seq(ObjectsOf(b)) BY <1>2, <2>2, IsSeq
  <2> QED BY <1>1, <1>2, <2>3 DEF ObjectsOf
<1>4. /\ DOMAIN log = 1..Len(log) /\ Len(log) \in Nat /\ \A i \in 1..Len(log) : log[i] \in Z
      /\ log = [i \in 1..Len(log) |-> log[i]]
  OBVIOUS
<1>5. log \in Seq(Range(log))
  <2>1. \A i \in 1..Len(log) : log[i] \in Range(log) BY <1>4 DEF Range
  <2>2. log \in [1..Len(log) -> Range(log)] BY <1>4, <2>1
  <2> QED BY <1>4, <2>2, IsSeq
<1>6. IsBundle(b) BY <1>1, <1>3, <1>4, <1>5 DEF IsBundle, IsEntry
<1> QED BY <1>6 DEF b

ObjectWith(name, spec, rows, sealed) == [name |-> name, spec |-> spec, rows |-> rows, sealed |-> sealed]

(* An edited object has the shape of an object.                             *)
LEMMA EditedObjects ==
  ASSUME NEW d, IsObject(d)
  PROVE  /\ IsObject([d EXCEPT !.sealed = FALSE]) /\ IsObject([d EXCEPT !.spec.rules = {}])
         /\ \A n \in Range(Names) : IsObject([d EXCEPT !.spec.target = n])
         /\ \A r : Fits(d.spec, r) => IsObject([d EXCEPT !.rows = @ \cup {r}])
<1>1. /\ d = [name |-> d.name, spec |-> d.spec, rows |-> d.rows, sealed |-> d.sealed]
      /\ d.name \in Range(Names) /\ d.spec \in Schemas
      /\ IsFiniteSet(d.rows) /\ IsFiniteSet(d.spec.rules) /\ \A r \in d.rows : Fits(d.spec, r)
  BY DEF IsObject
<1>2. IsFiniteSet({}) BY FS_EmptySet
<1>3. ASSUME NEW e, NEW spec \in Schemas, spec.op = d.spec.op, IsFiniteSet(spec.rules), NEW sealed,
             NEW rows, IsFiniteSet(rows), \A r \in rows : Fits(d.spec, r),
             e = [name |-> d.name, spec |-> spec, rows |-> rows, sealed |-> sealed]
      PROVE  IsObject(e)
  <2>1. e.name = d.name /\ e.spec = spec /\ e.rows = rows /\ e.sealed = sealed BY <1>3
  <2>2. \A r \in rows : Fits(spec, r) BY <1>3 DEF Fits, IsEdge
  <2> QED BY <1>1, <1>3, <2>1, <2>2 DEF IsObject
<1>4. IsObject([d EXCEPT !.sealed = FALSE])
  <2>1. \A x : [d EXCEPT !.sealed = x] = [name |-> d.name, spec |-> d.spec, rows |-> d.rows, sealed |-> x] BY <1>1
  <2>2. \A x : IsObject([d EXCEPT !.sealed = x]) BY <1>1, <1>3, <2>1
  <2> QED BY <2>2
<1>5. ASSUME NEW spec \in Schemas, spec.op = d.spec.op, IsFiniteSet(spec.rules) PROVE IsObject([d EXCEPT !.spec = spec])
  <2>1. [d EXCEPT !.spec = spec] = [name |-> d.name, spec |-> spec, rows |-> d.rows, sealed |-> d.sealed] BY <1>1
  <2> QED BY <1>1, <1>3, <1>5, <2>1
<1>6. IsObject([d EXCEPT !.spec.rules = {}])
  <2> DEFINE spec == [d.spec EXCEPT !.rules = {}]
  <2>1. spec \in Schemas /\ spec.op = d.spec.op /\ spec.rules = {} BY <1>1 DEF Schemas
  <2>2. [d EXCEPT !.spec.rules = {}] = [d EXCEPT !.spec = spec] OBVIOUS
  <2> HIDE DEF spec
  <2> QED BY <1>2, <1>5, <2>1, <2>2
<1>7. ASSUME NEW n \in Range(Names) PROVE IsObject([d EXCEPT !.spec.target = n])
  <2> DEFINE spec == [d.spec EXCEPT !.target = n]
  <2>1. spec \in Schemas /\ spec.op = d.spec.op /\ spec.rules = d.spec.rules BY <1>1 DEF Schemas
  <2>2. [d EXCEPT !.spec.target = n] = [d EXCEPT !.spec = spec] OBVIOUS
  <2> HIDE DEF spec
  <2> QED BY <1>1, <1>5, <2>1, <2>2
<1>8. ASSUME NEW r, Fits(d.spec, r) PROVE IsObject([d EXCEPT !.rows = @ \cup {r}])
  <2> DEFINE rows == d.rows \cup {r}
  <2>1. IsFiniteSet(rows) /\ \A x \in rows : Fits(d.spec, x) BY <1>1, <1>8, FS_AddElement
  <2>2. [d EXCEPT !.rows = @ \cup {r}] = [name |-> d.name, spec |-> d.spec, rows |-> rows, sealed |-> d.sealed] BY <1>1, SMTT(30)
  <2> HIDE DEF rows
  <2> QED BY <1>1, <1>3, <2>1, <2>2
<1> QED BY <1>4, <1>6, <1>7, <1>8

(* Every edit gives a bundle, checksums and names aside.                    *)
LEMMA EditedBundles ==
  ASSUME NEW b, IsBundle(b), \A d \in ObjectsOf(b) : \A r \in StrayRows[d.name] : Fits(d.spec, r),
         NEW c \in Edits(b)
  PROVE  IsBundle(c)
<1> DEFINE Y == ObjectsOf(b)  Z == Range(b.log)  n == Len(b.objects)
<1>1. /\ b = BundleOf(b.sealed, b.log, b.objects) /\ b.objects \in Seq(Y) /\ \A d \in Y : IsObject(d)
      /\ b.log \in Seq(Z) /\ \A e \in Z : IsEntry(e)
  BY DEF IsBundle, BundleOf, IsEntry, Range
<1>2. DOMAIN b.objects = 1..n /\ n \in Nat /\ \A i \in DOMAIN b.objects : b.objects[i] \in Y
  BY <1>1
<1>3. DOMAIN b.log = 1..Len(b.log) /\ Len(b.log) \in Nat /\ \A i \in DOMAIN b.log : b.log[i] \in Z BY <1>1
<1> HIDE DEF Y, Z, n
<1>4. ASSUME NEW X, NEW objects \in Seq(X), \A d \in X : IsObject(d), c = [b EXCEPT !.objects = objects] PROVE IsBundle(c)
  <2>1. c = BundleOf(b.sealed, b.log, objects) BY <1>1, <1>4 DEF BundleOf
  <2> QED BY <1>1, <1>4, <2>1, BundleFrom
<1>5. ASSUME NEW X, NEW log \in Seq(X), \A e \in X : IsEntry(e), c = [b EXCEPT !.log = log] PROVE IsBundle(c)
  <2>1. c = BundleOf(b.sealed, log, b.objects) BY <1>1, <1>5 DEF BundleOf
  <2> QED BY <1>1, <1>5, <2>1, BundleFrom, SMTT(30)
<1>6. ASSUME NEW i \in DOMAIN b.objects, NEW o, IsObject(o), c = [b EXCEPT !.objects[i] = o] PROVE IsBundle(c)
  <2> DEFINE objects == [b.objects EXCEPT ![i] = o]  X == Y \cup {o}
  <2>1. objects \in [1..n -> X] BY <1>1, <1>2
  <2>2. c = [b EXCEPT !.objects = objects] BY <1>6
  <2> HIDE DEF objects
  <2>3. objects \in Seq(X) /\ \A d \in X : IsObject(d) BY <1>1, <1>2, <1>6, <2>1, IsSeq
  <2> HIDE DEF X
  <2> QED BY <1>4, <2>2, <2>3
<1>7. ASSUME NEW i \in DOMAIN b.log, NEW e, IsEntry(e), c = [b EXCEPT !.log[i] = e] PROVE IsBundle(c)
  <2> DEFINE log == [b.log EXCEPT ![i] = e]  X == Z \cup {e}
  <2>1. log \in [1..Len(b.log) -> X] BY <1>1, <1>3
  <2>2. c = [b EXCEPT !.log = log] BY <1>7
  <2> HIDE DEF log
  <2>3. log \in Seq(X) /\ \A x \in X : IsEntry(x) BY <1>1, <1>3, <1>7, <2>1, IsSeq
  <2> HIDE DEF X
  <2> QED BY <1>5, <2>2, <2>3
<1>8. CASE c = [b EXCEPT !.sealed = FALSE]
  <2>1. c = BundleOf(FALSE, b.log, b.objects) BY <1>1, <1>8 DEF BundleOf
  <2> QED BY <1>1, <2>1, BundleFrom
<1>9. ASSUME NEW i \in DOMAIN b.objects, c = [b EXCEPT !.objects = RemoveAt(@, i)] PROVE IsBundle(c)
  <2>1. RemoveAt(b.objects, i) \in Seq(Y)
    <3>1. \A k \in 1..(i - 1) : k \in 1..n BY <1>2
    <3>2. \A k \in (i + 1)..n : k \in 1..n BY <1>2
    <3>3. SubSeq(b.objects, 1, i - 1) \in Seq(Y) BY <1>1, <1>2, <3>1
    <3>4. SubSeq(b.objects, i + 1, Len(b.objects)) \in Seq(Y) BY <1>1, <1>2, <3>2 DEF n
    <3> QED BY <3>3, <3>4, ConcatParts DEF RemoveAt
  <2> QED BY <1>1, <1>4, <1>9, <2>1
<1>10. ASSUME NEW i \in DOMAIN b.objects, c = [b EXCEPT !.objects = Append(@, b.objects[i])] PROVE IsBundle(c)
  <2>1. Append(b.objects, b.objects[i]) \in Seq(Y) BY <1>1, <1>2
  <2> QED BY <1>1, <1>4, <1>10, <2>1
<1>11. ASSUME NEW i \in DOMAIN b.log, c = [b EXCEPT !.log = Append(@, b.log[i])] PROVE IsBundle(c)
  <2>1. Append(b.log, b.log[i]) \in Seq(Z) BY <1>1, <1>3
  <2> QED BY <1>1, <1>5, <1>11, <2>1
<1>12. ASSUME NEW i \in DOMAIN b.log, c = [b EXCEPT !.log[i].sealed = FALSE] \/ c = [b EXCEPT !.log[i].id = 9]
       PROVE  IsBundle(c)
  <2> DEFINE e == b.log[i]  f == [e EXCEPT !.sealed = FALSE]  g == [e EXCEPT !.id = 9]
  <2>1. e = [id |-> e.id, ops |-> e.ops, sealed |-> e.sealed] /\ e.id \in Nat BY <1>1, <1>3 DEF IsEntry
  <2>2. c = [b EXCEPT !.log[i] = f] \/ c = [b EXCEPT !.log[i] = g] BY <1>12
  <2> HIDE DEF e
  <2>3. IsEntry(f) /\ IsEntry(g)
    <3>1. \A x : [e EXCEPT !.sealed = x] = [id |-> e.id, ops |-> e.ops, sealed |-> x] BY <2>1
    <3>2. g = [id |-> 9, ops |-> e.ops, sealed |-> e.sealed] BY <2>1
    <3>3. \A x : IsEntry([e EXCEPT !.sealed = x]) BY <2>1, <3>1 DEF IsEntry
    <3>4. IsEntry(g) BY <3>2 DEF IsEntry
    <3> QED BY <3>3, <3>4
  <2> HIDE DEF f, g
  <2> QED BY <1>7, <2>2, <2>3
<1>13. ASSUME NEW i \in DOMAIN b.objects
       PROVE  /\ IsObject([b.objects[i] EXCEPT !.sealed = FALSE]) /\ IsObject([b.objects[i] EXCEPT !.spec.rules = {}])
              /\ \A m \in Range(Names) : IsObject([b.objects[i] EXCEPT !.spec.target = m])
              /\ \A r \in StrayRows[b.objects[i].name] : IsObject([b.objects[i] EXCEPT !.rows = @ \cup {r}])
  <2> DEFINE d == b.objects[i]
  <2>1. IsObject(d) /\ \A r \in StrayRows[d.name] : Fits(d.spec, r) BY <1>1, <1>2 DEF Y
  <2> HIDE DEF d
  <2>2. /\ IsObject([d EXCEPT !.sealed = FALSE]) /\ IsObject([d EXCEPT !.spec.rules = {}])
        /\ \A m \in Range(Names) : IsObject([d EXCEPT !.spec.target = m])
        /\ \A r \in StrayRows[d.name] : IsObject([d EXCEPT !.rows = @ \cup {r}])
    BY <2>1, EditedObjects
  <2> QED BY <2>2 DEF d
<1>14. \/ c = [b EXCEPT !.sealed = FALSE]
       \/ \E i \in DOMAIN b.objects : c = [b EXCEPT !.objects = RemoveAt(@, i)]
       \/ \E i \in DOMAIN b.objects : c = [b EXCEPT !.objects = Append(@, b.objects[i])]
       \/ \E i \in DOMAIN b.objects : \E o : IsObject(o) /\ c = [b EXCEPT !.objects[i] = o]
       \/ \E i \in DOMAIN b.log : c = [b EXCEPT !.log = Append(@, b.log[i])]
       \/ \E i \in DOMAIN b.log : c = [b EXCEPT !.log[i].sealed = FALSE] \/ c = [b EXCEPT !.log[i].id = 9]
  <2>1. CASE \/ c = [b EXCEPT !.sealed = FALSE]
             \/ \E i \in DOMAIN b.objects : c = [b EXCEPT !.objects = RemoveAt(@, i)]
             \/ \E i \in DOMAIN b.objects : c = [b EXCEPT !.objects = Append(@, b.objects[i])]
             \/ \E i \in DOMAIN b.log : c = [b EXCEPT !.log = Append(@, b.log[i])]
             \/ \E i \in DOMAIN b.log : c = [b EXCEPT !.log[i].sealed = FALSE]
             \/ \E i \in DOMAIN b.log : c = [b EXCEPT !.log[i].id = 9]
    BY <2>1
  <2>2. CASE \E i \in DOMAIN b.objects : c = [b EXCEPT !.objects[i] = [b.objects[i] EXCEPT !.sealed = FALSE]]
    BY <1>13, <2>2
  <2>3. CASE \E i \in DOMAIN b.objects : c = [b EXCEPT !.objects[i] = [b.objects[i] EXCEPT !.spec.rules = {}]]
    BY <1>13, <2>3
  <2>4. CASE \E i \in DOMAIN b.objects : \E m \in Range(Names) :
               c = [b EXCEPT !.objects[i] = [b.objects[i] EXCEPT !.spec.target = m]]
    BY <1>13, <2>4
  <2>5. CASE \E i \in DOMAIN b.objects : \E r \in StrayRows[b.objects[i].name] :
               c = [b EXCEPT !.objects[i] = [b.objects[i] EXCEPT !.rows = @ \cup {r}]]
    BY <1>13, <2>5
  <2>6. \/ c = [b EXCEPT !.sealed = FALSE]
        \/ \E i \in DOMAIN b.objects : c = [b EXCEPT !.objects = RemoveAt(@, i)]
        \/ \E i \in DOMAIN b.objects : c = [b EXCEPT !.objects = Append(@, b.objects[i])]
        \/ \E i \in DOMAIN b.objects : c = [b EXCEPT !.objects[i] = [b.objects[i] EXCEPT !.sealed = FALSE]]
        \/ \E i \in DOMAIN b.objects : c = [b EXCEPT !.objects[i] = [b.objects[i] EXCEPT !.spec.rules = {}]]
        \/ \E i \in DOMAIN b.objects : \E m \in Range(Names) :
              c = [b EXCEPT !.objects[i] = [b.objects[i] EXCEPT !.spec.target = m]]
        \/ \E i \in DOMAIN b.objects : \E r \in StrayRows[b.objects[i].name] :
              c = [b EXCEPT !.objects[i] = [b.objects[i] EXCEPT !.rows = @ \cup {r}]]
        \/ \E i \in DOMAIN b.log : c = [b EXCEPT !.log = Append(@, b.log[i])]
        \/ \E i \in DOMAIN b.log : c = [b EXCEPT !.log[i].sealed = FALSE]
        \/ \E i \in DOMAIN b.log : c = [b EXCEPT !.log[i].id = 9]
    <3> DEFINE u == [b EXCEPT !.sealed = FALSE]
               Removed(i) == [b EXCEPT !.objects = RemoveAt(@, i)]
               Twice(i) == [b EXCEPT !.objects = Append(@, b.objects[i])]
               Unsealed(i) == [b EXCEPT !.objects[i] = [b.objects[i] EXCEPT !.sealed = FALSE]]
               Free(i) == [b EXCEPT !.objects[i] = [b.objects[i] EXCEPT !.spec.rules = {}]]
               Aimed(i, m) == [b EXCEPT !.objects[i] = [b.objects[i] EXCEPT !.spec.target = m]]
               Strayed(i, r) == [b EXCEPT !.objects[i] = [b.objects[i] EXCEPT !.rows = @ \cup {r}]]
               Again(i) == [b EXCEPT !.log = Append(@, b.log[i])]
               Opened(i) == [b EXCEPT !.log[i].sealed = FALSE]
               Moved(i) == [b EXCEPT !.log[i].id = 9]
    <3>1. Edits(b) =
            {u} \cup {Removed(i) : i \in DOMAIN b.objects} \cup {Twice(i) : i \in DOMAIN b.objects}
              \cup {Unsealed(i) : i \in DOMAIN b.objects} \cup {Free(i) : i \in DOMAIN b.objects}
              \cup {Aimed(i, m) : i \in DOMAIN b.objects, m \in Range(Names)}
              \cup (UNION {{Strayed(i, r) : r \in StrayRows[b.objects[i].name]} : i \in DOMAIN b.objects})
              \cup {Again(i) : i \in DOMAIN b.log} \cup {Opened(i) : i \in DOMAIN b.log}
              \cup {Moved(i) : i \in DOMAIN b.log}
      BY DEF Edits
    <3>2. c \in Edits(b) OBVIOUS
    <3> HIDE DEF u, Removed, Twice, Unsealed, Free, Aimed, Strayed, Again, Opened, Moved
    <3>3. \/ c = u \/ (\E i \in DOMAIN b.objects : c = Removed(i)) \/ (\E i \in DOMAIN b.objects : c = Twice(i))
          \/ (\E i \in DOMAIN b.objects : c = Unsealed(i)) \/ (\E i \in DOMAIN b.objects : c = Free(i))
          \/ (\E i \in DOMAIN b.objects : \E m \in Range(Names) : c = Aimed(i, m))
          \/ (\E i \in DOMAIN b.objects : \E r \in StrayRows[b.objects[i].name] : c = Strayed(i, r))
          \/ (\E i \in DOMAIN b.log : c = Again(i)) \/ (\E i \in DOMAIN b.log : c = Opened(i))
          \/ (\E i \in DOMAIN b.log : c = Moved(i))
      BY <3>1, <3>2
    <3> QED BY <3>3, Zenon DEF u, Removed, Twice, Unsealed, Free, Aimed, Strayed, Again, Opened, Moved
  <2> QED BY <2>1, <2>2, <2>3, <2>4, <2>5, <2>6
<1> QED BY <1>6, <1>8, <1>9, <1>10, <1>11, <1>12, <1>14

-----------------------------------------------------------------------------
(* The invariant, step by step.                                             *)
LEMMA SourceExportable ==
  ASSUME FromSource, pc # "source"
  PROVE  /\ Exportable(source, fromPg) /\ IsBundle(bundle)
         /\ fromPg \/ EndsDeclared(source)
         /\ ~edited => ExportIs(source, fromPg, bundle)
<1>1. IsDatabase(source) /\ fromPg \in BOOLEAN BY TransferAssumption DEF FromSource
<1>2. /\ Check(source, fromPg) /\ IsBundle(bundle) /\ (~edited => bundle = Export(source, fromPg))
      /\ \A n \in Declared(source) : NumbersPortable(fromPg, source.rows[n])
  BY DEF FromSource
<1>3. CASE fromPg
  <2>1. /\ ForeignKeyCheck(source) /\ source.guards = {} /\ ~source.triggers
        /\ \A n \in Declared(source) : source.specs[n].rules = {}
    BY <1>3 DEF FromSource
  <2>2. source.tables = Declared(source) BY <1>1, <1>2, <1>3 DEF Check, IsDatabase
  <2>3. {g \in Declared(source) \X Rules : g[2] \in source.specs[g[1]].rules} = {} BY <2>1
  <2>4. StructureMatches(source) BY <2>1, <2>2, <2>3 DEF StructureMatches
  <2>5. DataObeysRules(source) BY <2>1 DEF DataObeysRules
  <2>6. Exportable(source, fromPg) BY <1>1, <1>2, <2>1, <2>4, <2>5 DEF Exportable, Check
  <2> QED BY <1>1, <1>2, <1>3, <2>6, ExportParts
<1>4. CASE ~fromPg
  <2>1. Exportable(source, fromPg) /\ EndsDeclared(source) BY <1>1, <1>2, <1>4 DEF Exportable, Check
  <2> QED BY <1>1, <1>2, <2>1, ExportParts
<1> QED BY <1>1, <1>3, <1>4

LEMMA WithMade ==
  ASSUME NEW db, db = DbOf(db.made, db.specs, db.tables, db.guards, db.triggers, db.rows, db.log), NEW y
  PROVE  [db EXCEPT !.made = y] = DbOf(y, db.specs, db.tables, db.guards, db.triggers, db.rows, db.log)
<1> DEFINE m == db.made  s == db.specs  t == db.tables  g == db.guards
           r == db.triggers  w == db.rows  l == db.log
<1>1. db = DbOf(m, s, t, g, r, w, l) OBVIOUS
<1> HIDE DEF m, s, t, g, r, w, l
<1>2. [db EXCEPT !.made = y] = DbOf(y, s, t, g, r, w, l) BY <1>1 DEF DbOf
<1> QED BY <1>2, Zenon DEF m, s, t, g, r, w, l

(* The scope begins with an empty database and the whole plan.              *)
LEMMA ImportBegins ==
  ASSUME NEW pg, NEW b, IsBundle(b), Distinct(b)
  PROVE  Progress(pg, b, 0, [Empty EXCEPT !.made = TRUE]) /\ Left(b, 0, Plan(b))
<1> DEFINE db == [Empty EXCEPT !.made = TRUE]
<1>1. /\ db.made = TRUE /\ db.specs = <<>> /\ db.tables = {} /\ db.guards = {} /\ db.triggers = FALSE
      /\ db.rows = [n \in Range(Names) |-> {}] /\ db.log = <<>>
      /\ db = [made |-> db.made, specs |-> db.specs, tables |-> db.tables, guards |-> db.guards,
               triggers |-> db.triggers, rows |-> db.rows, log |-> db.log]
  <2>1. /\ Empty.made = FALSE /\ Empty.specs = <<>> /\ Empty.tables = {} /\ Empty.guards = {}
        /\ Empty.triggers = FALSE /\ Empty.rows = [n \in Range(Names) |-> {}] /\ Empty.log = <<>>
    BY DEF Empty
  <2>2. Empty = DbOf(Empty.made, Empty.specs, Empty.tables, Empty.guards, Empty.triggers, Empty.rows, Empty.log)
    BY <2>1 DEF Empty, DbOf
  <2>3. db = DbOf(TRUE, Empty.specs, Empty.tables, Empty.guards, Empty.triggers, Empty.rows, Empty.log)
    BY <2>2, WithMade
  <2> HIDE DEF db
  <2>4. /\ db.made = TRUE /\ db.specs = Empty.specs /\ db.tables = Empty.tables /\ db.guards = Empty.guards
        /\ db.triggers = Empty.triggers /\ db.rows = Empty.rows /\ db.log = Empty.log
    BY <2>3 DEF DbOf
  <2>5. db = DbOf(db.made, db.specs, db.tables, db.guards, db.triggers, db.rows, db.log) BY <2>3, <2>4
  <2> QED BY <2>1, <2>4, <2>5 DEF DbOf
<1> HIDE DEF db
<1>2. /\ Len(ObjectPart(b)) \in Nat /\ Len(b.log) \in Nat /\ Len(Plan(b)) = Len(ObjectPart(b)) + Len(b.log) + 1
      /\ Plan(b) \in Seq(Range(Plan(b)))
  BY PlanParts
<1>3. Done(b, 0) = {}
  <2>1. {p \in 1..Len(ObjectPart(b)) : p <= 0} = {} BY <1>2
  <2> QED BY <2>1 DEF Done
<1>4. Entered(b, 0) = 0 BY <1>2 DEF Entered
<1>5. Declared(db) = {} BY <1>1 DEF Declared
<1>6. IsRecord(db)
  <2>1. db.specs = [n \in {} |-> db.specs[n]] BY <1>1
  <2> QED BY <1>1, <1>5, <2>1 DEF IsRecord
<1>7. StructureMatches(db) BY <1>1, <1>5 DEF StructureMatches
<1>8. Made(b, {}) = {} BY DEF Made
<1>9. Holds(pg, b, {}, db) BY <1>1, <1>5, <1>6, <1>7, <1>8 DEF Holds
<1>10. Recorded(b, 0, db)
  <2>1. <<>> \in Seq(Range(b.log)) /\ Len(<<>>) = 0 OBVIOUS
  <2> QED BY <1>1, <1>2, <2>1 DEF Recorded
<1>11. Keeps(pg, db)
  <2>1. EndsDeclared(db) BY <1>5 DEF EndsDeclared
  <2>2. ForeignKeyCheck(db) BY <1>5 DEF ForeignKeyCheck
  <2>3. \A n \in Declared(db) : NumbersPortable(pg, db.rows[n]) BY <1>5
  <2> QED BY <2>1, <2>2, <2>3, Zenon DEF Keeps
<1>12. Progress(pg, b, 0, db)
  <2>1. 0 \in 0..Len(Plan(b)) /\ 0 # Len(Plan(b)) BY <1>2
  <2>2. Holds(pg, b, Done(b, 0), db) /\ Recorded(b, Entered(b, 0), db) BY <1>3, <1>4, <1>9, <1>10
  <2> QED BY <1>11, <2>1, <2>2, Zenon DEF Progress
<1>13. Left(b, 0, Plan(b)) BY <1>2 DEF Left
<1> QED BY <1>12, <1>13 DEF db

(* The head of what is left is the next statement of the plan.              *)
LEMMA NextLeft ==
  ASSUME NEW b, IsBundle(b), Distinct(b), NEW k \in Nat, NEW rest, Left(b, k, rest), rest # <<>>
  PROVE  k < Len(Plan(b)) /\ Head(rest) = Plan(b)[k + 1] /\ Left(b, k + 1, Tail(rest))
<1> DEFINE n == Len(rest)  N == Len(Plan(b))  X == Range(Plan(b))  t == Tail(rest)
<1>0. N \in Nat
  <2>1. Plan(b) \in Seq(X) BY PlanParts
  <2> QED BY <2>1
<1>1. rest \in Seq(X) /\ n = N - k /\ \A i \in 1..n : rest[i] = Plan(b)[k + i] BY DEF Left
<1> HIDE DEF X, N
<1>2. n \in Nat /\ n # 0 BY <1>1
<1>3. Head(rest) = rest[1] /\ t \in Seq(X) /\ Len(t) = n - 1 /\ \A i \in 1..(n - 1) : t[i] = rest[i + 1]
  BY <1>1, <1>2
<1> HIDE DEF n, t
<1>4. 1 \in 1..n BY <1>2
<1>5. Head(rest) = Plan(b)[k + 1] BY <1>1, <1>3, <1>4
<1>6. ASSUME NEW i \in 1..Len(t) PROVE t[i] = Plan(b)[(k + 1) + i]
  <2>1. i \in 1..(n - 1) /\ i + 1 \in 1..n /\ k + (i + 1) = (k + 1) + i BY <1>2, <1>3
  <2>2. rest[i + 1] = Plan(b)[k + (i + 1)] BY <1>1, <2>1
  <2> QED BY <1>3, <2>1, <2>2
<1>7. Len(t) = N - (k + 1) /\ k < N BY <1>0, <1>1, <1>2, <1>3
<1> QED BY <1>3, <1>5, <1>6, <1>7 DEF Left, t, N, X

(* The invariant holds at the start.                                        *)
LEMMA StartInv ==
  ASSUME Init
  PROVE  TransferInv
BY DEF Init, TransferInv, FromSource, InProgress, Finished, ExportedIsImportable

(* Every step keeps the invariant.                                          *)
LEMMA StepInv ==
  ASSUME TransferInv, [Next]_vars
  PROVE  TransferInv'
<1> USE DEF TransferInv
<1>0. /\ toPg \in BOOLEAN /\ fromPg \in BOOLEAN /\ source \in Sources /\ IsDatabase(source)
  BY TransferAssumption DEF FromSource
<1>1. CASE DoExport
  <2>1. pc = "source" /\ ~edited /\ pc' = "bundle" /\ UNCHANGED <<toPg, fromPg, source, dest, edited>>
        /\ Check(source, fromPg) /\ bundle' = Export(source, fromPg)
        /\ \A n \in Declared(source) : NumbersPortable(fromPg, source.rows[n])
    BY <1>1 DEF DoExport, Databases, FromSource
  <2>2. IsBundle(Export(source, fromPg)) BY <1>0, <2>1, ExportParts DEF ExportIs
  <2>3. FromSource' BY <2>1, <2>2 DEF FromSource
  <2>4. InProgress' /\ Finished' /\ ExportedIsImportable' BY <2>1 DEF InProgress, Finished, ExportedIsImportable
  <2> QED BY <2>3, <2>4
<1>2. CASE EditBundle
  <2>1. pc = "bundle" /\ ~edited /\ edited' /\ pc' = "bundle" /\ UNCHANGED <<toPg, fromPg, source, dest>>
        /\ bundle' \in Edits(bundle)
    BY <1>2 DEF EditBundle, Databases
  <2>2. IsBundle(bundle) /\ ExportIs(source, fromPg, bundle) BY <2>1, SourceExportable
  <2>3. ASSUME NEW d \in ObjectsOf(bundle), NEW r \in StrayRows[d.name] PROVE Fits(d.spec, r)
    <3>1. d.name \in Declared(source) /\ d.spec = source.specs[d.name] BY <1>0, <2>2, ObjectParts
    <3> QED BY <1>0, <2>3, <3>1, TransferAssumption
  <2>4. IsBundle(bundle') BY <2>1, <2>2, <2>3, EditedBundles
  <2>5. FromSource' BY <2>1, <2>4 DEF FromSource
  <2>6. InProgress' /\ Finished' /\ ExportedIsImportable' BY <2>1 DEF InProgress, Finished, ExportedIsImportable
  <2> QED BY <2>5, <2>6
<1>3. CASE OtherCreates
  <2>1. pc = "bundle" /\ UNCHANGED <<toPg, fromPg, source, bundle, edited, pc>> BY <1>3 DEF OtherCreates, Databases
  <2>2. FromSource' BY <2>1 DEF FromSource
  <2>3. InProgress' /\ Finished' /\ ExportedIsImportable' BY <2>1 DEF InProgress, Finished, ExportedIsImportable
  <2> QED BY <2>2, <2>3
<1>4. CASE BeginImport
  <2>1. pc = "bundle" /\ UNCHANGED <<toPg, fromPg, source, dest, bundle, edited>>
        /\ pc' \in {"importing", "refused"}
    BY <1>4 DEF BeginImport, Databases
  <2>2. FromSource' BY <2>1 DEF FromSource
  <2>3. IsBundle(bundle) /\ Exportable(source, fromPg) /\ (~edited => ExportIs(source, fromPg, bundle))
    BY <2>1, SourceExportable
  <2>4. Finished' BY <2>1 DEF Finished
  <2>5. CASE ~dest.made /\ Valid(bundle)
    <3>1. pc' = "importing" /\ mine' = [Empty EXCEPT !.made = TRUE] /\ todo' = Plan(bundle)
      BY <1>4, <2>5 DEF BeginImport
    <3>2. Progress(toPg, bundle, 0, mine') /\ Left(bundle, 0, todo')
      BY <2>3, <2>5, <3>1, ValidIsDistinct, ImportBegins
    <3>3. Valid(bundle)' /\ ~dest'.made BY <2>1, <2>5 DEF Valid
    <3>4. \E k \in Nat : Progress(toPg', bundle', k, mine') /\ Left(bundle', k, todo') BY <2>1, <3>2
    <3>5. InProgress' BY <3>3, <3>4 DEF InProgress
    <3>6. ExportedIsImportable' BY <3>1 DEF ExportedIsImportable
    <3> QED BY <2>2, <2>4, <3>5, <3>6
  <2>6. CASE ~(~dest.made /\ Valid(bundle))
    <3>1. pc' = "refused" BY <1>4, <2>6 DEF BeginImport
    <3>2. ~edited => dest.made \/ (toPg /\ ~CreationOnly(bundle)) \/ ~LogInForce(source)
      <4>1. ASSUME ~edited, ~dest.made, toPg => CreationOnly(bundle), LogInForce(source) PROVE FALSE
        <5>1. Valid(bundle) BY <1>0, <2>3, <4>1, ExportValid DEF Exportable
        <5> QED BY <2>6, <4>1, <5>1
      <4> QED BY <4>1
    <3>3. ExportedIsImportable' BY <2>1, <3>2 DEF ExportedIsImportable
    <3>4. InProgress' BY <3>1 DEF InProgress
    <3> QED BY <2>2, <2>4, <3>3, <3>4
  <2> QED BY <2>5, <2>6
<1>5. CASE Statement
  <2>1. pc = "importing" /\ todo # <<>> /\ UNCHANGED <<toPg, fromPg, source, dest, bundle, edited>>
        /\ pc' \in {"importing", "refused"}
    BY <1>5 DEF Statement, Databases
  <2>2. FromSource' BY <2>1 DEF FromSource
  <2>3. Finished' BY <2>1 DEF Finished
  <2>4. IsBundle(bundle) /\ Exportable(source, fromPg) /\ (~edited => ExportIs(source, fromPg, bundle))
    BY <2>1, SourceExportable
  <2>5. ~dest.made /\ Valid(bundle) /\ Distinct(bundle) BY <2>1, ValidIsDistinct DEF InProgress
  <2>6. PICK k \in Nat : Progress(toPg, bundle, k, mine) /\ Left(bundle, k, todo) BY <2>1 DEF InProgress
  <2>7. k < Len(Plan(bundle)) /\ Head(todo) = Plan(bundle)[k + 1] /\ Left(bundle, k + 1, Tail(todo))
    BY <2>1, <2>4, <2>5, <2>6, NextLeft
  <2>8. CASE Accepts(mine, Head(todo))
    <3>1. pc' = "importing" /\ mine' = Applied(mine, Head(todo)) /\ todo' = Tail(todo) BY <1>5, <2>1, <2>8 DEF Statement
    <3>2. Progress(toPg, bundle, k + 1, mine') BY <1>0, <2>4, <2>5, <2>6, <2>7, <2>8, <3>1, PlanStep
    <3>3. Valid(bundle)' /\ ~dest'.made BY <2>1, <2>5 DEF Valid
    <3>4. \E l \in Nat : Progress(toPg', bundle', l, mine') /\ Left(bundle', l, todo')
      <4>1. k + 1 \in Nat OBVIOUS
      <4> QED BY <2>1, <2>7, <3>1, <3>2, <4>1
    <3>5. InProgress' BY <3>3, <3>4 DEF InProgress
    <3>6. ExportedIsImportable' BY <3>1 DEF ExportedIsImportable
    <3> QED BY <2>2, <2>3, <3>5, <3>6
  <2>9. CASE ~Accepts(mine, Head(todo))
    <3>1. pc' = "refused" BY <1>5, <2>9 DEF Statement
    <3>2. edited \/ (fromPg /\ ~EndsDeclared(source))
      <4>1. fromPg \/ EndsDeclared(source) BY <2>1, SourceExportable
      <4>2. ~edited /\ EndsDeclared(source) => Accepts(mine, Head(todo)) BY <1>0, <2>4, <2>6, <2>7, ExportAccepted
      <4> QED BY <2>9, <4>1, <4>2
    <3>3. InProgress' /\ ExportedIsImportable' BY <2>1, <3>1, <3>2 DEF InProgress, ExportedIsImportable
    <3> QED BY <2>2, <2>3, <3>3
  <2> QED BY <2>8, <2>9
<1>6. CASE Interrupted
  <2>1. pc = "importing" /\ pc' = "bundle" /\ UNCHANGED <<toPg, fromPg, source, dest, bundle, edited>>
    BY <1>6 DEF Interrupted, Databases
  <2>2. FromSource' BY <2>1 DEF FromSource
  <2>3. InProgress' /\ Finished' /\ ExportedIsImportable' BY <2>1 DEF InProgress, Finished, ExportedIsImportable
  <2> QED BY <2>2, <2>3
<1>7. CASE Commit
  <2>1. pc = "importing" /\ todo = <<>> /\ pc' = "done" /\ dest' = mine /\ UNCHANGED <<toPg, fromPg, source, bundle, edited>>
    BY <1>7 DEF Commit, Databases
  <2>2. FromSource' BY <2>1 DEF FromSource
  <2>3. Valid(bundle) /\ Distinct(bundle) /\ IsBundle(bundle) BY <2>1, ValidIsDistinct, SourceExportable DEF InProgress
  <2>4. PICK k \in Nat : Progress(toPg, bundle, k, mine) /\ Left(bundle, k, todo) BY <2>1 DEF InProgress
  <2>5. k = Len(Plan(bundle))
    <3>1. Plan(bundle) \in Seq(Range(Plan(bundle))) BY <2>3, PlanParts
    <3>2. Len(Plan(bundle)) \in Nat BY <3>1
    <3>3. Len(todo) = 0 BY <2>1
    <3> QED BY <2>4, <3>2, <3>3 DEF Left
  <2>6. Valid(bundle)' BY <2>1, <2>3 DEF Valid
  <2>7. Finished' BY <2>1, <2>4, <2>5, <2>6 DEF Finished
  <2>8. InProgress' /\ ExportedIsImportable' BY <2>1 DEF InProgress, ExportedIsImportable
  <2> QED BY <2>2, <2>7, <2>8
<1>8. CASE UNCHANGED vars
  <2>1. UNCHANGED <<toPg, fromPg, source, dest, bundle, edited, pc, mine, todo>> BY <1>8 DEF vars
  <2>2. FromSource' BY <2>1 DEF FromSource
  <2>3. Valid(bundle)' <=> Valid(bundle) BY <2>1 DEF Valid
  <2>4. InProgress' BY <2>1, <2>3 DEF InProgress
  <2>5. Finished' BY <2>1, <2>3 DEF Finished
  <2>6. ExportedIsImportable' BY <2>1 DEF ExportedIsImportable
  <2> QED BY <2>2, <2>4, <2>5, <2>6
<1> QED BY <1>1, <1>2, <1>3, <1>4, <1>5, <1>6, <1>7, <1>8 DEF Next

(* In every reachable state the import stands where its statements have     *)
(* brought it.                                                              *)
THEOREM TransferInvariant == Spec => []TransferInv
<1>1. Init => TransferInv BY StartInv
<1>2. TransferInv /\ [Next]_vars => TransferInv' BY StepInv
<1> QED BY <1>1, <1>2, PTL DEF Spec

(* Whatever bundle was imported, an unedited or an edited one, on either      *)
(* backend: the database passes the full check, and its log tells what is     *)
(* installed (transfer.import_into).                                        *)
THEOREM ImportsAreSound == Spec => []ImportedIsSound
<1>1. TransferInv => ImportedIsSound
  <2> SUFFICES ASSUME TransferInv, pc = "done" PROVE ImportedIsSound BY DEF ImportedIsSound
  <2>1. IsBundle(bundle) /\ toPg \in BOOLEAN /\ Valid(bundle) /\ Progress(toPg, bundle, Len(Plan(bundle)), dest)
    BY DEF TransferInv, FromSource, Finished
  <2> QED BY <2>1, SoundWhenFinished
<1> QED BY <1>1, TransferInvariant, PTL

(* What check accepts and export writes, import takes, for every database     *)
(* whose metadata still has what its revisions recorded, and on PostgreSQL    *)
(* the ends of its relationships: it refuses only a destination that is not   *)
(* empty, and on PostgreSQL evolved constraints (transfer.export,            *)
(* transfer.import_into).                                                   *)
THEOREM ExportsAreImportable == Spec => []ExportedIsImportable
<1>1. TransferInv => ExportedIsImportable BY DEF TransferInv
<1> QED BY <1>1, TransferInvariant, PTL

(* An unedited bundle restores the database, whatever the two backends: the   *)
(* declarations, versions, edges and log as they were, and every number of    *)
(* the type and value it was read with (transfer.export, import_into).       *)
THEOREM ImportsRestore == Spec => []RoundTrip
<1>1. TransferInv => RoundTrip
  <2> SUFFICES ASSUME TransferInv, pc = "done", ~edited PROVE RoundTrip BY DEF RoundTrip
  <2>1. /\ toPg \in BOOLEAN /\ fromPg \in BOOLEAN /\ FromSource /\ Valid(bundle)
        /\ Progress(toPg, bundle, Len(Plan(bundle)), dest)
    BY DEF TransferInv, FromSource, Finished
  <2>2. Exportable(source, fromPg) /\ IsBundle(bundle) /\ ExportIs(source, fromPg, bundle)
    BY <2>1, SourceExportable
  <2>3. Complete(toPg, bundle, dest) BY <2>1, <2>2, ValidIsDistinct, ImportCompletes
  <2>4. Restores(toPg, dest, fromPg, source) BY <2>1, <2>2, <2>3, Restored
  <2> QED BY <2>4, Zenon DEF Restores, RoundTrip
<1> QED BY <1>1, TransferInvariant, PTL

-----------------------------------------------------------------------------
(* A predicate, node by node: what its SQL is, and what it means.            *)
SqlOf(p, sql, s) ==
  IF p.op = "not" THEN Not3(sql[p.of])
  ELSE IF p.op = "and" THEN All3({sql[j] : j \in p.of})
  ELSE IF p.op = "or" THEN Any3({sql[j] : j \in p.of})
  ELSE Compiled(onPg, table, p, s)

MeantBy(p, holds, v) ==
  IF p.op = "not" THEN ~holds[p.of]
  ELSE IF p.op = "and" THEN \A j \in p.of : holds[j]
  ELSE IF p.op = "or" THEN \E j \in p.of : holds[j]
  ELSE Means(p, v)

NodeOf(compiled, p, f, s) == IF compiled THEN SqlOf(p, f, s) ELSE MeantBy(p, f, s)

Connected(p, k) ==
  \/ p.op = "not" /\ p.of \in 1..(k - 1)
  \/ p.op \in {"and", "or"} /\ p.of \subseteq 1..(k - 1)

(* The nodes of a predicate, by their numbers.                                *)
LEMMA PredicateShape ==
  ASSUME NEW where, IsPredicate(where)
  PROVE  /\ Len(where) \in Nat /\ Len(where) > 0 /\ DOMAIN where = 1..Len(where)
         /\ \A k \in 1..Len(where) : Connected(where[k], k) \/ IsAtom(where[k])
BY DEF IsPredicate, Connected

(* What is an atom is no connective.                                         *)
LEMMA AtomIsLeaf ==
  ASSUME NEW p, IsAtom(p)
  PROVE  p.op \notin {"not", "and", "or"}
BY DEF IsAtom, Comparisons, Ordered

(* A node depends on its parts only.                                        *)
LEMMA NodeAgrees ==
  ASSUME NEW compiled \in BOOLEAN, NEW s, NEW p, NEW k \in Nat, Connected(p, k) \/ IsAtom(p),
         NEW f, NEW g, \A j \in 1..(k - 1) : f[j] = g[j]
  PROVE  NodeOf(compiled, p, f, s) = NodeOf(compiled, p, g, s)
<1>1. CASE IsAtom(p)
  BY <1>1, AtomIsLeaf DEF NodeOf, SqlOf, MeantBy
<1>2. CASE Connected(p, k) /\ p.op = "not"
  BY <1>2 DEF NodeOf, SqlOf, MeantBy, Connected
<1>3. CASE Connected(p, k) /\ p.op \in {"and", "or"}
  <2>1. \A j \in p.of : f[j] = g[j] BY <1>3 DEF Connected
  <2>2. {f[j] : j \in p.of} = {g[j] : j \in p.of} BY <2>1
  <2>3. /\ (\A j \in p.of : f[j]) <=> (\A j \in p.of : g[j])
        /\ (\E j \in p.of : f[j]) <=> (\E j \in p.of : g[j])
    BY <2>1
  <2>4. SqlOf(p, f, s) = SqlOf(p, g, s) BY <1>3, <2>2 DEF SqlOf
  <2>5. MeantBy(p, f, s) = MeantBy(p, g, s) BY <1>3, <2>3 DEF MeantBy
  <2> QED BY <2>4, <2>5 DEF NodeOf
<1> QED BY <1>1, <1>2, <1>3 DEF Connected

(* The nodes can be evaluated in their order.                                *)
LEMMA NodesEvaluate ==
  ASSUME NEW compiled \in BOOLEAN, NEW s, NEW where, IsPredicate(where)
  PROVE  \E f : f = [k \in DOMAIN where |-> NodeOf(compiled, where[k], f, s)]
<1> DEFINE n == Len(where)
           Evaluates(f, m) == f = [k \in 1..m |-> NodeOf(compiled, where[k], f, s)]
           S == {m \in Nat : m <= n => \E f : Evaluates(f, m)}
<1>1. /\ n \in Nat /\ DOMAIN where = 1..n
      /\ \A k \in 1..n : Connected(where[k], k) \/ IsAtom(where[k])
  BY PredicateShape
<1>2. 0 \in S
  <2> DEFINE g == [k \in 1..0 |-> k]
  <2>1. Evaluates(g, 0) OBVIOUS
  <2> QED BY <2>1
<1>3. ASSUME NEW m \in Nat, m \in S PROVE m + 1 \in S
  <2> SUFFICES ASSUME m + 1 <= n PROVE \E f : Evaluates(f, m + 1) OBVIOUS
  <2>1. PICK f : Evaluates(f, m) BY <1>1, <1>3
  <2>5. \A k \in 1..m : f[k] = NodeOf(compiled, where[k], f, s) BY <2>1
  <2> DEFINE g == [k \in 1..(m + 1) |-> IF k <= m THEN f[k] ELSE NodeOf(compiled, where[m + 1], f, s)]
  <2>2. (\A k \in 1..m : g[k] = f[k]) /\ g[m + 1] = NodeOf(compiled, where[m + 1], f, s) OBVIOUS
  <2>6. g = [k \in 1..(m + 1) |-> g[k]] OBVIOUS
  <2> HIDE DEF g
  <2>3. ASSUME NEW k \in 1..(m + 1) PROVE g[k] = NodeOf(compiled, where[k], g, s)
    <3>1. \A j \in 1..(k - 1) : f[j] = g[j] BY <2>2
    <3>2. k \in Nat /\ (Connected(where[k], k) \/ IsAtom(where[k])) BY <1>1
    <3>3. NodeOf(compiled, where[k], f, s) = NodeOf(compiled, where[k], g, s)
      BY <3>1, <3>2, NodeAgrees
    <3>4. CASE k \in 1..m BY <2>2, <2>5, <3>3, <3>4
    <3>5. CASE k = m + 1 BY <2>2, <3>3, <3>5
    <3> QED BY <3>4, <3>5
  <2>4. Evaluates(g, m + 1) BY <2>3, <2>6
  <2> QED BY <2>4
<1> HIDE DEF S
<1>4. n \in S BY <1>1, <1>2, <1>3, Induction
<1>5. PICK f : Evaluates(f, n) BY <1>1, <1>4 DEF S
<1> QED BY <1>1, <1>5

(* The SQL of a predicate and its meaning are those of its last node.         *)
LEMMA WhereUnfolds ==
  ASSUME NEW where, IsPredicate(where), NEW s
  PROVE  \E f : f = [k \in DOMAIN where |-> SqlOf(where[k], f, s)] /\ Where(where, s) = f[Len(where)]
<1> DEFINE e == CHOOSE f : f = [k \in DOMAIN where |-> SqlOf(where[k], f, s)]
<1>1. Where(where, s) = e[Len(where)] BY Zenon DEF Where, SqlOf
<1>2. \E f : f = [k \in DOMAIN where |-> SqlOf(where[k], f, s)]
  <2>1. PICK f : f = [k \in DOMAIN where |-> NodeOf(TRUE, where[k], f, s)] BY NodesEvaluate
  <2>2. [k \in DOMAIN where |-> NodeOf(TRUE, where[k], f, s)]
          = [k \in DOMAIN where |-> SqlOf(where[k], f, s)]
    BY DEF NodeOf
  <2>3. f = [k \in DOMAIN where |-> SqlOf(where[k], f, s)] BY <2>1, <2>2, Zenon
  <2> QED BY <2>3, Zenon
<1>3. e = [k \in DOMAIN where |-> SqlOf(where[k], e, s)] BY <1>2, Zenon
<1> QED BY <1>1, <1>3

LEMMA MatchesUnfolds ==
  ASSUME NEW where, IsPredicate(where), NEW v
  PROVE  \E f : f = [k \in DOMAIN where |-> MeantBy(where[k], f, v)] /\ Matches(where, v) = f[Len(where)]
<1> DEFINE e == CHOOSE f : f = [k \in DOMAIN where |-> MeantBy(where[k], f, v)]
<1>1. Matches(where, v) = e[Len(where)] BY Zenon DEF Matches, MeantBy
<1>2. \E f : f = [k \in DOMAIN where |-> MeantBy(where[k], f, v)]
  <2>1. PICK f : f = [k \in DOMAIN where |-> NodeOf(FALSE, where[k], f, v)] BY NodesEvaluate
  <2>2. [k \in DOMAIN where |-> NodeOf(FALSE, where[k], f, v)]
          = [k \in DOMAIN where |-> MeantBy(where[k], f, v)]
    BY DEF NodeOf
  <2>3. f = [k \in DOMAIN where |-> MeantBy(where[k], f, v)] BY <2>1, <2>2, Zenon
  <2> QED BY <2>3, Zenon
<1>3. e = [k \in DOMAIN where |-> MeantBy(where[k], e, v)] BY <1>2, Zenon
<1> QED BY <1>1, <1>3

-----------------------------------------------------------------------------
AtomsExact(where, s) ==
  \A k \in DOMAIN where :
    IsAtom(where[k]) => Compiled(onPg, table, where[k], s) = Truth(Means(where[k], Found(s)))

(* A tree of exact atoms is exact.                                           *)
LEMMA TreeExact ==
  ASSUME NEW where, IsPredicate(where), NEW s, AtomsExact(where, s)
  PROVE  /\ Matches(where, Found(s)) \in BOOLEAN
         /\ Where(where, s) = Truth(Matches(where, Found(s)))
<1> DEFINE n == Len(where)  v == Found(s)
<1>1. /\ n \in Nat /\ n > 0 /\ DOMAIN where = 1..n
      /\ \A k \in 1..n : Connected(where[k], k) \/ IsAtom(where[k])
  BY PredicateShape
<1>2. PICK f : f = [k \in DOMAIN where |-> SqlOf(where[k], f, s)] /\ Where(where, s) = f[n]
  BY WhereUnfolds
<1>3. PICK g : g = [k \in DOMAIN where |-> MeantBy(where[k], g, v)] /\ Matches(where, v) = g[n]
  BY MatchesUnfolds
<1>4. \A k \in 1..n : f[k] = SqlOf(where[k], f, s) BY <1>1, <1>2
<1>5. \A k \in 1..n : g[k] = MeantBy(where[k], g, v) BY <1>1, <1>3
<1> DEFINE Exact(k) == g[k] \in BOOLEAN /\ f[k] = Truth(g[k])
           T == {k \in 1..n : ~Exact(k)}
<1>6. ASSUME NEW k \in 1..n, \A j \in 1..(k - 1) : Exact(j)
      PROVE  Exact(k)
  <2> DEFINE p == where[k]
  <2>1. CASE IsAtom(p)
    <3>1. f[k] = Compiled(onPg, table, p, s) /\ g[k] = Means(p, v)
      BY <1>4, <1>5, <2>1, AtomIsLeaf DEF SqlOf, MeantBy
    <3>2. f[k] = Truth(Means(p, v)) BY <1>1, <2>1, <3>1 DEF AtomsExact
    <3>3. Means(p, v) \in BOOLEAN BY Zenon DEF Means
    <3> QED BY <3>1, <3>2, <3>3
  <2>2. CASE Connected(p, k) /\ p.op = "not"
    <3>1. f[k] = Not3(f[p.of]) /\ g[k] = ~g[p.of]
      BY <1>4, <1>5, <2>2 DEF SqlOf, MeantBy
    <3>2. Exact(p.of) BY <1>6, <2>2 DEF Connected
    <3> QED BY <3>1, <3>2 DEF Not3, Truth
  <2>3. CASE Connected(p, k) /\ p.op \in {"and", "or"}
    <3> DEFINE S == {g[j] : j \in p.of}
    <3>1. \A j \in p.of : g[j] \in BOOLEAN /\ f[j] = Truth(g[j])
      BY <1>6, <2>3 DEF Connected
    <3>2. S \in SUBSET BOOLEAN BY <3>1
    <3>3. {f[j] : j \in p.of} = {Truth(b) : b \in S} BY <3>1
    <3>4. FALSE \notin S <=> \A j \in p.of : g[j] BY <3>1
    <3>7. TRUE \in S <=> \E j \in p.of : g[j] BY <3>1
    <3> HIDE DEF S
    <3>5. CASE p.op = "and"
      <4>1. f[k] = All3({f[j] : j \in p.of}) /\ g[k] = (\A j \in p.of : g[j])
        BY <1>4, <1>5, <3>5 DEF SqlOf, MeantBy
      <4>2. All3({Truth(b) : b \in S}) = Truth(FALSE \notin S) BY <3>2, ConnectivesExact
      <4>3. f[k] = Truth(FALSE \notin S) /\ g[k] = (FALSE \notin S) BY <3>3, <3>4, <4>1, <4>2
      <4> QED BY <4>3
    <3>6. CASE p.op = "or"
      <4>1. f[k] = Any3({f[j] : j \in p.of}) /\ g[k] = (\E j \in p.of : g[j])
        BY <1>4, <1>5, <3>6 DEF SqlOf, MeantBy
      <4>2. Any3({Truth(b) : b \in S}) = Truth(TRUE \in S) BY <3>2, ConnectivesExact
      <4>3. f[k] = Truth(TRUE \in S) BY <3>3, <4>1, <4>2
      <4>4. CASE TRUE \in S
        <5>1. g[k] = TRUE BY <3>7, <4>1, <4>4
        <5> QED BY <4>3, <4>4, <5>1 DEF Truth
      <4>5. CASE TRUE \notin S
        <5>1. g[k] = FALSE BY <3>7, <4>1, <4>5
        <5> QED BY <4>3, <4>5, <5>1 DEF Truth
      <4> QED BY <4>4, <4>5
    <3> QED BY <2>3, <3>5, <3>6
  <2> QED BY <1>1, <2>1, <2>2, <2>3 DEF Connected
<1> HIDE DEF Exact
<1>7. T = {}
  <2> SUFFICES ASSUME T # {} PROVE FALSE OBVIOUS
  <2>1. T \subseteq Nat BY <1>1
  <2>2. PICK k \in T : \A j \in T : k <= j
    <3> HIDE DEF T
    <3> QED BY <2>1, Least
  <2>3. \A j \in 1..(k - 1) : Exact(j) BY <1>1, <2>2
  <2> QED BY <1>6, <2>2, <2>3
<1>8. Exact(n) BY <1>1, <1>7
<1> QED BY <1>2, <1>3, <1>8 DEF Exact

-----------------------------------------------------------------------------
(* The contents of a store, and what a column of it holds the query to.       *)
Held(c) == Range(c) \ {Absent}
ContentsOf(isTable, q, c) ==
  /\ c = [i \in Ids |-> c[i]] /\ \A s \in Held(c) : IsStored(s)
  /\ isTable => IsColumn(Held(c) \cup Cells, q.where)
IsContents(c) == ContentsOf(table, query, c)

Typed == onPg \in BOOLEAN /\ table \in BOOLEAN /\ IsPredicate(query.where)

(* What a store holds under an ID has a value at the path.                    *)
LEMMA HeldIsStored ==
  ASSUME NEW c, IsContents(c), NEW i \in Ids, c[i] # Absent
  PROVE  /\ IsStored(c[i]) /\ c[i] \in Held(c)
         /\ IsValue(Found(c[i])) /\ Value(onPg, c[i]) = Found(c[i])
<1>1. c[i] \in Held(c) BY DEF IsContents, ContentsOf, Held, Range
<1>2. IsStored(c[i]) BY <1>1 DEF IsContents, ContentsOf
<1> QED BY <1>1, <1>2, FoundIsValue, ValueIsFound DEF Value, Found, ExtractPath

(* The cells of a column are of one type or NULL.                            *)
LEMMA CellsOfOneType ==
  ASSUME NEW c, IsContents(c), table
  PROVE  \E type \in Scalars :
           /\ \A i \in Ids : c[i] # Absent => /\ c[i].parent = "object" /\ Found(c[i]) = c[i].child
                                              /\ c[i].child.type \in {type, "null"}
           /\ \A k \in DOMAIN query.where :
                LET p == query.where[k]
                IN IsAtom(p) /\ p.arg.type # "null" => Domain(p.arg.type) = Domain(type)
<1>1. PICK type \in Scalars :
        /\ \A s \in Held(c) \cup Cells : s.parent = "object" /\ s.child.type \in {type, "null"}
        /\ \A k \in DOMAIN query.where :
             IsAtom(query.where[k]) /\ query.where[k].arg.type # "null"
               => Domain(query.where[k].arg.type) = Domain(type)
  BY Zenon DEF IsContents, ContentsOf, IsColumn
<1>2. ASSUME NEW i \in Ids, c[i] # Absent
      PROVE  c[i].parent = "object" /\ Found(c[i]) = c[i].child /\ c[i].child.type \in {type, "null"}
  BY <1>1, <1>2, HeldIsStored DEF Found
<1> QED BY <1>1, <1>2

(* The SQL of each atom of the query is exact for each record held.           *)
LEMMA HeldAtomsExact ==
  ASSUME Typed, NEW c, IsContents(c), NEW i \in Ids, c[i] # Absent
  PROVE  AtomsExact(query.where, c[i])
<1> SUFFICES ASSUME NEW k \in DOMAIN query.where, IsAtom(query.where[k])
             PROVE  Compiled(onPg, table, query.where[k], c[i])
                      = Truth(Means(query.where[k], Found(c[i])))
  BY DEF AtomsExact
<1> DEFINE p == query.where[k]  s == c[i]
<1>1. IsAtom(p) /\ IsStored(s) /\ onPg \in BOOLEAN BY HeldIsStored DEF Typed
<1>2. CASE ~table
  <2>1. table = FALSE BY <1>2 DEF Typed
  <2>2. Compiled(onPg, FALSE, p, s) = Truth(Means(p, Found(s)))
    <3> HIDE DEF p, s
    <3> QED BY <1>1, FieldExact
  <2> QED BY <2>1, <2>2
<1>3. CASE table
  <2>1. table = TRUE BY <1>3 DEF Typed
  <2>2. /\ s.parent = "object" /\ s.child.type \in Scalars \cup {"null"}
        /\ p.arg.type # "null" /\ s.child.type # "null" => Domain(s.child.type) = Domain(p.arg.type)
    BY <1>1, <1>3, CellsOfOneType
  <2>3. Compiled(onPg, TRUE, p, s) = Truth(Means(p, Found(s)))
    <3> HIDE DEF p, s
    <3> QED BY <1>1, <2>2, ColumnExact
  <2> QED BY <2>1, <2>3
<1> QED BY <1>2, <1>3

(* The database refuses no statement, and answers with what matches.          *)
LEMMA FindsMatches ==
  ASSUME Typed, NEW c, IsContents(c)
  PROVE  /\ ~SqlFails(query, c)
         /\ {i \in Ids : c[i] # Absent /\ Where(query.where, c[i]) = "T"}
              = {i \in Ids : c[i] # Absent /\ Matches(query.where, Found(c[i]))}
<1>1. ASSUME NEW i \in Ids, c[i] # Absent
      PROVE  /\ Where(query.where, c[i]) # "E"
             /\ Where(query.where, c[i]) = "T" <=> Matches(query.where, Found(c[i]))
  <2>1. AtomsExact(query.where, c[i]) BY <1>1, HeldAtomsExact
  <2>2. /\ Matches(query.where, Found(c[i])) \in BOOLEAN
        /\ Where(query.where, c[i]) = Truth(Matches(query.where, Found(c[i])))
    BY <2>1, TreeExact DEF Typed
  <2> QED BY <2>2 DEF Truth
<1> QED BY <1>1 DEF SqlFails

-----------------------------------------------------------------------------
(* The documented order.                                                    *)
PlaceOf(type) ==
  IF type = "missing" THEN 1 ELSE IF type = "null" THEN 2 ELSE IF type = "boolean" THEN 3
  ELSE IF type \in Numeric THEN 4 ELSE IF type = "string" THEN 5 ELSE IF type = "array" THEN 6 ELSE 7

(* The place of a type, without the CHOOSE of Place.                          *)
LEMMA PlaceIsPlaceOf ==
  ASSUME NEW v, IsValue(v)
  PROVE  Place(v) = PlaceOf(v.type) /\ Place(v) \in 1..7
<1>1. v.type \in Types BY DEF IsValue
<1>2. Len(TypeOrder) = 7 BY DEF TypeOrder
<1>3. \A k \in 1..7 : TypeOrder[k] = Domain(v.type) <=> k = PlaceOf(v.type)
  BY <1>1 DEF TypeOrder, Domain, PlaceOf, Types, Scalars, Numeric
<1>4. PlaceOf(v.type) \in 1..7 BY DEF PlaceOf
<1> QED BY <1>2, <1>3, <1>4 DEF Place

Ties(q, v, w) ==
  \/ ~q.ordered
  \/ Place(v) = Place(w) /\ (v.type \in Scalars => v.val = w.val)

(* Earlier is a total order.                                                 *)
LEMMA EarlierOrders ==
  ASSUME NEW c, IsContents(c), NEW q, NEW i \in Ids, NEW j \in Ids, c[i] # Absent, c[j] # Absent
  PROVE  /\ ~(Earlier(q, c, i, j) /\ Earlier(q, c, j, i))
         /\ i # j => Earlier(q, c, i, j) \/ Earlier(q, c, j, i)
<1> DEFINE v == Found(c[i])  w == Found(c[j])
<1>1. i \in Nat /\ j \in Nat BY QueriesAssumption
<1>2. IsValue(v) /\ IsValue(w) BY HeldIsStored
<1>3. /\ Place(v) = PlaceOf(v.type) /\ Place(w) = PlaceOf(w.type) /\ Place(v) \in 1..7 /\ Place(w) \in 1..7
      /\ v.val \in Int /\ w.val \in Int /\ v.type \in Types /\ w.type \in Types
  BY <1>2, PlaceIsPlaceOf DEF IsValue
<1>4. Place(v) = Place(w) => (v.type \in Scalars <=> w.type \in Scalars)
  BY <1>3 DEF PlaceOf, Types, Scalars, Numeric
<1>5. Earlier(q, c, i, j) =
        (IF Ties(q, v, w) THEN i < j
         ELSE IF Place(v) # Place(w) THEN Place(v) < Place(w)
         ELSE IF q.descending THEN w.val < v.val ELSE v.val < w.val)
  BY Zenon DEF Earlier, Ties
<1>6. Earlier(q, c, j, i) =
        (IF Ties(q, w, v) THEN j < i
         ELSE IF Place(w) # Place(v) THEN Place(w) < Place(v)
         ELSE IF q.descending THEN v.val < w.val ELSE w.val < v.val)
  BY Zenon DEF Earlier, Ties
<1>7. Ties(q, v, w) <=> Ties(q, w, v) BY <1>4 DEF Ties
<1>8. ~Ties(q, v, w) /\ Place(v) = Place(w) => v.val # w.val BY DEF Ties
<1>9. CASE Ties(q, v, w)
  <2>1. Earlier(q, c, i, j) <=> i < j BY <1>5, <1>9, Zenon
  <2>2. Earlier(q, c, j, i) <=> j < i BY <1>6, <1>7, <1>9, Zenon
  <2> QED BY <1>1, <2>1, <2>2
<1>10. CASE ~Ties(q, v, w) /\ Place(v) # Place(w)
  <2>1. Earlier(q, c, i, j) <=> Place(v) < Place(w) BY <1>5, <1>10, Zenon
  <2>2. Earlier(q, c, j, i) <=> Place(w) < Place(v) BY <1>6, <1>7, <1>10, Zenon
  <2> HIDE DEF v, w
  <2> QED BY <1>3, <1>10, <2>1, <2>2
<1>11. CASE ~Ties(q, v, w) /\ Place(v) = Place(w)
  <2>1. Earlier(q, c, i, j) <=> IF q.descending THEN w.val < v.val ELSE v.val < w.val
    BY <1>5, <1>11, Zenon
  <2>2. Earlier(q, c, j, i) <=> IF q.descending THEN v.val < w.val ELSE w.val < v.val
    BY <1>6, <1>7, <1>11, Zenon
  <2>3. v.val # w.val BY <1>8, <1>11
  <2>4. v.val \in Int /\ w.val \in Int BY <1>3
  <2> HIDE DEF v, w
  <2>5. CASE q.descending BY <2>1, <2>2, <2>3, <2>4, <2>5
  <2>6. CASE ~q.descending BY <2>1, <2>2, <2>3, <2>4, <2>6
  <2> QED BY <2>5, <2>6
<1> QED BY <1>9, <1>10, <1>11

-----------------------------------------------------------------------------
(* The terms of ORDER BY, one by one.                                        *)
(* A literal sequence and one more element.                                  *)
LEMMA Appended4 ==
  ASSUME NEW a, NEW b, NEW c, NEW d, NEW e, NEW t, t = <<a, b, c, d>> \o <<e>>
  PROVE  DOMAIN t = 1..5 /\ t[1] = a /\ t[2] = b /\ t[3] = c /\ t[4] = d /\ t[5] = e
<1>1. t \in Seq({a, b, c, d, e}) OBVIOUS
<1>2. <<a, b, c, d>> \in Seq({a, b, c, d, e}) /\ <<e>> \in Seq({a, b, c, d, e}) OBVIOUS
<1>3. Len(t) = 5 BY <1>2
<1>4. DOMAIN t = 1..5 BY <1>1, <1>3
<1>5. t[1] = a /\ t[2] = b /\ t[3] = c /\ t[4] = d /\ t[5] = e OBVIOUS
<1> QED BY <1>4, <1>5

LEMMA Appended2 ==
  ASSUME NEW a, NEW b, NEW e, NEW t, t = <<a, b>> \o <<e>>
  PROVE  DOMAIN t = 1..3 /\ t[1] = a /\ t[2] = b /\ t[3] = e
<1>1. t \in Seq({a, b, e}) OBVIOUS
<1>2. <<a, b>> \in Seq({a, b, e}) /\ <<e>> \in Seq({a, b, e}) OBVIOUS
<1>3. Len(t) = 3 BY <1>2
<1>4. DOMAIN t = 1..3 BY <1>1, <1>3
<1>5. t[1] = a /\ t[2] = b /\ t[3] = e OBVIOUS
<1> QED BY <1>4, <1>5

LEMMA Appended0 ==
  ASSUME NEW e, NEW t, t = <<>> \o <<e>>
  PROVE  DOMAIN t = 1..1 /\ t[1] = e
<1>1. t = <<e>> OBVIOUS
<1> QED BY <1>1

LEMMA TermsOfId ==
  ASSUME NEW q, NEW c, NEW i, ~q.ordered
  PROVE  DOMAIN Terms(q, c, i) = 1..1 /\ Terms(q, c, i)[1] = Term(NumberKey(i), TRUE)
<1>1. Terms(q, c, i) = <<>> \o <<Term(NumberKey(i), TRUE)>> BY DEF Terms, Identity
<1> QED BY <1>1, Appended0

ColumnTerms(t, q, cell, i) ==
  /\ DOMAIN t = 1..3 /\ t[1] = Term(NumberKey(IF cell # Null THEN 1 ELSE 0), TRUE)
  /\ t[2] = Term(cell, ~q.descending) /\ t[3] = Term(NumberKey(i), TRUE)

LEMMA TermsOfColumn ==
  ASSUME NEW q, NEW c, NEW i, q.ordered, table
  PROVE  ColumnTerms(Terms(q, c, i), q, Cell(onPg, c[i].child), i)
<1> DEFINE t == Terms(q, c, i)
           last == Term(NumberKey(i), TRUE)
           first == Term(NumberKey(IF Cell(onPg, c[i].child) # Null THEN 1 ELSE 0), TRUE)
           second == Term(Cell(onPg, c[i].child), ~q.descending)
<1>1. t = <<first, second>> \o <<last>>
  BY DEF Terms, Identity
<1> HIDE DEF t, first, second, last
<1>2. DOMAIN t = 1..3 /\ t[1] = first /\ t[2] = second /\ t[3] = last
  BY <1>1, Appended2
<1> QED BY <1>2 DEF t, first, second, last, ColumnTerms

FieldTerms(t, q, v, i) ==
  LET key == Parameter(onPg, v)
  IN /\ DOMAIN t = 1..5 /\ t[1] = Term(RankKey(v), TRUE)
     /\ t[2] = Term(Only(key, v.type = "boolean"), ~q.descending)
     /\ t[3] = Term(Only(key, v.type \in Numeric), ~q.descending)
     /\ t[4] = Term(Only(key, v.type = "string"), ~q.descending)
     /\ t[5] = Term(NumberKey(i), TRUE)

LEMMA TermsOfField ==
  ASSUME NEW q, NEW c, NEW i, q.ordered, ~table
  PROVE  FieldTerms(Terms(q, c, i), q, Value(onPg, c[i]), i)
<1> DEFINE v == Value(onPg, c[i])
           key == Parameter(onPg, v)
           t == Terms(q, c, i)
           t5 == Term(NumberKey(i), TRUE)
           t1 == Term(RankKey(v), TRUE)
           t2 == Term(Only(key, v.type = "boolean"), ~q.descending)
           t3 == Term(Only(key, v.type \in Numeric), ~q.descending)
           t4 == Term(Only(key, v.type = "string"), ~q.descending)
<1>1. t = <<t1, t2, t3, t4>> \o <<t5>>
  BY DEF Terms, Identity
<1> HIDE DEF t, t1, t2, t3, t4, t5
<1>2. DOMAIN t = 1..5 /\ t[1] = t1 /\ t[2] = t2 /\ t[3] = t3 /\ t[4] = t4 /\ t[5] = t5
  BY <1>1, Appended4
<1> QED BY <1>2 DEF t, t1, t2, t3, t4, t5, FieldTerms

(* The CASE over the types in SQL numbers them as the documentation does.     *)
LEMMA RankIsPlace ==
  ASSUME onPg \in BOOLEAN, NEW v, IsValue(v)
  PROVE  RankKey(v) = NumberKey(PlaceOf(v.type) - 1)
<1>1. v.type \in Types BY DEF IsValue
<1>2. CASE onPg
  BY <1>1, <1>2 DEF RankKey, TypeOf, Domain, PlaceOf, Types, Scalars, Numeric
<1>3. CASE ~onPg
  BY <1>1, <1>3 DEF RankKey, TypeOf, Domain, PlaceOf, Types, Scalars, Numeric
<1> QED BY <1>2, <1>3

-----------------------------------------------------------------------------
(* Two keys of a class, in the direction of their term.                      *)
LEMMA KeysCompare ==
  ASSUME NEW a, NEW b, NEW ascending \in BOOLEAN, a.class # "null", b.class # "null"
  PROVE  KeyBefore(Term(a, ascending), Term(b, ascending))
           <=> IF ascending THEN a.val < b.val ELSE b.val < a.val
<1>1. a # Null /\ b # Null BY DEF Null
<1> QED BY <1>1 DEF KeyBefore, Term

(* Two numbers that ascend.                                                  *)
LEMMA NumbersCompare ==
  ASSUME NEW m, NEW n
  PROVE  KeyBefore(Term(NumberKey(m), TRUE), Term(NumberKey(n), TRUE)) <=> m < n
<1> DEFINE a == NumberKey(m)  b == NumberKey(n)
<1>1. a.class = "number" /\ b.class = "number" /\ a.val = m /\ b.val = n BY DEF NumberKey
<1>2. TRUE \in BOOLEAN OBVIOUS
<1> HIDE DEF a, b
<1>3. a.class # "null" /\ b.class # "null" BY <1>1
<1>4. KeyBefore(Term(a, TRUE), Term(b, TRUE)) <=> IF TRUE THEN a.val < b.val ELSE b.val < a.val
  BY <1>2, <1>3, KeysCompare, Zenon
<1> QED BY <1>1, <1>4 DEF a, b

(* What Earlier says of two values.                                          *)
LEMMA EarlierSays ==
  ASSUME NEW q, NEW c, NEW i, NEW j, Earlier(q, c, i, j)
  PROVE  LET v == Found(c[i])  w == Found(c[j])
         IN /\ Ties(q, v, w) => i < j
            /\ ~Ties(q, v, w) /\ Place(v) # Place(w) => Place(v) < Place(w)
            /\ ~Ties(q, v, w) /\ Place(v) = Place(w) =>
                 /\ v.type \in Scalars
                 /\ IF q.descending THEN w.val < v.val ELSE v.val < w.val
<1> DEFINE v == Found(c[i])  w == Found(c[j])
<1>1. Earlier(q, c, i, j) =
        (IF Ties(q, v, w) THEN i < j
         ELSE IF Place(v) # Place(w) THEN Place(v) < Place(w)
         ELSE IF q.descending THEN w.val < v.val ELSE v.val < w.val)
  BY Zenon DEF Earlier, Ties
<1>2. Ties(q, v, w) => i < j BY <1>1, Zenon
<1>3. ~Ties(q, v, w) /\ Place(v) # Place(w) => Place(v) < Place(w) BY <1>1, Zenon
<1>4. ~Ties(q, v, w) /\ Place(v) = Place(w) => v.type \in Scalars BY DEF Ties
<1>5. ~Ties(q, v, w) /\ Place(v) = Place(w) => IF q.descending THEN w.val < v.val ELSE v.val < w.val
  BY <1>1, Zenon
<1> QED BY <1>2, <1>3, <1>4, <1>5

(* Without an order asked for, the ID alone.                                 *)
LEMMA IdIsBefore ==
  ASSUME NEW q, ~q.ordered, NEW c, NEW i, NEW j, Earlier(q, c, i, j)
  PROVE  TermsBefore(Terms(q, c, i), Terms(q, c, j))
<1>1. i < j BY EarlierSays DEF Ties
<1>4. KeyBefore(Term(NumberKey(i), TRUE), Term(NumberKey(j), TRUE)) BY <1>1, NumbersCompare
<1>2. KeyBefore(Terms(q, c, i)[1], Terms(q, c, j)[1]) BY <1>4, TermsOfId
<1>5. DOMAIN Terms(q, c, i) = 1..1 BY TermsOfId, Zenon
<1>3. 1 \in DOMAIN Terms(q, c, i) BY <1>5
<1> QED BY <1>2, <1>3 DEF TermsBefore

(* The terms of a document: the place of its type, the value under the term   *)
(* of its type, and the ID.                                                 *)
LEMMA FieldIsBefore ==
  ASSUME onPg \in BOOLEAN, ~table, NEW c, IsContents(c), NEW q, q.ordered,
         NEW i \in Ids, NEW j \in Ids, c[i] # Absent, c[j] # Absent, Earlier(q, c, i, j)
  PROVE  TermsBefore(Terms(q, c, i), Terms(q, c, j))
<1> DEFINE v == Found(c[i])  w == Found(c[j])
           kv == Parameter(onPg, v)  kw == Parameter(onPg, w)
           a == Terms(q, c, i)  b == Terms(q, c, j)
<1>1. /\ IsValue(v) /\ IsValue(w) /\ Value(onPg, c[i]) = v /\ Value(onPg, c[j]) = w
  BY HeldIsStored
<1>2. /\ DOMAIN a = 1..5 /\ a[1] = Term(RankKey(v), TRUE)
      /\ a[2] = Term(Only(kv, v.type = "boolean"), ~q.descending)
      /\ a[3] = Term(Only(kv, v.type \in Numeric), ~q.descending)
      /\ a[4] = Term(Only(kv, v.type = "string"), ~q.descending)
      /\ a[5] = Term(NumberKey(i), TRUE)
  <2>1. FieldTerms(a, q, v, i) BY <1>1, TermsOfField
  <2> HIDE DEF a, v
  <2> QED BY <2>1 DEF FieldTerms
<1>3. /\ b[1] = Term(RankKey(w), TRUE)
      /\ b[2] = Term(Only(kw, w.type = "boolean"), ~q.descending)
      /\ b[3] = Term(Only(kw, w.type \in Numeric), ~q.descending)
      /\ b[4] = Term(Only(kw, w.type = "string"), ~q.descending)
      /\ b[5] = Term(NumberKey(j), TRUE)
  <2>1. FieldTerms(b, q, w, j) BY <1>1, TermsOfField
  <2> HIDE DEF b, w
  <2> QED BY <2>1 DEF FieldTerms
<1>4. /\ RankKey(v) = NumberKey(Place(v) - 1) /\ RankKey(w) = NumberKey(Place(w) - 1)
      /\ Place(v) = PlaceOf(v.type) /\ Place(w) = PlaceOf(w.type)
      /\ Place(v) \in 1..7 /\ Place(w) \in 1..7
  BY <1>1, RankIsPlace, PlaceIsPlaceOf
<1>5. /\ v.type \in Types /\ w.type \in Types /\ v.val \in Int /\ w.val \in Int BY <1>1 DEF IsValue
<1> HIDE DEF a, b, v, w
<1>6. CASE Place(v) # Place(w)
  <2>1. Place(v) < Place(w) BY <1>6, EarlierSays DEF Ties, v, w
  <2>2. Place(v) - 1 < Place(w) - 1 BY <1>4, <2>1
  <2>3. KeyBefore(a[1], b[1]) BY <1>2, <1>3, <1>4, <2>2, NumbersCompare
  <2>4. 1 \in DOMAIN a BY <1>2
  <2> QED BY <2>3, <2>4 DEF TermsBefore, a, b
<1>7. CASE Place(v) = Place(w)
  <2>1. /\ a[1].key = b[1].key
        /\ v.type = "boolean" <=> w.type = "boolean"
        /\ v.type \in Numeric <=> w.type \in Numeric
        /\ v.type = "string" <=> w.type = "string"
    <3>1. RankKey(v) = RankKey(w) BY <1>4, <1>7
    <3>2. PlaceOf(v.type) = PlaceOf(w.type) BY <1>4, <1>7
    <3> QED BY <1>2, <1>3, <1>5, <3>1, <3>2 DEF Term, PlaceOf, Types, Scalars, Numeric
  <2>2. v.type \notin Scalars => a[2].key = Null /\ a[3].key = Null /\ a[4].key = Null
    BY <1>2 DEF Term, Only, Scalars, Numeric
  <2>3. v.type \notin Scalars => b[2].key = Null /\ b[3].key = Null /\ b[4].key = Null
    BY <1>3, <2>1 DEF Term, Only, Scalars, Numeric
  <2>4. v.type \in Scalars => Class(onPg, v.type) = Class(onPg, w.type)
    BY <2>1 DEF Class, Scalars, Numeric
  <2>5. CASE Ties(q, v, w)
    <3>1. v.type \in Scalars => kv = kw BY <2>4, <2>5 DEF Parameter, Ties
    <3>2. v.type \in Scalars => a[2].key = b[2].key /\ a[3].key = b[3].key /\ a[4].key = b[4].key
      BY <1>2, <1>3, <2>1, <3>1 DEF Term, Only
    <3>3. \A k \in 1..4 : a[k].key = b[k].key BY <2>1, <2>2, <2>3, <3>2
    <3>4. i < j BY <2>5, EarlierSays DEF v, w
    <3>5. KeyBefore(a[5], b[5]) BY <1>2, <1>3, <3>4, NumbersCompare
    <3>6. 5 \in DOMAIN a BY <1>2
    <3> QED BY <3>3, <3>5, <3>6 DEF TermsBefore, a, b
  <2>6. CASE ~Ties(q, v, w)
    <3>1. v.type \in Scalars /\ (IF q.descending THEN w.val < v.val ELSE v.val < w.val)
      BY <1>7, <2>6, EarlierSays DEF v, w
    <3>2. KeyBefore(Term(kv, ~q.descending), Term(kw, ~q.descending))
      <4>1. kv.class # "null" /\ kw.class # "null" /\ kv.val = v.val /\ kw.val = w.val
        BY DEF Parameter, Class
      <4>2. (~q.descending) \in BOOLEAN OBVIOUS
      <4> HIDE DEF kv, kw
      <4> QED BY <3>1, <4>1, <4>2, KeysCompare
    <3>3. CASE v.type = "boolean"
      <4>1. KeyBefore(a[2], b[2]) BY <1>2, <1>3, <2>1, <3>2, <3>3 DEF Only
      <4>2. 2 \in DOMAIN a BY <1>2
      <4>5. 1..(2 - 1) = {1} OBVIOUS
      <4>6. \A k \in 1..(2 - 1) : a[k].key = b[k].key BY <4>5, <1>2, <2>1
      <4> QED BY <4>1, <4>2, <4>6 DEF TermsBefore, a, b
    <3>4. CASE v.type \in Numeric
      <4>1. KeyBefore(a[3], b[3]) BY <1>2, <1>3, <2>1, <3>2, <3>4 DEF Only
      <4>2. v.type # "boolean" BY <3>4 DEF Numeric
      <4>3. a[2].key = b[2].key BY <1>2, <1>3, <2>1, <4>2 DEF Only, Term
      <4>4. 3 \in DOMAIN a BY <1>2
      <4>5. 1..(3 - 1) = {1, 2} OBVIOUS
      <4>6. \A k \in 1..(3 - 1) : a[k].key = b[k].key BY <4>5, <1>2, <2>1, <4>3
      <4> QED BY <4>1, <4>4, <4>6 DEF TermsBefore, a, b
    <3>5. CASE v.type = "string"
      <4>1. KeyBefore(a[4], b[4]) BY <1>2, <1>3, <2>1, <3>2, <3>5 DEF Only
      <4>2. v.type # "boolean" /\ v.type \notin Numeric BY <3>5 DEF Numeric
      <4>3. a[2].key = b[2].key /\ a[3].key = b[3].key BY <1>2, <1>3, <2>1, <4>2 DEF Only, Term
      <4>4. 4 \in DOMAIN a BY <1>2
      <4>5. 1..(4 - 1) = {1, 2, 3} OBVIOUS
      <4>6. \A k \in 1..(4 - 1) : a[k].key = b[k].key BY <4>5, <1>2, <2>1, <4>3
      <4> QED BY <4>1, <4>4, <4>6 DEF TermsBefore, a, b
    <3> QED BY <3>1, <3>3, <3>4, <3>5 DEF Scalars, Numeric
  <2> QED BY <2>5, <2>6
<1> QED BY <1>6, <1>7

(* The terms of a row: whether the cell is NULL, the cell, and the ID.        *)
LEMMA ColumnIsBefore ==
  ASSUME table, NEW c, IsContents(c), NEW q, q.ordered,
         NEW i \in Ids, NEW j \in Ids, c[i] # Absent, c[j] # Absent, Earlier(q, c, i, j)
  PROVE  TermsBefore(Terms(q, c, i), Terms(q, c, j))
<1> DEFINE v == Found(c[i])  w == Found(c[j])
           kv == Cell(onPg, v)  kw == Cell(onPg, w)
           a == Terms(q, c, i)  b == Terms(q, c, j)
<1>1. PICK type \in Scalars :
        \A k \in Ids : c[k] # Absent => Found(c[k]) = c[k].child /\ c[k].child.type \in {type, "null"}
  BY CellsOfOneType
<1>2. v = c[i].child /\ w = c[j].child /\ v.type \in {type, "null"} /\ w.type \in {type, "null"}
  BY <1>1
<1>3. /\ DOMAIN a = 1..3 /\ a[1] = Term(NumberKey(IF kv # Null THEN 1 ELSE 0), TRUE)
      /\ a[2] = Term(kv, ~q.descending) /\ a[3] = Term(NumberKey(i), TRUE)
  <2>1. ColumnTerms(a, q, kv, i) BY <1>2, TermsOfColumn
  <2> HIDE DEF a, kv
  <2> QED BY <2>1 DEF ColumnTerms
<1>4. /\ b[1] = Term(NumberKey(IF kw # Null THEN 1 ELSE 0), TRUE)
      /\ b[2] = Term(kw, ~q.descending) /\ b[3] = Term(NumberKey(j), TRUE)
  <2>1. ColumnTerms(b, q, kw, j) BY <1>2, TermsOfColumn
  <2> HIDE DEF b, kw
  <2> QED BY <2>1 DEF ColumnTerms
<1>5. /\ Place(v) = PlaceOf(v.type) /\ Place(w) = PlaceOf(w.type)
      /\ v.val \in Int /\ w.val \in Int
  BY HeldIsStored, PlaceIsPlaceOf DEF IsValue
<1>6. type # "null" BY DEF Scalars
<1>7. /\ v.type = "null" => kv = Null
      /\ v.type # "null" => kv.class # "null" /\ kv.val = v.val /\ kv # Null
      /\ w.type = "null" => kw = Null
      /\ w.type # "null" => kw.class # "null" /\ kw.val = w.val /\ kw # Null
  BY DEF Cell, Null, Parameter, Class
<1> HIDE DEF a, b, v, w
<1>8. CASE v.type # w.type
  <2>1. Place(v) # Place(w) BY <1>2, <1>5, <1>8 DEF PlaceOf, Scalars, Numeric
  <2>2. Place(v) < Place(w) BY <2>1, EarlierSays DEF Ties, v, w
  <2>3. v.type = "null" /\ w.type # "null"
    BY <1>2, <1>5, <1>8, <2>2 DEF PlaceOf, Scalars, Numeric
  <2>4. a[1] = Term(NumberKey(0), TRUE) /\ b[1] = Term(NumberKey(1), TRUE)
    <3> HIDE DEF kv, kw
    <3> QED BY <1>3, <1>4, <1>7, <2>3
  <2>7. KeyBefore(Term(NumberKey(0), TRUE), Term(NumberKey(1), TRUE)) <=> 0 < 1
    BY NumbersCompare, Zenon
  <2>8. KeyBefore(Term(NumberKey(0), TRUE), Term(NumberKey(1), TRUE))
    <3>1. 0 < 1 OBVIOUS
    <3> QED BY <2>7, <3>1
  <2>5. KeyBefore(a[1], b[1]) BY <2>4, <2>8
  <2>6. 1 \in DOMAIN a BY <1>3
  <2> QED BY <2>5, <2>6 DEF TermsBefore, a, b
<1>9. CASE v.type = w.type
  <2>1. a[1] = b[1]
    <3> HIDE DEF kv, kw
    <3> QED BY <1>3, <1>4, <1>7, <1>9
  <2>2. Place(v) = Place(w) BY <1>5, <1>9
  <2>3. CASE Ties(q, v, w)
    <3>1. kv = kw
      <4>1. CASE v.type = "null" BY <1>7, <1>9, <4>1
      <4>2. CASE v.type # "null"
        <5>1. v.val = w.val BY <1>2, <2>3, <4>2 DEF Ties
        <5> QED BY <1>9, <4>2, <5>1 DEF Cell, Parameter
      <4> QED BY <4>1, <4>2
    <3>2. i < j BY <2>3, EarlierSays DEF v, w
    <3>3. KeyBefore(a[3], b[3]) BY <1>3, <1>4, <3>2, NumbersCompare
    <3>4. 1..(3 - 1) = {1, 2} OBVIOUS
    <3>5. a[2] = b[2] BY <1>3, <1>4, <3>1
    <3>6. \A k \in 1..(3 - 1) : a[k].key = b[k].key BY <2>1, <3>4, <3>5
    <3>7. 3 \in DOMAIN a BY <1>3
    <3> QED BY <3>3, <3>6, <3>7 DEF TermsBefore, a, b
  <2>4. CASE ~Ties(q, v, w)
    <3>1. v.type \in Scalars /\ (IF q.descending THEN w.val < v.val ELSE v.val < w.val)
      BY <2>2, <2>4, EarlierSays DEF v, w
    <3>2. KeyBefore(Term(kv, ~q.descending), Term(kw, ~q.descending))
      <4>1. kv.class # "null" /\ kw.class # "null" /\ kv.val = v.val /\ kw.val = w.val
        BY <1>7, <1>9, <3>1 DEF Scalars
      <4>2. (~q.descending) \in BOOLEAN OBVIOUS
      <4> HIDE DEF kv, kw
      <4> QED BY <3>1, <4>1, <4>2, KeysCompare
    <3>3. KeyBefore(a[2], b[2]) BY <1>3, <1>4, <3>2
    <3>4. 1..(2 - 1) = {1} OBVIOUS
    <3>5. \A k \in 1..(2 - 1) : a[k].key = b[k].key BY <2>1, <3>4
    <3>6. 2 \in DOMAIN a BY <1>3
    <3> QED BY <3>3, <3>5, <3>6 DEF TermsBefore, a, b
  <2> QED BY <2>3, <2>4
<1> QED BY <1>8, <1>9

(* What the documentation puts first, ORDER BY puts first.                    *)
LEMMA EarlierIsBefore ==
  ASSUME onPg \in BOOLEAN, NEW c, IsContents(c), NEW q,
         NEW i \in Ids, NEW j \in Ids, c[i] # Absent, c[j] # Absent, Earlier(q, c, i, j)
  PROVE  TermsBefore(Terms(q, c, i), Terms(q, c, j))
BY IdIsBefore, FieldIsBefore, ColumnIsBefore

-----------------------------------------------------------------------------
(* Listed in the documented order.                                           *)
Follows(c, s) == \A j \in DOMAIN s : \A k \in 1..(j - 1) : Earlier(query, c, s[k], s[j])

(* A listing of a finite set has each element at one place.                   *)
LEMMA ListingIsBijection ==
  ASSUME NEW S, IsFiniteSet(S), NEW s \in SetToSeqs(S)
  PROVE  /\ DOMAIN s = 1..Cardinality(S) /\ Cardinality(S) \in Nat
         /\ \A k \in DOMAIN s : s[k] \in S
         /\ \A j, k \in DOMAIN s : s[j] = s[k] => j = k
         /\ \A x \in S : \E k \in DOMAIN s : s[k] = x
<1> DEFINE n == Cardinality(S)
<1>1. s \in [1..n -> S] /\ \A j, k \in 1..n : j # k => s[j] # s[k] BY DEF SetToSeqs
<1>2. n \in Nat BY FS_CardinalityType
<1>3. IsFiniteSet(1..n) /\ Cardinality(1..n) = n BY <1>2, FS_Interval
<1>4. s \in Injection(1..n, S) BY <1>1 DEF Injection, IsInjective
<1>5. s \in Surjection(1..n, S) BY <1>3, <1>4, FS_Injection
<1> QED BY <1>1, <1>2, <1>5 DEF Surjection

(* A finite set has one listing in that order: at the first difference of two  *)
(* each would have the element of the other still to come.                     *)
LEMMA OneListing ==
  ASSUME NEW c, IsContents(c), NEW S \in SUBSET {i \in Ids : c[i] # Absent},
         NEW s \in SetToSeqs(S), NEW t \in SetToSeqs(S), Follows(c, s), Follows(c, t)
  PROVE  s = t
<1> DEFINE n == Cardinality(S)
<1>1. IsFiniteSet(S) BY QueriesAssumption, FS_Subset
<1>2. /\ DOMAIN s = 1..n /\ n \in Nat /\ \A k \in 1..n : s[k] \in S
      /\ \A j, k \in 1..n : s[j] = s[k] => j = k
      /\ \A x \in S : \E k \in 1..n : s[k] = x
  BY <1>1, ListingIsBijection
<1>3. /\ DOMAIN t = 1..n /\ \A k \in 1..n : t[k] \in S
      /\ \A j, k \in 1..n : t[j] = t[k] => j = k
      /\ \A x \in S : \E k \in 1..n : t[k] = x
  BY <1>1, ListingIsBijection
<1>4. s = [k \in 1..n |-> s[k]] /\ t = [k \in 1..n |-> t[k]] BY DEF SetToSeqs
<1> DEFINE T == {k \in 1..n : s[k] # t[k]}
<1>5. T = {}
  <2> SUFFICES ASSUME T # {} PROVE FALSE OBVIOUS
  <2>1. T \subseteq Nat BY <1>2
  <2>2. PICK k \in T : \A j \in T : k <= j
    <3> HIDE DEF T
    <3> QED BY <2>1, Least
  <2>3. k \in 1..n /\ s[k] # t[k] /\ \A j \in 1..n : j < k => s[j] = t[j] BY <1>2, <2>2
  <2>4. PICK l \in 1..n : t[l] = s[k] BY <1>2, <1>3, <2>3
  <2>5. PICK m \in 1..n : s[m] = t[k] BY <1>2, <1>3, <2>3
  <2>6. k < l /\ k < m
    <3>1. l # k /\ m # k BY <2>3, <2>4, <2>5
    <3>2. ~(l < k)
      <4>1. l < k => s[l] = s[k] BY <2>3, <2>4
      <4> QED BY <1>2, <2>3, <2>4, <3>1, <4>1
    <3>3. ~(m < k)
      <4>1. m < k => t[m] = t[k] BY <2>3, <2>5
      <4> QED BY <1>3, <2>3, <2>5, <3>1, <4>1
    <3>4. k \in Nat /\ l \in Nat /\ m \in Nat BY <1>2, <2>3, <2>4, <2>5
    <3> QED BY <3>1, <3>2, <3>3, <3>4
  <2>7. Earlier(query, c, t[k], s[k]) BY <1>3, <2>3, <2>4, <2>6 DEF Follows
  <2>8. Earlier(query, c, s[k], t[k]) BY <1>2, <2>3, <2>5, <2>6 DEF Follows
  <2>9. s[k] \in Ids /\ t[k] \in Ids /\ c[s[k]] # Absent /\ c[t[k]] # Absent BY <1>2, <1>3, <2>3
  <2> QED BY <2>7, <2>8, <2>9, EarlierOrders
<1> QED BY <1>4, <1>5

(* Whatever order the database gives, it is the documented one.               *)
LEMMA SortsAreDocumented ==
  ASSUME Typed, NEW c, IsContents(c), NEW s \in SqlSorts(query, c)
  PROVE  s = Documented(query, c) /\ s \in Seq(Ids)
<1> DEFINE S == {i \in Ids : c[i] # Absent /\ Matches(query.where, Found(c[i]))}
<1>1. /\ s \in SetToSeqs(S)
      /\ \A j \in DOMAIN s : \A k \in 1..(j - 1) : ~TermsBefore(Terms(query, c, s[j]), Terms(query, c, s[k]))
  BY FindsMatches DEF SqlSorts
<1>2. S \in SUBSET {i \in Ids : c[i] # Absent} /\ IsFiniteSet(S)
  BY QueriesAssumption, FS_Subset
<1> HIDE DEF S
<1>3. /\ DOMAIN s = 1..Cardinality(S) /\ Cardinality(S) \in Nat /\ \A k \in DOMAIN s : s[k] \in S
      /\ \A j, k \in DOMAIN s : s[j] = s[k] => j = k
  BY <1>1, <1>2, ListingIsBijection
<1>4. Follows(c, s)
  <2> SUFFICES ASSUME NEW j \in DOMAIN s, NEW k \in 1..(j - 1)
               PROVE  Earlier(query, c, s[k], s[j])
    BY DEF Follows
  <2>1. k \in DOMAIN s /\ k # j BY <1>3
  <2>2. s[j] # s[k] /\ s[j] \in Ids /\ s[k] \in Ids /\ c[s[j]] # Absent /\ c[s[k]] # Absent
    BY <1>2, <1>3, <2>1
  <2>3. ~Earlier(query, c, s[j], s[k]) BY <1>1, <2>2, EarlierIsBefore DEF Typed
  <2> QED BY <2>2, <2>3, EarlierOrders
<1>5. \E t \in SetToSeqs(S) : Follows(c, t) BY <1>1, <1>4
<1>6. Documented(query, c) = CHOOSE t \in SetToSeqs(S) : Follows(c, t)
  BY Zenon DEF Documented, Follows, S
<1>7. Documented(query, c) \in SetToSeqs(S) /\ Follows(c, Documented(query, c))
  BY <1>5, <1>6, Zenon
<1>8. s = Documented(query, c) BY <1>1, <1>2, <1>4, <1>7, OneListing
<1>9. s \in Seq(Ids)
  <2>1. s \in [1..Cardinality(S) -> Ids] BY <1>1, <1>2 DEF SetToSeqs
  <2> QED BY <1>3, <2>1
<1> QED BY <1>8, <1>9

-----------------------------------------------------------------------------
(* What a scope that nobody writes beside reads is what it began with.        *)
Undisturbed == scope = "read" \/ (scope = "write" /\ ~onPg)
UpTo(s, n) == SubSeq(s, 1, IF n < Len(s) THEN n ELSE Len(s))

AnswerInv ==
  LET d == Documented(query, asked)
  IN /\ d \in Seq(Ids) /\ answer.ids = Window(d, answer.offset, answer.limit)
     /\ Undisturbed => asked = begun /\ pages = UpTo(d, answer.offset + answer.limit)

AllContents == IsContents(stored) /\ IsContents(snapshot) /\ IsContents(begun) /\ IsContents(asked)

ScopeInv ==
  /\ scope \in {"none", "read", "write"}
  /\ scope = "read" => snapshot = begun
  /\ scope = "write" /\ ~onPg => stored = begun

QueriesInv ==
  /\ Typed /\ writes \in Nat /\ AllContents /\ ScopeInv
  /\ answer.offset \in Nat /\ answer.limit \in Nat /\ answer.ids \in Seq(Ids) /\ pages \in Seq(Ids)
  /\ answer.limit > 0 => AnswerInv

(* A page is a list of IDs.                                                  *)
LEMMA WindowType ==
  ASSUME NEW S, NEW s \in Seq(S), NEW offset \in Nat, NEW limit \in Nat
  PROVE  Window(s, offset, limit) \in Seq(S)
<1> DEFINE m == offset + 1  n == IF offset + limit < Len(s) THEN offset + limit ELSE Len(s)
<1>1. Len(s) \in Nat /\ \A i \in 1..Len(s) : s[i] \in S BY Zenon, ElementOfSeq, LenProperties
<1>2. m \in Int /\ n \in Int /\ \A i \in m..n : i \in 1..Len(s) BY <1>1
<1> HIDE DEF m, n
<1>3. SubSeq(s, m, n) \in Seq(S) BY <1>1, <1>2, SubSeqProperties
<1> QED BY <1>3 DEF Window, m, n

(* A window that is full ends within the sequence, and the next one begins     *)
(* where it ends; one that is not reaches the end.                           *)
LEMMA WindowsFollow ==
  ASSUME NEW S, NEW s \in Seq(S), NEW offset \in Nat, NEW limit \in Nat, limit > 0
  PROVE  /\ Len(Window(s, offset, limit)) = limit => offset + limit <= Len(s)
         /\ Len(Window(s, offset, limit)) < limit => UpTo(s, offset + limit) = s
         /\ offset <= Len(s) => UpTo(s, offset) \o Window(s, offset, limit) = UpTo(s, offset + limit)
<1> DEFINE m == offset + 1  n == IF offset + limit < Len(s) THEN offset + limit ELSE Len(s)
<1>1. Len(s) \in Nat /\ \A i \in 1..Len(s) : s[i] \in S BY Zenon, ElementOfSeq, LenProperties
<1>2. m \in Int /\ n \in Int /\ \A i \in m..n : i \in 1..Len(s) BY <1>1
<1>3. Len(SubSeq(s, m, n)) = IF m <= n THEN n - m + 1 ELSE 0
  <2> HIDE DEF m, n
  <2> QED BY <1>1, <1>2, SubSeqProperties
<1>4. Window(s, offset, limit) = SubSeq(s, m, n) BY DEF Window
<1>5. Len(Window(s, offset, limit)) = limit => offset + limit <= Len(s) BY <1>1, <1>3, <1>4
<1>6. ASSUME Len(Window(s, offset, limit)) < limit PROVE UpTo(s, offset + limit) = s
  <2>1. ~(offset + limit < Len(s)) BY <1>1, <1>3, <1>4, <1>6
  <2> QED BY <2>1, SubSeqFull DEF UpTo
<1>7. ASSUME offset <= Len(s)
      PROVE  UpTo(s, offset) \o Window(s, offset, limit) = UpTo(s, offset + limit)
  <2>1. UpTo(s, offset) = SubSeq(s, 1, offset)
    <3>1. (IF offset < Len(s) THEN offset ELSE Len(s)) = offset BY <1>1, <1>7
    <3> QED BY <3>1 DEF UpTo
  <2>2. 1 \in 1..(Len(s) + 1) /\ offset \in (1 - 1)..Len(s) /\ n \in offset..Len(s) BY <1>1, <1>7
  <2>3. UpTo(s, offset + limit) = SubSeq(s, 1, n) BY DEF UpTo
  <2> HIDE DEF n
  <2>4. SubSeq(s, 1, offset) \o SubSeq(s, offset + 1, n) = SubSeq(s, 1, n)
    BY <2>2, ConcatAdjacentSubSeq
  <2> QED BY <1>4, <2>1, <2>3, <2>4
<1> QED BY <1>5, <1>6, <1>7

(* The first page is a prefix.                                               *)
LEMMA FirstWindow ==
  ASSUME NEW S, NEW s \in Seq(S), NEW limit \in Nat
  PROVE  Window(s, 0, limit) = UpTo(s, 0 + limit)
BY DEF Window, UpTo

(* What the assumption on the starts says of the state.                       *)
LEMMA StartContents ==
  ASSUME NEW start \in Starts, table = start.table, query = start.query, onPg \in BOOLEAN
  PROVE  Typed /\ start.writes \in Nat /\ IsContents(start.stored)
<1>1. /\ start.table \in BOOLEAN /\ start.writes \in Nat /\ IsPredicate(start.query.where)
      /\ start.stored = [i \in Ids |-> start.stored[i]]
      /\ \A s \in Range(start.stored) \ {Absent} : IsStored(s)
      /\ start.table => IsColumn((Range(start.stored) \ {Absent}) \cup Cells, start.query.where)
  BY QueriesAssumption, Zenon
<1> QED BY <1>1 DEF Typed, IsContents, ContentsOf, Held

LEMMA QueriesStart == QueryInit => QueriesInv
<1> SUFFICES ASSUME QueryInit PROVE QueriesInv OBVIOUS
<1>1. PICK start \in Starts : /\ table = start.table /\ query = start.query
                              /\ stored = start.stored /\ writes = start.writes
  BY DEF QueryInit
<1>2. onPg \in BOOLEAN /\ scope = "none" /\ snapshot = stored /\ begun = stored /\ asked = stored
  BY DEF QueryInit
<1>3. Typed /\ writes \in Nat /\ IsContents(stored) BY <1>1, <1>2, StartContents
<1>4. AllContents /\ ScopeInv BY <1>2, <1>3 DEF AllContents, ScopeInv
<1>5. answer.offset = 0 /\ answer.limit = 0 /\ answer.ids = <<>> /\ pages = <<>>
  BY DEF QueryInit, NoAnswer
<1> QED BY <1>3, <1>4, <1>5 DEF QueriesInv

(* What other clients write keeps the contents of one kind.                  *)
LEMMA WriteKeeps ==
  ASSUME QueriesInv, NEW i \in Ids, NEW s \in Contents, UNCHANGED <<table, query>>,
         stored' = [stored EXCEPT ![i] = s]
  PROVE  IsContents(stored)'
<1>1. IsContents(stored) BY DEF QueriesInv, AllContents
<1>2. stored' = [k \in Ids |-> stored'[k]] BY <1>1 DEF IsContents, ContentsOf
<1>3. Held(stored') \subseteq Held(stored) \cup ({s} \ {Absent})
  BY <1>1 DEF Held, Range, IsContents, ContentsOf
<1>4. s # Absent => s \in (IF table THEN Cells ELSE Fields) BY DEF Contents
<1>5. \A v \in Held(stored') : IsStored(v)
  BY <1>1, <1>3, <1>4, QueriesAssumption DEF IsContents, ContentsOf
<1>6. ASSUME table PROVE IsColumn(Held(stored') \cup Cells, query.where)
  <2>1. IsColumn(Held(stored) \cup Cells, query.where) BY <1>1, <1>6 DEF IsContents, ContentsOf
  <2>2. Held(stored') \cup Cells \subseteq Held(stored) \cup Cells BY <1>3, <1>4, <1>6
  <2> QED BY <2>1, <2>2 DEF IsColumn
<1> QED BY <1>2, <1>5, <1>6 DEF IsContents, ContentsOf, Held

(* A find answers with a page of the documented order of what it sees; in an   *)
(* undisturbed scope that is what the scope began with, and a page that was     *)
(* full ended where this one begins.                                          *)
LEMMA FindStep ==
  ASSUME QueriesInv, NEW offset \in Nat, NEW limit \in Nat, limit > 0, Find(offset, limit),
         \/ offset = 0
         \/ /\ answer.limit = limit /\ Len(answer.ids) = limit
            /\ offset = answer.offset + answer.limit
  PROVE  QueriesInv'
<1>1. limit \in Nat /\ limit > 0 OBVIOUS
<1>2. UNCHANGED <<onPg, table, query, stored, scope, snapshot, writes, begun>> BY DEF Find
<1>3. asked' = Seen /\ IsContents(Seen)
  BY DEF Find, Seen, Pinned, QueriesInv, AllContents, ScopeInv
<1>4. ~SqlFails(query, Seen) BY <1>3, FindsMatches DEF QueriesInv
<1>5. PICK s \in SqlSorts(query, Seen) :
        /\ answer' = [offset |-> offset, limit |-> limit, ids |-> Window(s, offset, limit)]
        /\ pages' = IF scope = "none" THEN <<>>
                    ELSE IF offset = 0 THEN Window(s, offset, limit)
                    ELSE pages \o Window(s, offset, limit)
  BY <1>4, Zenon DEF Find
<1>6. s = Documented(query, Seen) /\ s \in Seq(Ids) BY <1>3, SortsAreDocumented DEF QueriesInv
<1>7. Window(s, offset, limit) \in Seq(Ids) BY <1>1, <1>6, WindowType
<1>8. /\ answer'.offset = offset /\ answer'.limit = limit
      /\ answer'.ids = Window(s, offset, limit)
  BY <1>5
<1>9. pages' \in Seq(Ids) BY <1>5, <1>7 DEF QueriesInv
<1>10. Typed' /\ writes' \in Nat /\ AllContents' /\ ScopeInv'
  BY <1>2, <1>3 DEF QueriesInv, Typed, AllContents, IsContents, ScopeInv
<1>11. AnswerInv'
  <2>1. Documented(query', asked') = s BY <1>2, <1>3, <1>6
  <2>2. ASSUME Undisturbed' PROVE asked' = begun' /\ pages' = UpTo(s, offset + limit)
    <3>1. Undisturbed /\ scope # "none" BY <1>2, <2>2 DEF Undisturbed
    <3>2. Seen = begun BY <3>1 DEF Undisturbed, Seen, Pinned, QueriesInv, ScopeInv
    <3>3. CASE offset = 0 BY <1>1, <1>2, <1>3, <1>5, <1>6, <3>1, <3>2, <3>3, FirstWindow
    <3>4. CASE offset # 0
      <4>1. /\ answer.limit = limit /\ Len(answer.ids) = limit
            /\ offset = answer.offset + answer.limit /\ answer.offset \in Nat
        BY <3>4 DEF QueriesInv
      <4>2. /\ asked = begun /\ answer.ids = Window(s, answer.offset, limit)
            /\ pages = UpTo(s, offset)
        <5>1. AnswerInv /\ Undisturbed BY <1>1, <3>1, <4>1 DEF QueriesInv
        <5>2. asked = begun /\ Documented(query, asked) = s BY <1>6, <3>2, <5>1 DEF AnswerInv
        <5> QED BY <4>1, <5>1, <5>2 DEF AnswerInv
      <4>3. offset <= Len(s)
        <5>1. Len(Window(s, answer.offset, limit)) = limit BY <4>1, <4>2
        <5>2. answer.offset + limit <= Len(s) BY <1>1, <1>6, <4>1, <5>1, WindowsFollow
        <5> QED BY <4>1, <5>2
      <4>4. pages \o Window(s, offset, limit) = UpTo(s, offset + limit)
        <5>1. UpTo(s, offset) \o Window(s, offset, limit) = UpTo(s, offset + limit)
          <6>1. s \in Seq(Ids) BY <1>6
          <6> QED BY <1>1, <4>3, <6>1, WindowsFollow
        <5> QED BY <4>2, <5>1
      <4> QED BY <1>2, <1>3, <1>5, <3>1, <3>2, <3>4, <4>4
    <3> QED BY <3>3, <3>4
  <2> QED BY <1>6, <1>8, <2>1, <2>2 DEF AnswerInv
<1> QED BY <1>1, <1>7, <1>8, <1>9, <1>10, <1>11 DEF QueriesInv

(* Each action keeps the invariant.                                          *)
LEMMA QueriesStep == QueriesInv /\ [QueryNext]_queryVars => QueriesInv'
<1> SUFFICES ASSUME QueriesInv, [QueryNext]_queryVars PROVE QueriesInv' OBVIOUS
<1> USE DEF QueriesInv
<1>1. ASSUME NEW i \in Ids, NEW s \in Contents, Write(i, s) PROVE QueriesInv'
  <2>1. UNCHANGED <<onPg, table, query, scope, snapshot, answer, begun, asked, pages>>
    BY <1>1 DEF Write
  <2>2. IsContents(stored)' BY <1>1, <2>1, WriteKeeps DEF Write
  <2>3. writes' \in Nat BY <1>1 DEF Write
  <2>4. AllContents' BY <2>1, <2>2 DEF AllContents, IsContents
  <2>5. ScopeInv' BY <1>1, <2>1 DEF ScopeInv, Typed, Write
  <2>6. AnswerInv => AnswerInv' BY <2>1 DEF AnswerInv, Undisturbed
  <2> QED BY <2>1, <2>3, <2>4, <2>5, <2>6 DEF Typed
<1>2. ASSUME NEW kind \in {"read", "write"}, Begin(kind) PROVE QueriesInv'
  <2>1. /\ UNCHANGED <<onPg, table, query, stored, writes>> /\ scope' = kind
        /\ snapshot' = stored /\ begun' = stored /\ asked' = stored /\ pages' = <<>>
        /\ answer' = NoAnswer
    BY <1>2 DEF Begin
  <2>2. AllContents' /\ ScopeInv' BY <2>1 DEF AllContents, IsContents, ScopeInv
  <2>3. answer'.offset = 0 /\ answer'.limit = 0 /\ answer'.ids = <<>> BY <2>1 DEF NoAnswer
  <2> QED BY <2>1, <2>2, <2>3 DEF Typed
<1>3. ASSUME End PROVE QueriesInv'
  <2>1. /\ UNCHANGED <<onPg, table, query, stored, writes>> /\ scope' = "none"
        /\ snapshot' = stored /\ begun' = stored /\ asked' = stored /\ pages' = <<>>
        /\ answer' = NoAnswer
    BY <1>3 DEF End
  <2>2. AllContents' /\ ScopeInv' BY <2>1 DEF AllContents, IsContents, ScopeInv
  <2>3. answer'.offset = 0 /\ answer'.limit = 0 /\ answer'.ids = <<>> BY <2>1 DEF NoAnswer
  <2> QED BY <2>1, <2>2, <2>3 DEF Typed
<1>4. ASSUME NEW limit \in Limits, FindFirst(limit) PROVE QueriesInv'
  BY <1>4, FindStep, QueriesAssumption DEF FindFirst
<1>5. ASSUME FindNext PROVE QueriesInv'
  <2>1. /\ answer.limit > 0 /\ Len(answer.ids) = answer.limit
        /\ Find(answer.offset + answer.limit, answer.limit)
    BY <1>5 DEF FindNext, Following
  <2>2. answer.limit \in Nat /\ answer.offset + answer.limit \in Nat OBVIOUS
  <2> QED BY <2>1, <2>2, FindStep
<1>6. CASE UNCHANGED queryVars
  <2>1. UNCHANGED <<onPg, table, query, stored, scope, snapshot, answer, writes, begun, asked, pages>>
    BY <1>6 DEF queryVars
  <2>2. AllContents' /\ ScopeInv' /\ (AnswerInv => AnswerInv')
    BY <2>1 DEF AllContents, IsContents, ScopeInv, AnswerInv, Undisturbed
  <2> QED BY <2>1, <2>2 DEF Typed
<1> QED BY <1>1, <1>2, <1>3, <1>4, <1>5, <1>6 DEF QueryNext

(* The invariant of Queries: the contents are such that SQL is exact on them   *)
(* and the answers are pages of the documented order (Store.find).             *)
THEOREM QueriesInvariant == QuerySpec => []QueriesInv
BY QueriesStart, QueriesStep, PTL DEF QuerySpec

(* Each find answers with the page of the documented order that was asked for, *)
(* for every predicate, order, contents and number of records, on both         *)
(* backends (compile_predicate, compile_order, Store.find).                   *)
THEOREM AnswersAreExact == QuerySpec => []AnswersExact
<1>1. QueriesInv => AnswersExact BY DEF QueriesInv, AnswerInv, AnswersExact
<1> QED BY <1>1, QueriesInvariant, PTL

(* The pages of a read scope, and of every scope of SQLite, hold each match    *)
(* exactly once in the documented order, whatever others write between them     *)
(* (Store.find, Backend.begin).                                               *)
THEOREM PagesArePartitions == QuerySpec => []PagesPartition
<1>1. QueriesInv => PagesPartition
  <2> SUFFICES ASSUME QueriesInv, AllRead, Undisturbed PROVE pages = Documented(query, begun)
    BY DEF PagesPartition, Undisturbed
  <2> DEFINE d == Documented(query, asked)
  <2>1. /\ d \in Seq(Ids) /\ answer.ids = Window(d, answer.offset, answer.limit)
        /\ asked = begun /\ pages = UpTo(d, answer.offset + answer.limit)
    BY DEF QueriesInv, AnswerInv, AllRead
  <2>2. answer.offset \in Nat /\ answer.limit \in Nat /\ answer.limit > 0
        /\ Len(answer.ids) < answer.limit
    BY DEF QueriesInv, AllRead
  <2> HIDE DEF d
  <2>3. pages = d BY <2>1, <2>2, WindowsFollow
  <2> QED BY <2>1, <2>3 DEF d
<1> QED BY <1>1, QueriesInvariant, PTL

(* No find is refused by the database, and the answers are lists of IDs        *)
(* (compile_predicate).                                                     *)
THEOREM QueriesTypes == QuerySpec => []QueriesTypeOK
<1>1. QueriesInv => QueriesTypeOK
  BY DEF QueriesInv, QueriesTypeOK, Typed, AllContents, IsContents, ContentsOf, Held, Range
<1> QED BY <1>1, QueriesInvariant, PTL
=============================================================================
