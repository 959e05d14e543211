------------------------------- MODULE MCTransfer -------------------------------
(* The instance of Transfer the run checks: a collection "c" with one rule and *)
(* a relationship "a" of it with itself, sound, damaged in every way that      *)
(* check looks for, or without a part of its metadata, which check does not.  *)
EXTENDS Transfer

Small == Literal("digits", 1)
Half == Literal("point", 2)

(* An integer, a large float as each backend keeps it (on SQLite the digits   *)
(* are raw SQL's), and an integer beyond every float.                        *)
MCLiterals == {Small, Literal("exponent", -6), Literal("digits", -6), Literal("digits", 8)}

MCNames == <<"a", "c">>
MCRules == {"require"}
MCStrayRows == [a |-> {<<2, 3>>}, c |-> {<<1, 1, TRUE, Small>>, <<3, 0, TRUE, Small>>, <<3, 1, FALSE, Small>>,
                       <<3, 1, TRUE, Literal("digits", 6)>>}]

Collection(rules) == [op |-> "collection", source |-> None, target |-> None, rules |-> rules]
Edges == [op |-> "relationship", source |-> "c", target |-> "c", rules |-> {}]

Specs ==
  {<<>>, [a |-> Edges]} \cup {[c |-> Collection(r)] : r \in SUBSET MCRules}
    \cup {[a |-> Edges, c |-> Collection(r)] : r \in SUBSET MCRules}

Revision(i, ops, sealed) == [id |-> i, ops |-> ops, sealed |-> sealed]

(* What migrations recorded, whether or not the metadata still has it.        *)
Logs ==
  LET Made(n, spec) == <<"create", n, spec>>
      First(sealed) == Revision(1, {Made("c", Collection({}))}, sealed)
  IN {<<>>, <<First(TRUE)>>, <<First(FALSE)>>, <<First(TRUE), Revision(2, {Made("a", Edges)}, TRUE)>>,
      <<First(TRUE), Revision(2, {<<"rule", "c", "require">>}, TRUE)>>}

RowSets(specs) ==
  [a : IF "a" \in DOMAIN specs THEN SUBSET {<<1, 2>>} ELSE {{}},
   c : IF "c" \in DOMAIN specs
         THEN {{}, {<<1, 2, TRUE, Half>>, <<2, 1, FALSE, Small>>}}
              \cup {{<<1, 2, TRUE, Half>>, <<2, 1, TRUE, lit>>} : lit \in MCLiterals}
         ELSE {{}}]

MCSources ==
  UNION {{[made |-> specs # <<>> \/ log # <<>>, specs |-> specs, tables |-> tables, guards |-> guards,
           triggers |-> extra, rows |-> rows, log |-> log] :
            tables \in {DOMAIN specs, DOMAIN specs \ {"c"}},
            guards \in SUBSET {<<n, r>> \in (DOMAIN specs) \X MCRules : r \in specs[n].rules},
            extra \in BOOLEAN, rows \in RowSets(specs), log \in Logs} :
         specs \in Specs}
=============================================================================
