----------------------------- MODULE MCMigrations -----------------------------
(* The requests of the instance TLC checks.                                 *)
EXTENDS Migrations

MCTable(n) == [op |-> "table", name |-> n, ends |-> {}]
MCLink(n, ends) == [op |-> "relationship", name |-> n, ends |-> ends]
MCRule(n, r) == [op |-> "rule", name |-> n, rule |-> r]
MCRevision(id, operations) == [id |-> id, operations |-> operations]

MCFirst == MCRevision(1, <<Collection("a")>>)
MCSecond == MCRevision(2, <<MCTable("b"), MCLink("l", {"a", "b"})>>)
MCThird == MCRevision(3, <<MCRule("a", "r"), MCRule("a", "r")>>)

(* Growing lists as a program keeps them, one that starts later, one whose   *)
(* first revision was edited, one out of order, and one whose second         *)
(* revision fails.                                                          *)
MCRequests ==
  {<<MCFirst>>,
   <<MCFirst, MCSecond, MCThird>>,
   <<MCThird>>,
   <<MCRevision(1, <<MCTable("a")>>)>>,
   <<MCSecond, MCFirst>>,
   <<MCFirst, MCRevision(2, <<MCLink("l", {"a", "c"})>>)>>}
=============================================================================
