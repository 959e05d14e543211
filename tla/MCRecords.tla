------------------------------- MODULE MCRecords -------------------------------
(* The instance of Records the runs check: one pair of records that two        *)
(* relationships can link.                                                   *)
EXTENDS Records, TLC

CONSTANTS i1, i2

MCPairs == {<<i1, i2>>}

(* The clients are alike, and so are the columns.                            *)
MCSymmetry == Permutations(Clients) \cup Permutations(Columns)
=============================================================================
