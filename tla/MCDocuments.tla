------------------------------ MODULE MCDocuments ------------------------------
(* Two documents: one that may be written three times while the other is not  *)
(* there, or both once, which deletions can lock crosswise.                  *)
EXTENDS Documents

CONSTANTS a, b

MCIds == {a, b}

MCLoads == {[i \in MCIds |-> IF i = a THEN 3 ELSE 0], [i \in MCIds |-> 1]}

(* A document that declares the collection before the other is replaced.      *)
MCMissingLoads == {[i \in MCIds |-> IF i = a THEN 2 ELSE 1]}
=============================================================================
