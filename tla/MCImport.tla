------------------------------ MODULE MCImport -------------------------------
(* Instances of ImportSystem for TLC. *)
EXTENDS ImportSystem, TLC

CONSTANTS i1, i2, m1, m2, e1, e2

\* One import whose two mappings yield overlapping emails.
TwoMappings == [i \in Imports |-> [m \in Mappings |->
                   IF m = m1 THEN {e1} ELSE {e1, e2}]]

WorkerSymmetry == Permutations(Workers)
ImportSymmetry == Permutations(Imports) \cup Permutations(Workers)
=============================================================================
