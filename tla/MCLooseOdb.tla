----------------------------- MODULE MCLooseOdb -----------------------------
(***************************************************************************)
(* Small object databases: two objects that share a fanout directory and   *)
(* one prefix that abbreviates both of them.                               *)
(***************************************************************************)
EXTENDS OdbHistory

CONSTANTS o1, o2, ab, fan1

MCMatch == [a \in Abbrevs |-> Objects]
MCFanOf == [x \in Objects \cup Abbrevs |-> fan1]
ProcSymmetry == Permutations(Procs)
=============================================================================
