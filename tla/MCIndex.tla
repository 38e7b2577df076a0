------------------------------ MODULE MCIndex ------------------------------
(* Small index files: two tracked paths, two contents, two stats. *)
EXTENDS IndexHistory

CONSTANTS index, p1, p2, b1, b2, i1, i2, i3, s1, s2

MCSymmetry == Permutations(Procs) \cup Permutations(Bytes) \cup Permutations(Stats)
=============================================================================
