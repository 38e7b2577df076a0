----------------------------- MODULE MCRevwalk ------------------------------
(***************************************************************************)
(* All histories of Size commits, numbered so that parents come first,     *)
(* with up to two parents each; those of the second commit may be the same *)
(* commit twice.  When all commits are stored there are three points in    *)
(* time, enough for skewed clocks, ties and a strict order of three        *)
(* generations; when one is missing there are two.                         *)
(***************************************************************************)
EXTENDS Revwalk

CONSTANT Size

MCCommits == 1..Size

ParentLists(c) ==
  {<<>>} \cup {<<p>> : p \in 1..(c - 1)}
    \cup {s \in (1..(c - 1)) \X (1..(c - 1)) : s[1] # s[2] \/ c = 2}

Graphs ==
  {g \in [MCCommits -> UNION {ParentLists(c) : c \in MCCommits}] :
     \A c \in MCCommits : g[c] \in ParentLists(c)}

MCHistories ==
  [parents : Graphs, time : [MCCommits -> 1..3], stored : {MCCommits}]
    \cup [parents : Graphs, time : [MCCommits -> 1..2],
          stored : {MCCommits \ {c} : c \in MCCommits}]
=============================================================================
