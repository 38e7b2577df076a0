------------------------------- MODULE MCOdb -------------------------------
(***************************************************************************)
(* The object database in two scopes, and the texts of ids alone; the      *)
(* first state chooses one of the three.                                   *)
(*                                                                         *)
(* "writers": three processes on one object in one directory, with every   *)
(* fault.  "backends": two processes on two objects, with one    *)
(* prefix for both, in two directories attached in any order, and no       *)
(* fault.  "ids": ids of two bytes.                                        *)
(***************************************************************************)
EXTENDS MCLooseOdb, OidText

CONSTANT d1

VARIABLE scope

MCHexTexts == UNION {[1..n -> {"0", "F"}] : n \in 0..4} \cup {[i \in 1..5 |-> "0"]}
              \cup UNION {[1..n -> {"g", "F"}] \ [1..n -> {"F"}] : n \in 1..3}
MCRawIds == {<<0, 0>>, <<154, 9>>}

(* Bounds of the scopes *)
OneFile ==
  /\ \A i \in DOMAIN backends' : backends'[i].dir = d1 /\ backends'[i].priority = 1
  /\ \A p \in Procs : pc'[p] # "idle" => reg'[p].want = o1

TwoProcesses ==
  /\ Cardinality({p \in Procs : pc'[p] # "idle" \/ reg'[p].answer # "none"}) <= 2
  /\ \A p \in Procs : ~Fault(p)

OdbInit ==
  /\ scope \in {"writers", "backends", "ids"}
  /\ HInit
  /\ OidInit /\ (scope # "ids" => short = <<0, 0>>)

OdbNext ==
  /\ scope' = scope
  /\ \/ scope = "writers" /\ HNext /\ OneFile /\ UNCHANGED oidVars
     \/ scope = "backends" /\ HNext /\ TwoProcesses /\ UNCHANGED oidVars
     \/ scope = "ids" /\ OidNext /\ UNCHANGED hvars

OdbSpec == OdbInit /\ [][OdbNext]_<<hvars, oidVars, scope>>
=============================================================================
