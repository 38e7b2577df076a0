----------------------------- MODULE RefClaims -----------------------------
(***************************************************************************)
(* What the documentation says of the commands.  Each claim holds of a     *)
(* command nobody disturbs (RefHistory), and each is refuted by a second   *)
(* process, because what the command checked or wrote is no longer so when *)
(* it goes on.                                                             *)
(***************************************************************************)
EXTENDS RefHistory

TakesEffect(p) == Acts(p) /\ pc[p] \in {"rename", "unlink"}
                          /\ pc'[p] \in {"ok", "summary"}

(* README.md:753 and update-ref.h:55: the old value given to update-ref is a  *)
(* compare-and-swap check, so it is the value replaced or deleted.            *)
CompareAndSwap ==
  [][\A p \in Procs :
       TakesEffect(p) /\ Op(p) \in {"update", "delete"} /\ cmd[p].old \in Oids
         => read_file(reg[p].dest) = cmd[p].old]_hvars

(* fileutils.h:34: write_file creates a file atomically, so nobody ever reads *)
(* a reference file that has been created and not yet written.                *)
CreatedAtomically == \A n \in Names : read_file(n) # Empty
=============================================================================
