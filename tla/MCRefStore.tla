----------------------------- MODULE MCRefStore -----------------------------
(***************************************************************************)
(* Small repositories for RefStore: two branches, a tag name, two stored   *)
(* commits and free ids for what is made later.                            *)
(***************************************************************************)
EXTENDS RefStore, TLC

CONSTANTS main, dev, v1, c1, c2

----------------------------------------------------------------------------
(* Commands *)

C(op, name, arg, old, deref, force) ==
  [op |-> op, name |-> name, arg |-> arg, old |-> old, deref |-> deref,
   force |-> force]

CommitCmd == C("commit", HEAD, None, None, TRUE, FALSE)
Update(name, arg, old) == C("update", name, arg, old, TRUE, FALSE)
Detach(arg) == C("update", HEAD, arg, None, FALSE, FALSE)
Delete(name, old) == C("delete", name, None, old, TRUE, FALSE)
Branch(name, arg, force) == C("branch", name, arg, None, TRUE, force)
Tag(name, arg, force) == C("tag", name, arg, None, TRUE, force)
ATag(name, arg, force) == C("atag", name, arg, None, TRUE, force)
RemoveCmd(name, force) == C("remove", name, None, None, TRUE, force)
Untag(name) == C("untag", name, None, None, TRUE, FALSE)
Move(old, new, force) == C("move", old, new, None, TRUE, force)
Symref(name, target, force) == C("symref", name, target, None, TRUE, force)

(* Every kind of command at least once, on names they contend for. *)
AllCommands ==
  {CommitCmd, Update(main, c2, c1), Update(HEAD, c2, None), Update(dev, c2, Zero),
   Detach(c2), Delete(dev, c1), Delete(HEAD, None),
   C("delete", HEAD, None, None, FALSE, FALSE),
   Branch(dev, HEAD, FALSE), Branch(dev, c1, TRUE),
   Tag(v1, HEAD, FALSE), ATag(v1, c1, TRUE),
   RemoveCmd(main, FALSE), RemoveCmd(dev, FALSE), Untag(v1),
   Move(main, dev, FALSE), Move(main, dev, TRUE), Symref(HEAD, dev, TRUE)}

(* Commands that name an id nothing is stored under yet; another process may *)
(* store an object there at any time.                                        *)
UnstoredCommands ==
  UNION {{Update(main, o, None), Branch(dev, o, FALSE), ATag(v1, o, TRUE)} :
         o \in Oids \ {c1, c2}}

(* Unconditional writers of one reference, and one that removes it. *)
WriterCommands ==
  {Update(main, c2, None), Branch(main, c1, TRUE), Delete(main, None)}

PairCommands == AllCommands \cup UnstoredCommands \cup WriterCommands

(* The commands that leave every symbolic reference pointing at a branch that *)
(* is, or would be, a direct one. *)
AcyclicCommands ==
  {CommitCmd, Update(HEAD, c2, None), Detach(c2), Branch(dev, HEAD, TRUE),
   ATag(v1, HEAD, FALSE), RemoveCmd(main, TRUE), Move(main, dev, FALSE),
   Symref(HEAD, dev, TRUE), Symref(v1, HEAD, TRUE), Delete(v1, None)}

SwapCommands == {Update(main, c2, c1), Update(main, c1, None)}

----------------------------------------------------------------------------
(* Repositories *)

Refs(h, m, d, t) == HEAD :> h @@ main :> m @@ dev :> d @@ v1 :> t

(* HEAD on main: born with another branch, unborn, detached; HEAD is on a    *)
(* symbolic branch. *)
AllInitRefs ==
  {Refs(main, c1, Missing, Missing), Refs(main, Missing, c1, Missing),
   Refs(c1, c1, c2, Missing), Refs(main, dev, c1, Missing)}

BornRefs == {Refs(main, c1, Missing, Missing)}
UnbornRefs == {Refs(main, Missing, c1, Missing)}
DirectRefs == BornRefs \cup UnbornRefs

(* c2 is a child of c1; the other ids are free. *)
TwoCommits ==
  [o \in Oids |-> CASE o = c1 -> [type |-> "commit", link |-> None]
                    [] o = c2 -> [type |-> "commit", link |-> c1]
                    [] OTHER -> NoObject]

MCFirstInode == HEAD :> 1 @@ main :> 2 @@ dev :> 3 @@ v1 :> 4
FreshIds == Permutations(Oids \ {c1, c2})
=============================================================================
