------------------------------- MODULE RefDb -------------------------------
(***************************************************************************)
(* What the references promise: a map from names to values and a growing   *)
(* set of objects, on which each command acts at once, under the condition *)
(* its documentation gives, or not at all.  RefStore implements this, one  *)
(* file access at a time.                                                  *)
(***************************************************************************)
EXTENDS Integers, FiniteSets

CONSTANTS Names, HEAD, Oids, None, Zero, Missing, NoObject, Objects,
          Commands, InitRefs, InitStore

VARIABLES refs,   \* [Names -> id, name or Missing]
          store   \* [Oids -> object or NoObject]

Stored == {o \in Oids : store[o] # NoObject}
Commits == {o \in Stored : store[o].type = "commit"}

(* The name reached from n by following symbolic references. *)
Final(n) ==
  LET hop[k \in 0..Cardinality(Names)] ==
        IF k = 0 THEN n
        ELSE IF refs[hop[k - 1]] \in Names THEN refs[hop[k - 1]] ELSE hop[k - 1]
  IN  hop[Cardinality(Names)]

(* The object reached from o through tags. *)
Peeled(o) ==
  LET hop[k \in 0..Cardinality(Oids)] ==
        IF k = 0 THEN o
        ELSE IF hop[k - 1] \in Stored \ Commits THEN store[hop[k - 1]].link
             ELSE hop[k - 1]
  IN  hop[Cardinality(Oids)]

Readable(n) == refs[n] \in Oids \cup Names

Tip == refs[Final(HEAD)]
Target(c) == IF c.deref THEN Final(c.name) ELSE c.name
StartPoint(c) == IF c.arg = HEAD THEN Tip ELSE c.arg
Free(n, c) == refs[n] = Missing \/ c.force

----------------------------------------------------------------------------
(* When a command may take effect *)

(* HEAD names a commit, or a branch not yet born. *)
CommitAllowed ==
  /\ Readable(HEAD)
  /\ Tip \in Commits \/ (Tip = Missing /\ Final(HEAD) = refs[HEAD])

ExpectedValue(c) == c.old \in Oids => refs[Target(c)] = c.old /\ c.old \in Stored

UpdateAllowed(c) ==
  /\ c.arg \in Stored
  /\ ExpectedValue(c)
  /\ c.old = Zero => refs[c.name] = Missing
  /\ refs[c.name] = Missing \/ refs[Target(c)] \in Oids
     \/ (~c.deref /\ Readable(c.name))

DeleteAllowed(c) ==
  /\ ExpectedValue(c)
  /\ Readable(Target(c))
  /\ c.deref => refs[Target(c)] \in Oids

StartAllowed(c) == StartPoint(c) \in Stored /\ Free(c.name, c)

(* The branch HEAD names is not deleted without -f. *)
RemoveAllowed(c) ==
  /\ Readable(c.name) /\ Readable(HEAD)
  /\ ~c.force => refs[HEAD] # c.name

MoveAllowed(c) ==
  Readable(HEAD) /\ refs[c.name] # Missing /\ Free(c.arg, c)

Allowed(c) ==
  CASE c.op = "commit" -> CommitAllowed
    [] c.op = "update" -> UpdateAllowed(c)
    [] c.op = "delete" -> DeleteAllowed(c)
    [] c.op \in {"branch", "tag", "atag"} -> StartAllowed(c)
    [] c.op = "remove" -> RemoveAllowed(c)
    [] c.op = "untag" -> refs[c.name] # Missing
    [] c.op = "symref" -> Free(c.name, c)
    [] c.op = "move" -> MoveAllowed(c)

----------------------------------------------------------------------------
(* What it then does *)

Put(n, v) == refs' = [refs EXCEPT ![n] = v]
Remove(n) == refs' = [refs EXCEPT ![n] = Missing]
Shift(old, new) ==
  refs' = [n \in Names |-> CASE n = new -> refs[old]
                             [] n = old /\ n # new -> Missing
                             [] OTHER -> refs[n]]

(* The new commit is a child of the tip, or a root commit on an unborn branch, *)
(* and becomes the tip.                                                        *)
CommitEffect ==
  \E o \in Commits :
    /\ store[o].link = IF Tip \in Oids THEN Tip ELSE None
    /\ Put(Final(HEAD), o)

TagEffect(c) ==
  \E o \in Stored \ Commits :
    store[o].link = StartPoint(c) /\ Put(c.name, o)

Effect(c) ==
  CASE c.op = "commit" -> CommitEffect
    [] c.op = "update" -> Put(Target(c), c.arg)
    [] c.op = "delete" -> Remove(Target(c))
    [] c.op = "branch" -> Put(c.name, Peeled(StartPoint(c)))
    [] c.op = "tag" -> Put(c.name, StartPoint(c))
    [] c.op = "atag" -> TagEffect(c)
    [] c.op \in {"remove", "untag"} -> Remove(c.name)
    [] c.op = "symref" -> Put(c.name, c.arg)
    [] c.op = "move" -> Shift(c.name, c.arg)

(* qgit_branch_move is no single transaction: HEAD follows the branch in a    *)
(* second one, and a failure of that one is answered by moving back.          *)
MoveFollowUp(c) ==
  /\ c.op = "move"
  /\ refs[c.arg] # Missing
  /\ \/ refs[HEAD] = c.name /\ Put(HEAD, c.arg)
     \/ Shift(c.arg, c.name)

Txn(c) == (Allowed(c) /\ Effect(c)) \/ MoveFollowUp(c)

(* An object is stored; what it links to is stored already. *)
NewObject ==
  \E o \in Oids \ Stored, object \in Objects :
    /\ object.type = "tag" => object.link \in Stored
    /\ object.link \in Commits \cup {None} \/ object.type = "tag"
    /\ store' = [store EXCEPT ![o] = object]
    /\ UNCHANGED refs

Init == refs \in InitRefs /\ store = InitStore

Next == \/ \E c \in Commands : Txn(c) /\ UNCHANGED store
        \/ NewObject

Spec == Init /\ [][Next]_<<refs, store>>
=============================================================================
