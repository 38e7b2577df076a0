------------------------------- MODULE Revparse -------------------------------
(***************************************************************************)
(* What a revision names: qgit_revparse_single, the references it looks up *)
(* and the objects it peels, and what the commands that take a revision    *)
(* make of it.  The references change one at a time; an object, once it is *)
(* there, stays.                                                           *)
(***************************************************************************)
EXTENDS Naturals, FiniteSets, Sequences

CONSTANTS Objects,    \* [id -> [type, to]]: to is the target of a tag, the tree of a commit
          Bases,      \* what stands before the suffix of a revision
          LongBases,  \* those of 40 characters
          ShortBases, \* those too short for an abbreviation
          Abbrev,     \* [base -> ids it is the beginning of]
          RefNames,   \* full names of references
          Direct,     \* ids references are set to
          MaxSets     \* bound: changes of the references

VARIABLES revRefs, \* [RefNames -> Seq: <<>> no file, <<"oid", id>>, <<"ref", name>>, <<"bad">>]
          sets

revVars == <<revRefs, sets>>

ObjectIds == DOMAIN Objects
ObjTypes == {"commit", "tree", "blob", "tag"}
RevSuffixes == ObjTypes \cup {"none", "any"}   \* none at all; ^{}; ^{type}

----------------------------------------------------------------------------
(* References; a set with the result, and the empty set for a failure.      *)

(* A name that is no path of a file, one that is not valid and a file that   *)
(* holds no reference fail alike.                                            *)
reference_lookup(name) ==
  IF name \notin RefNames THEN {} ELSE {v \in {revRefs[name]} : v # <<>> /\ v # <<"bad">>}

RECURSIVE reference_name_to_oid(_)
reference_name_to_oid(name) ==
  UNION {IF v[1] = "oid" THEN {v[2]} ELSE reference_name_to_oid(v[2]) : v \in reference_lookup(name)}

branch_lookup(base) == reference_lookup("refs/heads/" \o base)

IsFullName(base) == base = "HEAD" \/ (Len(base) >= 5 /\ SubSeq(base, 1, 5) = "refs/")

(* qgit_object_lookup_prefix: no one else begins so. *)
object_lookup_prefix(base) == IF Cardinality(Abbrev[base]) = 1 THEN Abbrev[base] ELSE {}

resolve_oid(base) ==
  IF base \in LongBases THEN Abbrev[base]
  ELSE IF IsFullName(base) THEN reference_name_to_oid(base)
  ELSE LET branch == branch_lookup(base)
           tagname == "refs/tags/" \o base
           tag == reference_lookup(tagname)
           branch_oid == reference_name_to_oid("refs/heads/" \o base)
           tag_oid == reference_name_to_oid(tagname)
       IN IF (branch # {} /\ branch_oid = {}) \/ (tag # {} /\ tag_oid = {}) THEN {}
          ELSE IF branch # {} /\ tag # {} THEN branch_oid \cap tag_oid
          ELSE IF branch # {} THEN branch_oid
          ELSE IF tag # {} THEN tag_oid
          ELSE IF base \in ShortBases THEN {}
          ELSE object_lookup_prefix(base)

----------------------------------------------------------------------------
(* Objects *)

object_lookup(id, type) ==
  {o \in {id} \cap ObjectIds : type = "any" \/ Objects[o].type = type}

peel_once(o) ==
  CASE Objects[o].type = "tag" -> object_lookup(Objects[o].to, "any")
    [] Objects[o].type = "commit" -> object_lookup(Objects[o].to, "tree")
    [] OTHER -> {}

RECURSIVE PeelFrom(_, _, _)
PeelFrom(o, type, target) ==
  UNION {IF Objects[n].type = target \/ (target = "any" /\ Objects[n].type # type) THEN {n}
         ELSE PeelFrom(n, type, target) : n \in peel_once(o)}

(* Mutant: the object itself is not looked at. *)
PeelOnward(o, target) == PeelFrom(o, Objects[o].type, target)

object_peel(o, target) ==
  IF Objects[o].type = target THEN {o} ELSE PeelFrom(o, Objects[o].type, target)

revparse_single(base, suffix) ==
  UNION {IF suffix \in ObjTypes \/ (suffix = "any" /\ Objects[o].type = "tag")
         THEN object_peel(o, suffix) ELSE {o}
         : o \in UNION {object_lookup(id, "any") : id \in resolve_oid(base)}}

----------------------------------------------------------------------------
(* Commands *)

PeeledTo(objects, type) ==
  UNION {IF Objects[o].type # type THEN object_peel(o, type) ELSE {o} : o \in objects}

(* The commit qgit log starts at and a new branch points to, the tree qgit   *)
(* ls-tree prints and qgit checkout writes, the object qgit tag marks, and   *)
(* whether qgit cat-file prints an object as the type it is asked for.       *)
LogStart(base, suffix) == PeeledTo(revparse_single(base, suffix), "commit")
BranchStart(base, suffix) == PeeledTo(revparse_single(base, suffix), "commit")
TreeListed(base, suffix) == PeeledTo(revparse_single(base, suffix), "tree")
TreeCheckedOut(base, suffix) == PeeledTo(revparse_single(base, suffix), "tree")
CatFile(type, base, suffix) ==
  \E o \in revparse_single(base, suffix) : Objects[o].type = type

----------------------------------------------------------------------------
(* The references change. *)

SetRef(name, value) ==
  /\ sets < MaxSets /\ sets' = sets + 1
  /\ revRefs' = [revRefs EXCEPT ![name] = value]

RevInit ==
  /\ revRefs = [name \in RefNames |-> IF name = "HEAD" THEN <<"ref", "refs/heads/a">> ELSE <<>>]
  /\ sets = 0

RevNext ==
  \/ \E name \in RefNames \ {"HEAD"}, value \in {<<>>, <<"bad">>} \cup {<<"oid", id>> : id \in Direct} :
       SetRef(name, value)
  \/ \E id \in Direct : SetRef("HEAD", <<"oid", id>>)
  \/ SetRef("refs/heads/s", <<"ref", "refs/heads/a">>)

RevSpec == RevInit /\ [][RevNext]_revVars

(* The objects from o on, each the target or the tree of the one before. *)
RECURSIVE PeelChain(_)
PeelChain(o) == IF o \notin ObjectIds THEN <<>>
            ELSE IF Objects[o].type \in {"tag", "commit"} THEN <<o>> \o PeelChain(Objects[o].to)
            ELSE <<o>>

FirstOf(chain, types) ==
  {chain[i] : i \in {i \in DOMAIN chain : /\ Objects[chain[i]].type \in types
                                         /\ \A j \in 1..(i - 1) : Objects[chain[j]].type \notin types}}

(* A suffix takes the first object of its type among those a revision leads  *)
(* to, and ^{} the first that is no tag, through tags of tags and to none    *)
(* behind a missing object.  A name that is a branch and a tag stands for    *)
(* both or neither; a branch or a tag that is listed can be named, unless    *)
(* the other is there too, cannot be read or differs, or its name has 40     *)
(* characters or is that of another reference; it hides an abbreviation.     *)
(* Commands that peel what they are given find what the suffix finds         *)
(* (revparse.c, object_peel.c and the commands).                             *)
RevisionsResolve ==
  \A base \in Bases :
    LET start == revparse_single(base, "none")
        heads == "refs/heads/" \o base
        tags == "refs/tags/" \o base
        names == {n \in {heads, tags} \cap RefNames : revRefs[n] # <<>>}
        targets == UNION {reference_name_to_oid(n) : n \in names}
    IN /\ \A o \in start :
            /\ \A type \in ObjTypes : revparse_single(base, type) = FirstOf(PeelChain(o), {type})
            /\ revparse_single(base, "any") = FirstOf(PeelChain(o), ObjTypes \ {"tag"})
            /\ LogStart(base, "none") = revparse_single(base, "commit")
            /\ BranchStart(base, "any") = LogStart(base, "none")
            /\ TreeListed(base, "none") = revparse_single(base, "tree")
            /\ TreeListed(base, "commit") # {} => TreeCheckedOut(base, "any") = TreeListed(base, "commit")
            /\ \A type \in ObjTypes : CatFile(type, base, type) <=> FirstOf(PeelChain(o), {type}) # {}
       /\ start = {} => \A suffix \in RevSuffixes : revparse_single(base, suffix) = {}
       /\ names # {} /\ ~IsFullName(base) /\ base \notin LongBases
          /\ (\A n \in names : reference_name_to_oid(n) # {})
          => start = IF Cardinality(targets) = 1 THEN targets \cap ObjectIds ELSE {}
===============================================================================
