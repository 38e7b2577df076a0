------------------------------- MODULE Vector -------------------------------
(***************************************************************************)
(* The vector (collection/vector.c), which owns its elements: each is      *)
(* released once, by the destroy callback or into the hands of the caller. *)
(*                                                                         *)
(* The buffer is a sequence of cap slots.  The slots behind sz keep what   *)
(* was there, so that an element that has been released may still be seen  *)
(* in one; those malloc or realloc added hold Garbage.                     *)
(***************************************************************************)
EXTENDS Integers, Sequences, SequencesExt

CONSTANTS Given,    \* elements, in the order in which they are pushed
          Order(_), \* what the comparator looks at
          MinCap,   \* MINCAP, 16 in the code
          Garbage   \* a slot nobody wrote

Elements == Range(Given)

ASSUME GivenOnce == Given \in Seq(Elements) /\ IsInjective(Given)
ASSUME MinCapIsPositive == MinCap \in Nat \ {0}

VARIABLES vector,   \* [buf, sz]
          list,     \* the elements as they should be
          fresh,    \* elements not pushed yet, in order
          released  \* [Elements -> how often it was destroyed or handed out]

vectorVars == <<vector, list, fresh, released>>

VecCap(v) == Len(v.buf)
Held(v) == SubSeq(v.buf, 1, v.sz)

Newcap(v) == IF VecCap(v) = 0 THEN MinCap ELSE VecCap(v) * 2

(* realloc *)
Grown(v, cap) == [i \in 1..cap |-> IF i <= VecCap(v) THEN v.buf[i] ELSE Garbage]

PushedBack(v, e) ==
  LET buf == IF v.sz = VecCap(v) THEN Grown(v, Newcap(v)) ELSE v.buf IN
  [buf |-> [buf EXCEPT ![v.sz + 1] = e], sz |-> v.sz + 1]

(* The elements from idx on are moved up by one, in place. *)
InsertedInPlace(v, idx, e) ==
  [i \in DOMAIN v.buf |->
     IF i = idx + 1 THEN e
     ELSE IF idx + 1 < i /\ i <= v.sz + 1 THEN v.buf[i - 1] ELSE v.buf[i]]

(* Mutant: as many elements are copied behind the new one as before it. *)
InsertedShort(v, idx, e) ==
  [i \in 1..Newcap(v) |->
     IF i <= idx THEN v.buf[i] ELSE IF i = idx + 1 THEN e
     ELSE IF i <= 2 * idx + 1 THEN v.buf[i - 1] ELSE Garbage]

(* They are copied around the new element into a larger buffer. *)
InsertedInCopy(v, idx, e) ==
  [i \in 1..Newcap(v) |->
     IF i <= idx THEN v.buf[i] ELSE IF i = idx + 1 THEN e
     ELSE IF i <= v.sz + 1 THEN v.buf[i - 1] ELSE Garbage]

Inserted(v, idx, e) ==
  IF idx >= v.sz THEN PushedBack(v, e)
  ELSE [buf |-> IF v.sz = VecCap(v) THEN InsertedInCopy(v, idx, e)
                ELSE InsertedInPlace(v, idx, e),
        sz |-> v.sz + 1]

Removed(v, idx) ==
  [buf |-> [i \in DOMAIN v.buf |-> IF idx < i /\ i < v.sz THEN v.buf[i + 1] ELSE v.buf[i]],
   sz |-> v.sz - 1]

(* What qsort may leave in the slots in use. *)
SortedVectors(v) ==
  LET Slots == 1..v.sz
      Ordered(perm) == \A i, j \in Slots :
        i < j => perm[i] # perm[j] /\ Order(v.buf[perm[i]]) <= Order(v.buf[perm[j]])
  IN {[v EXCEPT !.buf = [i \in DOMAIN v.buf |-> IF i \in Slots THEN v.buf[perm[i]] ELSE v.buf[i]]] :
        perm \in {p \in [Slots -> Slots] : Ordered(p)}}

----------------------------------------------------------------------------

Release(from, to) ==
  released' = [e \in Elements |->
    released[e] + IF \E i \in from..to : vector.buf[i] = e THEN 1 ELSE 0]

(* An element goes in; without memory the call fails and nothing changes. *)
vec_insert(idx) ==
  /\ fresh # <<>>
  /\ vector' = Inserted(vector, idx, Head(fresh))
  /\ list' = IF idx >= Len(list) THEN Append(list, Head(fresh))
             ELSE InsertAt(list, idx + 1, Head(fresh))
  /\ fresh' = Tail(fresh)
  /\ UNCHANGED released

vec_pushback ==
  /\ fresh # <<>>
  /\ vector' = PushedBack(vector, Head(fresh))
  /\ list' = Append(list, Head(fresh)) /\ fresh' = Tail(fresh)
  /\ UNCHANGED released

(* Into the hands of the caller or to the callback, the element is released. *)
vec_popback ==
  /\ vector.sz > 0
  /\ Release(vector.sz, vector.sz)
  /\ vector' = [vector EXCEPT !.sz = @ - 1]
  /\ list' = Front(list)
  /\ UNCHANGED fresh

vec_remove(idx) ==
  /\ idx < vector.sz
  /\ Release(idx + 1, idx + 1)
  /\ vector' = Removed(vector, idx)
  /\ list' = RemoveAt(list, idx + 1)
  /\ UNCHANGED fresh

(* destroy_range *)
vec_shorten(newsz) ==
  /\ newsz < vector.sz
  /\ Release(newsz + 1, vector.sz)
  /\ vector' = [vector EXCEPT !.sz = newsz]
  /\ list' = SubSeq(list, 1, newsz)
  /\ UNCHANGED fresh

(* vec_resize leaves the new slots as they are; the caller fills them. *)
vec_lengthen ==
  LET newsz == vector.sz + 1
      buf == IF newsz <= VecCap(vector) THEN vector.buf ELSE Grown(vector, newsz)
  IN /\ fresh # <<>>
     /\ vector' = [buf |-> [buf EXCEPT ![newsz] = Head(fresh)], sz |-> newsz]
     /\ list' = Append(list, Head(fresh)) /\ fresh' = Tail(fresh)
     /\ UNCHANGED released

vec_shrink ==
  /\ vector.sz > 0
  /\ vector' = [vector EXCEPT !.buf = Held(vector)]
  /\ UNCHANGED <<list, fresh, released>>

vec_sort ==
  /\ vector' \in SortedVectors(vector)
  /\ list' = Held(vector')
  /\ UNCHANGED <<fresh, released>>

VectorInit ==
  /\ vector = [buf |-> <<>>, sz |-> 0] /\ list = <<>>
  /\ fresh = Given /\ released = [e \in Elements |-> 0]

VectorNext ==
  \/ vec_pushback
  \/ \E idx \in 0..(vector.sz + 1) : vec_insert(idx)
  \/ vec_popback
  \/ \E idx \in 0..vector.sz : vec_remove(idx)
  \/ \E newsz \in 0..vector.sz : vec_shorten(newsz)
  \/ vec_lengthen
  \/ vec_shrink
  \/ vec_sort

VectorSpec == VectorInit /\ [][VectorNext]_vectorVars

(* The slots in use are the elements the calls left, in order, and of every  *)
(* element pushed either the vector holds one copy or it was released once:  *)
(* what moved, what stayed in an unused slot and what was copied on growth   *)
(* is neither lost nor released again (vec_insert, vec_remove, vec_resize).  *)
VectorOwnsItsElements ==
  /\ vector.sz <= VecCap(vector) /\ Held(vector) = list
  /\ \A e \in Elements \ Range(fresh) :
       released[e] + (IF e \in Range(Held(vector)) THEN 1 ELSE 0) = 1
  /\ IsInjective(Held(vector))

(* What holds of every state, and is kept by every call: an element waits,   *)
(* is held or was released.                                                  *)
VectorInv ==
  /\ vector \in [buf : Seq(Elements \cup {Garbage}), sz : Nat] /\ vector.sz <= VecCap(vector)
  /\ list \in Seq(Elements) /\ IsInjective(list) /\ Held(vector) = list
  /\ fresh \in Seq(Elements) /\ IsInjective(fresh) /\ Range(fresh) \cap Range(list) = {}
  /\ released = [e \in Elements |-> IF e \in Range(fresh) \cup Range(list) THEN 0 ELSE 1]
=============================================================================
