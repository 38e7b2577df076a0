-------------------------------- MODULE Heap --------------------------------
(***************************************************************************)
(* The binary heap of src/src/collection/heap.c, on a vector that starts   *)
(* at 1.  A call is a step on the vector and then one step for every turn  *)
(* of the loop that restores the order.  The elements are pointers, no two *)
(* of them equal.                                                          *)
(***************************************************************************)
EXTENDS Integers, Sequences, SequencesExt

CONSTANTS Elems,   \* elements that can be pushed
          Key,     \* [Elems -> Int]
          None     \* nothing has been popped

ASSUME KeyAssumption == Key \in [Elems -> Int]
ASSUME NoneIsNoElem == None \notin Elems

VARIABLES vec,    \* the vector of elements
          phase,  \* which loop is under way
          idx,    \* its index
          out     \* the element popped last

vars == <<vec, phase, idx, out>>

TypeOK ==
  /\ vec \in Seq(Elems)
  /\ phase \in {"idle", "up", "down"}
  /\ idx \in Nat
  /\ phase # "idle" => idx \in 1..Len(vec)
  /\ out \in Elems \cup {None}

Content == {vec[i] : i \in 1..Len(vec)}

(* cmp(a, b) < 0 *)
Before(a, b) == Key[a] > Key[b]

Parent(i) == i \div 2
Left(i) == 2 * i
Right(i) == 2 * i + 1

Swap(v, i, j) == [v EXCEPT ![i] = v[j], ![j] = v[i]]

Init == vec = <<>> /\ phase = "idle" /\ idx = 0 /\ out = None

(* Mutant: the new element stays at the end. *)
PushAtEnd(e) ==
  /\ phase = "idle"
  /\ e \notin Content
  /\ vec' = Append(vec, e)
  /\ UNCHANGED <<phase, idx, out>>

(* heap_push *)
Push(e) ==
  /\ phase = "idle"
  /\ e \notin Content
  /\ vec' = Append(vec, e)
  /\ IF vec = <<>> THEN UNCHANGED <<phase, idx>>
     ELSE phase' = "up" /\ idx' = Len(vec) + 1
  /\ out' = out

(* A turn of the loop of shiftup. *)
ShiftUp ==
  /\ phase = "up"
  /\ IF idx > 1 /\ Before(vec[idx], vec[Parent(idx)])
     THEN /\ vec' = Swap(vec, idx, Parent(idx))
          /\ idx' = Parent(idx)
          /\ phase' = phase
     ELSE phase' = "idle" /\ UNCHANGED <<vec, idx>>
  /\ out' = out

(* heap_pop: the last element takes the place of the first. *)
Pop ==
  /\ phase = "idle"
  /\ vec # <<>>
  /\ out' = vec[1]
  /\ vec' = SubSeq([vec EXCEPT ![1] = vec[Len(vec)]], 1, Len(vec) - 1)
  /\ IF Len(vec) = 1 THEN UNCHANGED <<phase, idx>>
     ELSE phase' = "down" /\ idx' = 1

(* Mutant: the right child is compared with the element, not with the left. *)
SmallestOfRight(i) ==
  IF Right(i) <= Len(vec) /\ Before(vec[Right(i)], vec[i]) THEN Right(i)
  ELSE IF Left(i) <= Len(vec) /\ Before(vec[Left(i)], vec[i]) THEN Left(i)
  ELSE i

(* The element at i, or a child of it that is before it. *)
Smallest(i) ==
  LET l == IF Left(i) <= Len(vec) /\ Before(vec[Left(i)], vec[i])
           THEN Left(i) ELSE i
  IN IF Right(i) <= Len(vec) /\ Before(vec[Right(i)], vec[l])
     THEN Right(i) ELSE l

(* A turn of the loop of shiftdown. *)
ShiftDown ==
  /\ phase = "down"
  /\ IF Smallest(idx) # idx
     THEN /\ vec' = Swap(vec, idx, Smallest(idx))
          /\ idx' = Smallest(idx)
          /\ phase' = phase
     ELSE phase' = "idle" /\ UNCHANGED <<vec, idx>>
  /\ out' = out

(* heap_clear *)
Clear == phase = "idle" /\ vec' = <<>> /\ UNCHANGED <<phase, idx, out>>

Next ==
  \/ \E e \in Elems : Push(e)
  \/ Pop \/ ShiftUp \/ ShiftDown \/ Clear

Spec == Init /\ [][Next]_vars

----------------------------------------------------------------------------
(* Between two calls no element is before its parent. *)
HeapOrder ==
  phase = "idle" =>
    \A i \in 2..Len(vec) : ~Before(vec[i], vec[Parent(i)])

(* While a loop is under way the order is broken at its index only, upwards  *)
(* or downwards, and the elements around it are in order without it.         *)
LoopOrder ==
  /\ phase = "up" =>
       \A i \in 2..Len(vec) : i # idx => ~Before(vec[i], vec[Parent(i)])
  /\ phase = "down" =>
       \A i \in 2..Len(vec) : Parent(i) # idx => ~Before(vec[i], vec[Parent(i)])
  /\ phase # "idle" =>
       \A i \in 2..Len(vec) :
         Parent(i) = idx /\ idx > 1 => ~Before(vec[i], vec[Parent(idx)])

(* No element is lost or doubled on the way. *)
Distinct == \A i, j \in 1..Len(vec) : vec[i] = vec[j] => i = j

HeapInv == HeapOrder /\ LoopOrder /\ Distinct

(* The heap is a priority queue: a call takes effect at its step on the      *)
(* vector, and what pop hands out is first in the queue.                     *)
PQ == INSTANCE PQueue WITH queue <- Content
IsPriorityQueue == PQ!Spec
=============================================================================
