------------------------------- MODULE PQueue -------------------------------
(***************************************************************************)
(* What src/include/collection/heap.h promises: a container that gives     *)
(* back an element with none before it.  The order is by descending key,   *)
(* that of the one comparison qgit makes heaps with (pq_commit_cmp_time).  *)
(***************************************************************************)
EXTENDS Integers

CONSTANTS Elems,  \* elements that can be pushed
          Key,    \* [Elems -> Int]
          None    \* nothing has been popped

VARIABLES queue,  \* the elements in the queue
          out     \* the element popped last

(* No element is before these. *)
First(q) == {e \in q : \A f \in q : Key[e] >= Key[f]}

Init == queue = {} /\ out = None

Push(e) ==
  /\ e \notin queue
  /\ queue' = queue \cup {e}
  /\ out' = out

Pop(e) ==
  /\ e \in First(queue)
  /\ queue' = queue \ {e}
  /\ out' = e

Clear == queue' = {} /\ out' = out

Next == Clear \/ \E e \in Elems : Push(e) \/ Pop(e)

Spec == Init /\ [][Next]_<<queue, out>>
=============================================================================
