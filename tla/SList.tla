------------------------------- MODULE SList -------------------------------
(***************************************************************************)
(* The singly linked list (collection/slist.c): nodes with a pointer to    *)
(* the next one, a head, a tail and a count, which every call has to keep  *)
(* in step.                                                                *)
(***************************************************************************)
EXTENDS Integers, Sequences, SequencesExt

CONSTANTS Nodes, \* addresses of nodes
          Data,  \* what a node may hold
          Null   \* the null pointer

VARIABLES node,  \* [Nodes -> [data, next] or Null where nothing is allocated]
          ends,  \* [head, tail, len]
          items  \* the list as it should be, each item [at, data] with its node

slistVars == <<node, ends, items>>

Cells == [data : Data, next : Nodes \cup {Null}]

ASSUME NullIsNothing == Null \notin Nodes \cup Cells

Allocated == {n \in Nodes : node[n] # Null}
Free == Nodes \ Allocated

(* The nodes that the pointers lead to from the head: the least set with it  *)
(* that is closed.                                                           *)
Reached ==
  LET Closed(S) == /\ ends.head # Null => ends.head \in S
                   /\ \A n \in S \cap Allocated : node[n].next # Null => node[n].next \in S
  IN {n \in Nodes : \A S \in SUBSET Nodes : Closed(S) => n \in S}

Item(n, d) == [at |-> n, data |-> d]

(* malloc gives some address that is free, or fails where there is none. *)
slist_pushfront(d) ==
  \E new \in Free :
    /\ node' = [node EXCEPT ![new] = [data |-> d, next |-> ends.head]]
    /\ ends' = [head |-> new, tail |-> IF ends.tail = Null THEN new ELSE ends.tail,
                len |-> ends.len + 1]
    /\ items' = <<Item(new, d)>> \o items

slist_pushback(d) ==
  \E new \in Free :
    LET cell == [data |-> d, next |-> Null] IN
    /\ node' = IF ends.tail = Null THEN [node EXCEPT ![new] = cell]
               ELSE [node EXCEPT ![ends.tail].next = new, ![new] = cell]
    /\ ends' = [head |-> IF ends.tail = Null THEN new ELSE ends.head, tail |-> new,
                len |-> ends.len + 1]
    /\ items' = Append(items, Item(new, d))

(* Mutant: the tail still points at the node that was freed. *)
PopfrontLeavingTail ==
  /\ ends.len > 0
  /\ node' = [node EXCEPT ![ends.head] = Null]
  /\ ends' = [ends EXCEPT !.head = node[ends.head].next, !.len = @ - 1]
  /\ items' = Tail(items)

slist_popfront ==
  /\ ends.len > 0
  /\ node' = [node EXCEPT ![ends.head] = Null]
  /\ ends' = [head |-> node[ends.head].next,
              tail |-> IF node[ends.head].next = Null THEN Null ELSE ends.tail,
              len |-> ends.len - 1]
  /\ items' = Tail(items)

(* Behind a node; without one, slist_pushfront. *)
slist_insert_next(n, d) ==
  \E new \in Free, i \in DOMAIN items :
    /\ items[i].at = n
    /\ node' = [node EXCEPT ![new] = [data |-> d, next |-> node[n].next], ![n].next = new]
    /\ ends' = [ends EXCEPT !.tail = IF node[n].next = Null THEN new ELSE @, !.len = @ + 1]
    /\ items' = InsertAt(items, i + 1, Item(new, d))

(* The node behind another; without one, slist_popfront. *)
slist_remove_next(n) ==
  LET next == node[n].next IN
  /\ next # Null
  /\ node' = [node EXCEPT ![n].next = node[next].next, ![next] = Null]
  /\ ends' = [ends EXCEPT !.tail = IF node[next].next = Null THEN n ELSE @, !.len = @ - 1]
  /\ \E i \in DOMAIN items : items[i].at = n /\ items' = RemoveAt(items, i + 1)

slist_clear ==
  /\ node' = [n \in Nodes |-> IF n \in Reached THEN Null ELSE node[n]]
  /\ ends' = [head |-> Null, tail |-> Null, len |-> 0]
  /\ items' = <<>>

SListInit ==
  /\ node = [n \in Nodes |-> Null]
  /\ ends = [head |-> Null, tail |-> Null, len |-> 0] /\ items = <<>>

SListNext ==
  \/ \E d \in Data : slist_pushfront(d) \/ slist_pushback(d)
  \/ slist_popfront
  \/ \E n \in Allocated : slist_remove_next(n) \/ \E d \in Data : slist_insert_next(n, d)
  \/ slist_clear

SListSpec == SListInit /\ [][SListNext]_slistVars

(* The pointers lead from the head through exactly the items, in order, as   *)
(* many as the count says, and to the tail; every node that is allocated is  *)
(* the node of one item, so that nothing leaks and no pointer is to a node   *)
(* that was freed (slist_popfront, slist_insert_next, slist_remove_next).    *)
ListIsItsItems ==
  LET count == Len(items) IN
  /\ ends = [head |-> IF count = 0 THEN Null ELSE items[1].at,
             tail |-> IF count = 0 THEN Null ELSE items[count].at,
             len |-> count]
  /\ \A i \in 1..count :
       node[items[i].at] = [data |-> items[i].data,
                            next |-> IF i = count THEN Null ELSE items[i + 1].at]
  /\ Allocated = {items[i].at : i \in 1..count}
  /\ \A i, j \in 1..count : items[i].at = items[j].at => i = j

(* What holds of every state, and is kept by every call. *)
SListInv ==
  /\ node \in [Nodes -> Cells \cup {Null}]
  /\ items \in Seq([at : Nodes, data : Data])
  /\ ListIsItsItems
=============================================================================
