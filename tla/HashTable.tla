----------------------------- MODULE HashTable -----------------------------
(***************************************************************************)
(* The hash table (collection/hashtbl.c) and the set that wraps it         *)
(* (collection/set.c, the commits a walk has seen).  A bucket is the chain *)
(* of its nodes, the first one first; the table is empty until the first   *)
(* insertion and doubles when its load reaches the threshold, one action   *)
(* for each node that is moved.                                            *)
(*                                                                         *)
(* Thresholds are counted in quarters, and the number of buckets is a      *)
(* power of two, so that hash & (bucketsz - 1) is a remainder.             *)
(***************************************************************************)
EXTENDS Integers, Sequences, SequencesExt, FiniteSets

CONSTANTS Keys,       \* keys, no two of which compare equal
          Hash(_),    \* the hash function
          NBuckets,   \* NBUCKETS, 16 in the code
          Thresholds, \* load factors in quarters; the first one is 3
          MaxVals     \* bound: values stored in the life of the table

ASSUME TableConstants ==
  /\ NBuckets \in {2, 4, 8, 16} /\ Thresholds \subseteq Nat \ {0} /\ MaxVals \in Nat
  /\ \A key \in Keys : Hash(key) \in Nat

VARIABLES buckets,   \* chains of [key, val], none before the first insertion
          moved,     \* newbuckets of a rehash, none where there is none
          arriving,  \* the key of an insertion that has not returned
          size,      \* sz
          threshold,
          map,       \* the entries as they should be
          vals,      \* values handed to the table so far, numbered
          destroyed  \* [values -> how often it was handed back or given to destroy_val]

tableVars == <<buckets, moved, arriving, size, threshold, map, vals, destroyed>>

DefaultThreshold == 3
GrowFactor == 2

hashidx(key, bucketsz) == (Hash(key) % bucketsz) + 1

NoNodes(bucketsz) == [i \in 1..bucketsz |-> <<>>]
Places(table) == UNION {{i} \X DOMAIN table[i] : i \in DOMAIN table}
NodeAt(table, p) == table[p[1]][p[2]]

Bucket(key) == buckets[hashidx(key, Len(buckets))]
Matches(key) == {k \in DOMAIN Bucket(key) : Bucket(key)[k].key = key}

(* hashtbl_findnode: the place in the chain, 0 if the key is not there. *)
Findnode(key) ==
  IF size = 0 \/ Matches(key) = {} THEN 0
  ELSE CHOOSE k \in Matches(key) : \A m \in Matches(key) : k <= m

hashtbl_find(key) == IF Findnode(key) = 0 THEN 0 ELSE Bucket(key)[Findnode(key)].val

NeedRehash(table) == 4 * size >= threshold * Len(table)

(* A key that is there is refused, and the value stays with the caller;      *)
(* otherwise there are buckets, and more of them if the load asks for it.    *)
hashtbl_insert(key) ==
  /\ vals < MaxVals /\ arriving = {}
  /\ Findnode(key) = 0
  /\ arriving' = {key}
  /\ buckets' = IF buckets = <<>> THEN NoNodes(NBuckets) ELSE buckets
  /\ moved' = IF NeedRehash(buckets') THEN NoNodes(GrowFactor * Len(buckets')) ELSE <<>>
  /\ UNCHANGED <<size, threshold, map, vals, destroyed>>

(* Mutant: the rest of a chain is read from the node that has been moved. *)
RehashLosingRest ==
  \E i \in DOMAIN buckets :
    /\ moved # <<>>
    /\ buckets[i] # <<>> /\ \A j \in 1..(i - 1) : buckets[j] = <<>>
    /\ moved' = [moved EXCEPT ![hashidx(Head(buckets[i]).key, Len(moved))] = <<Head(buckets[i])>> \o @]
    /\ buckets' = [buckets EXCEPT ![i] = <<>>]
    /\ UNCHANGED <<arriving, size, threshold, map, vals, destroyed>>

(* rehash: the nodes of every chain in turn, each to the front of its new one. *)
RehashNode ==
  \E i \in DOMAIN buckets :
    /\ moved # <<>>
    /\ buckets[i] # <<>> /\ \A j \in 1..(i - 1) : buckets[j] = <<>>
    /\ moved' = [moved EXCEPT ![hashidx(Head(buckets[i]).key, Len(moved))] = <<Head(buckets[i])>> \o @]
    /\ buckets' = [buckets EXCEPT ![i] = Tail(@)]
    /\ UNCHANGED <<arriving, size, threshold, map, vals, destroyed>>

RehashEnds ==
  /\ moved # <<>> /\ \A i \in DOMAIN buckets : buckets[i] = <<>>
  /\ buckets' = moved /\ moved' = <<>>
  /\ UNCHANGED <<arriving, size, threshold, map, vals, destroyed>>

(* The rest of hashtbl_insert. *)
InsertEnds ==
  \E key \in arriving :
    /\ moved = <<>>
    /\ LET new == [key |-> key, val |-> vals + 1] IN
         /\ buckets' = [buckets EXCEPT ![hashidx(key, Len(buckets))] = <<new>> \o @]
         /\ map' = map \cup {new}
    /\ size' = size + 1 /\ vals' = vals + 1 /\ arriving' = {}
    /\ UNCHANGED <<moved, threshold, destroyed>>

hashtbl_update(key) ==
  /\ vals < MaxVals /\ arriving = {}
  /\ Findnode(key) # 0
  /\ buckets' = [buckets EXCEPT ![hashidx(key, Len(buckets))][Findnode(key)].val = vals + 1]
  /\ vals' = vals + 1
  /\ destroyed' = [destroyed EXCEPT ![hashtbl_find(key)] = @ + 1]
  /\ map' = {e \in map : e.key # key} \cup {[key |-> key, val |-> vals + 1]}
  /\ UNCHANGED <<moved, arriving, size, threshold>>

hashtbl_remove(key) ==
  /\ arriving = {}
  /\ Findnode(key) # 0
  /\ buckets' = [buckets EXCEPT ![hashidx(key, Len(buckets))] = RemoveAt(@, Findnode(key))]
  /\ size' = size - 1
  /\ destroyed' = [destroyed EXCEPT ![hashtbl_find(key)] = @ + 1]
  /\ map' = {e \in map : e.key # key}
  /\ UNCHANGED <<moved, arriving, threshold, vals>>

hashtbl_clear ==
  /\ arriving = {} /\ size > 0
  /\ buckets' = NoNodes(Len(buckets))
  /\ size' = 0 /\ map' = {}
  /\ destroyed' = [v \in 1..MaxVals |->
                     destroyed[v] + Cardinality({p \in Places(buckets) : NodeAt(buckets, p).val = v})]
  /\ UNCHANGED <<moved, arriving, threshold, vals>>

hashtbl_setthreshold(t) ==
  /\ arriving = {}
  /\ threshold' = t
  /\ UNCHANGED <<buckets, moved, arriving, size, map, vals, destroyed>>

(* set_insert does nothing with an element that is there, set_remove with one *)
(* that is not.                                                                *)
set_insert(ele) == IF Findnode(ele) # 0 THEN UNCHANGED tableVars ELSE hashtbl_insert(ele)
set_remove(ele) == IF Findnode(ele) = 0 THEN UNCHANGED tableVars ELSE hashtbl_remove(ele)

TableInit ==
  /\ buckets = <<>> /\ moved = <<>> /\ arriving = {}
  /\ size = 0 /\ threshold = DefaultThreshold
  /\ map = {} /\ vals = 0 /\ destroyed = [v \in 1..MaxVals |-> 0]

TableNext ==
  \/ \E key \in Keys : \/ hashtbl_insert(key) \/ hashtbl_update(key) \/ hashtbl_remove(key)
                       \/ set_insert(key) \/ set_remove(key)
  \/ RehashNode \/ RehashEnds \/ InsertEnds
  \/ hashtbl_clear
  \/ \E t \in Thresholds : hashtbl_setthreshold(t)

TableSpec == TableInit /\ [][TableNext]_tableVars

NodesOf(table) == {NodeAt(table, p) : p \in Places(table)}

(* Every look-up finds what was stored last under the key and nothing else,  *)
(* through any number of rehashes and thresholds: the nodes of the chains,   *)
(* those that a rehash has moved and those it has not, are the entries, as   *)
(* many as the count says, each once, and a value is in the table or was     *)
(* released, once (hashtbl_insert, rehash, hashtbl_update, hashtbl_remove).  *)
TableIsMap ==
  /\ arriving = {} =>
       \A key \in Keys :
         LET entry == {e \in map : e.key = key} IN
         IF entry = {} THEN Findnode(key) = 0 ELSE {hashtbl_find(key)} = {e.val : e \in entry}
  /\ NodesOf(buckets) \cup NodesOf(moved) = map
  /\ size = Cardinality(Places(buckets)) + Cardinality(Places(moved)) /\ size = Cardinality(map)
  /\ \A v \in 1..MaxVals :
       destroyed[v] = IF v <= vals /\ v \notin {e.val : e \in map} THEN 1 ELSE 0

(* The chains of a table hold the entries of M, each once, in its bucket. *)
OnceEach(chain) == \A k, m \in DOMAIN chain : chain[k].key = chain[m].key => k = m
IsTableOf(table, M) ==
  \A i \in DOMAIN table :
    /\ OnceEach(table[i])
    /\ Range(table[i]) = {e \in M : hashidx(e.key, Len(table)) = i}

(* What holds of every state, and is kept by every call: the entries are in  *)
(* the new chains if they have been moved and in the old ones if not.        *)
TableInv ==
  /\ buckets \in Seq(Seq([key : Keys, val : 1..MaxVals]))
  /\ moved \in Seq(Seq([key : Keys, val : 1..MaxVals]))
  /\ buckets = <<>> => map = {} /\ arriving = {}
  /\ arriving = {} => moved = <<>>
  /\ arriving \in SUBSET Keys /\ \A k, m \in arriving : k = m
  /\ arriving # {} => vals < MaxVals
  /\ vals \in 0..MaxVals
  /\ map \in SUBSET [key : Keys, val : 1..vals] /\ IsFiniteSet(map)
  /\ \A d, e \in map : d.key = e.key \/ d.val = e.val => d = e
  /\ \A e \in map : e.key \notin arriving
  /\ NodesOf(moved) \subseteq map
  /\ IsTableOf(moved, NodesOf(moved)) /\ IsTableOf(buckets, map \ NodesOf(moved))
  /\ size = Cardinality(map)
  /\ destroyed = [v \in 1..MaxVals |-> IF v <= vals /\ v \notin {e.val : e \in map} THEN 1 ELSE 0]
=============================================================================
