-------------------------- MODULE SequentialProofs --------------------------
(***************************************************************************)
(* The containers, for every input and every sequence of calls.            *)
(*                                                                         *)
(* The loops of the heap restore its order, and the heap is a priority     *)
(* queue (PQueue).  That the first element of its vector is before all     *)
(* others follows from the order between parents and children by taking    *)
(* the least index of an element that would be before it.                  *)
(*                                                                         *)
(* The vector owns its elements.  Every call is one of three: an element   *)
(* goes in at a place (GainStep), the elements of a range of slots leave   *)
(* (LoseStep), or the slots are permuted.                                  *)
(*                                                                         *)
(* The list is its items.  Every call links a new node in before an item   *)
(* or at the end (LinkStep), takes the node of an item out (UnlinkStep),   *)
(* or frees those the walk from the head meets, which are all.             *)
(*                                                                         *)
(* The hash table is a map.  A chain is told by what it holds and that it  *)
(* holds each key once (PrependFacts, TakeFacts, SetFacts), a table by the *)
(* entries its chains hold (TablePuts, TableTakes, TableSets); a rehash    *)
(* takes an entry from one table and puts it into the other.               *)
(***************************************************************************)
EXTENDS Heap, Vector, SList, HashTable, SequenceTheorems, FiniteSetTheorems,
        WellFoundedInduction, TLAPS

(* A set of natural numbers has a least element. *)
LEMMA LeastNat ==
  ASSUME NEW S \in SUBSET Nat, S # {}
  PROVE  \E i \in S : \A j \in S : i <= j
<1>. DEFINE R == {ss \in Nat \X Nat : ss[1] < ss[2]}
<1>1. IsWellFoundedOn(R, Nat)
  BY NatLessThanWellFounded, Zenon DEF OpToRel
<1>2. \A m, n \in Nat : m < n => <<m, n>> \in R
  OBVIOUS
<1>. HIDE DEF R
<1>3. PICK n \in S : \A m \in S : ~(<<m, n>> \in R)
  BY <1>1, WFMin
<1>4. ASSUME NEW m \in S PROVE n <= m
  <2>1. m \in Nat /\ n \in Nat
    OBVIOUS
  <2>2. ~(m < n)
    BY <1>2, <1>3, <2>1
  <2>. QED  BY <2>1, <2>2
<1>. QED  BY <1>4

(* The tree of indices. *)
LEMMA ParentFacts ==
  ASSUME NEW i \in Nat, i >= 2
  PROVE  /\ Parent(i) \in Nat /\ 1 <= Parent(i) /\ Parent(i) < i
         /\ \A j \in Nat : Parent(i) = j <=> i = Left(j) \/ i = Right(j)
BY DEF Parent, Left, Right

Inv == TypeOK /\ HeapInv

(* The vector after an exchange. *)
LEMMA SwapFacts ==
  \A v \in Seq(Elems) : \A i, j \in 1..Len(v) :
    /\ Swap(v, i, j) \in Seq(Elems)
    /\ Len(Swap(v, i, j)) = Len(v)
    /\ Swap(v, i, j)[i] = v[j] /\ Swap(v, i, j)[j] = v[i]
    /\ \A k \in 1..Len(v) : k # i /\ k # j => Swap(v, i, j)[k] = v[k]
<1>. SUFFICES ASSUME NEW v \in Seq(Elems), NEW i \in 1..Len(v), NEW j \in 1..Len(v)
              PROVE  /\ Swap(v, i, j) \in Seq(Elems)
                     /\ Len(Swap(v, i, j)) = Len(v)
                     /\ Swap(v, i, j)[i] = v[j] /\ Swap(v, i, j)[j] = v[i]
                     /\ \A k \in 1..Len(v) : k # i /\ k # j => Swap(v, i, j)[k] = v[k]
  OBVIOUS
<1>. DEFINE u == [v EXCEPT ![i] = v[j]]
<1>. DEFINE w == [u EXCEPT ![j] = v[i]]
<1>1. v[i] \in Elems /\ v[j] \in Elems
  BY ElementOfSeq
<1>2. u \in Seq(Elems) /\ Len(u) = Len(v) /\ \A k \in 1..Len(v) : u[k] = IF k = i THEN v[j] ELSE v[k]
  BY <1>1, ExceptSeq
<1>3. Swap(v, i, j) = w
  BY DEF Swap
<1>. HIDE DEF u
<1>4. /\ w \in Seq(Elems)
      /\ Len(w) = Len(u)
      /\ \A k \in 1..Len(u) : w[k] = IF k = j THEN v[i] ELSE u[k]
  BY <1>1, <1>2, ExceptSeq
<1>. HIDE DEF w
<1>. QED  BY <1>2, <1>3, <1>4

OneToOne(v) == \A m, n \in 1..Len(v) : v[m] = v[n] => m = n
ElemsOf(v) == {v[k] : k \in 1..Len(v)}

(* An exchange keeps the elements, each once. *)
LEMMA SwapKeeps ==
  \A v \in Seq(Elems) : \A i, j \in 1..Len(v) :
    /\ OneToOne(v) => OneToOne(Swap(v, i, j))
    /\ ElemsOf(Swap(v, i, j)) = ElemsOf(v)
<1>. SUFFICES ASSUME NEW v \in Seq(Elems), NEW i \in 1..Len(v), NEW j \in 1..Len(v)
              PROVE  /\ OneToOne(v) => OneToOne(Swap(v, i, j))
                     /\ ElemsOf(Swap(v, i, j)) = ElemsOf(v)
  OBVIOUS
<1>. DEFINE w == Swap(v, i, j)
<1>1. /\ Len(w) = Len(v) /\ w[i] = v[j] /\ w[j] = v[i]
      /\ \A k \in 1..Len(v) : k # i /\ k # j => w[k] = v[k]
  BY SwapFacts
<1>. HIDE DEF w
<1>2. OneToOne(v) => OneToOne(w)
  BY <1>1 DEF OneToOne
<1>3. ASSUME NEW x \in ElemsOf(w) PROVE x \in ElemsOf(v)
  BY <1>1 DEF ElemsOf
<1>4. ASSUME NEW x \in ElemsOf(v) PROVE x \in ElemsOf(w)
  <2>1. PICK k \in 1..Len(v) : x = v[k]
    BY DEF ElemsOf
  <2>2. \E m \in 1..Len(w) : x = w[m]
    BY <1>1, <2>1
  <2>. QED  BY <2>2 DEF ElemsOf
<1>. QED  BY <1>2, <1>3, <1>4 DEF w

(* The vector after its last element took the place of the first. *)
LEMMA PopFacts ==
  ASSUME NEW v \in Seq(Elems), v # <<>>, NEW w,
         w = SubSeq([v EXCEPT ![1] = v[Len(v)]], 1, Len(v) - 1)
  PROVE  /\ w \in Seq(Elems)
         /\ Len(w) = Len(v) - 1
         /\ \A k \in 1..(Len(v) - 1) : w[k] = IF k = 1 THEN v[Len(v)] ELSE v[k]
<1>1. Len(v) \in Nat \ {0} /\ v[Len(v)] \in Elems
  BY EmptySeq
<1>. DEFINE u == [v EXCEPT ![1] = v[Len(v)]]
<1>2. /\ u \in Seq(Elems) /\ Len(u) = Len(v)
      /\ \A k \in 1..Len(v) : u[k] = IF k = 1 THEN v[Len(v)] ELSE v[k]
  <2>1. 1 \in 1..Len(v)
    BY <1>1
  <2>. QED  BY <1>1, <2>1, ExceptSeq
<1>. HIDE DEF u
<1>3. /\ \A k \in 1..(Len(v) - 1) : u[k] \in Elems
  BY <1>1, <1>2
<1>4. /\ SubSeq(u, 1, Len(v) - 1) \in Seq(Elems)
      /\ Len(SubSeq(u, 1, Len(v) - 1)) = Len(v) - 1
      /\ \A k \in 1..(Len(v) - 1) : SubSeq(u, 1, Len(v) - 1)[k] = u[k]
  <2>. DEFINE n == Len(v) - 1
  <2>1. n \in Int /\ n >= 0 /\ 1 \in Int /\ n - 1 + 1 = n
    BY <1>1
  <2>2. \A k \in 1..n : u[k] \in Elems
    BY <1>3
  <2>. HIDE DEF n
  <2>3. /\ SubSeq(u, 1, n) \in Seq(Elems)
        /\ Len(SubSeq(u, 1, n)) = n
        /\ \A k \in 1..n : SubSeq(u, 1, n)[k] = u[k]
    BY <2>1, <2>2, SubSeqProperties
  <2>. QED  BY <2>3 DEF n
<1>. QED  BY <1>1, <1>2, <1>4 DEF u

(* In order, the first element is before or level with every other. *)
LEMMA FirstIsFirst ==
  ASSUME TypeOK, HeapOrder, phase = "idle", vec # <<>>
  PROVE  vec[1] \in Elems /\ \A i \in 1..Len(vec) : Key[vec[1]] >= Key[vec[i]]
<1>1. Len(vec) \in Nat \ {0} /\ \A i \in 1..Len(vec) : vec[i] \in Elems /\ Key[vec[i]] \in Int
  BY EmptySeq, KeyAssumption DEF TypeOK
<1>2. SUFFICES ASSUME \E i \in 1..Len(vec) : ~(Key[vec[1]] >= Key[vec[i]])
               PROVE  FALSE
  BY <1>1
<1>. DEFINE S == {i \in 1..Len(vec) : ~(Key[vec[1]] >= Key[vec[i]])}
<1>3. S \in SUBSET Nat /\ S # {}
  BY <1>2
<1>4. PICK i \in S : \A j \in S : i <= j
  <2>. HIDE DEF S
  <2>. QED  BY <1>3, LeastNat
<1>5. i \in 2..Len(vec)
  BY <1>1, <1>4
<1>6. Parent(i) \in 1..Len(vec) /\ ~(i <= Parent(i))
  BY <1>5, ParentFacts
<1>7. Key[vec[1]] >= Key[vec[Parent(i)]]
  BY <1>4, <1>6
<1>8. ~(Key[vec[i]] > Key[vec[Parent(i)]])
  BY <1>5 DEF HeapOrder, Before
<1>. QED  BY <1>1, <1>4, <1>5, <1>6, <1>7, <1>8

(* The keys are integers, so of two elements one is not before the other. *)
LEMMA BeforeFacts ==
  \A a, b, c \in Elems :
    /\ Before(a, b) => ~Before(b, a)
    /\ ~Before(a, b) /\ ~Before(b, c) => ~Before(a, c)
BY KeyAssumption DEF Before

----------------------------------------------------------------------------
(* The steps. *)

LEMMA PushInv ==
  ASSUME Inv, NEW e \in Elems, Push(e)
  PROVE  Inv' /\ Content' = Content \cup {e}
<1>. USE DEF Inv, HeapInv
<1>1. /\ vec' \in Seq(Elems) /\ Len(vec') = Len(vec) + 1 /\ Len(vec) \in Nat
      /\ vec'[Len(vec) + 1] = e
      /\ \A k \in 1..Len(vec) : vec'[k] = vec[k]
  BY DEF Push, TypeOK
<1>2. TypeOK'
  BY <1>1 DEF Push, TypeOK
<1>3. HeapOrder'
  <2>1. CASE vec = <<>>
    BY <1>1, <2>1 DEF HeapOrder
  <2>2. CASE vec # <<>>
    BY <2>2 DEF HeapOrder, Push
  <2>. QED  BY <2>1, <2>2
<1>4. LoopOrder'
  <2>1. CASE vec = <<>>
    BY <2>1 DEF LoopOrder, Push
  <2>2. CASE vec # <<>>
    <3>1. phase' = "up" /\ idx' = Len(vec) + 1 /\ phase = "idle"
      BY <2>2 DEF Push
    <3>2. ASSUME NEW i \in 2..Len(vec'), i # idx'
          PROVE  ~Before(vec'[i], vec'[Parent(i)])
      <4>1. i \in 2..Len(vec) /\ Parent(i) \in 1..Len(vec)
        BY <1>1, <3>1, <3>2, ParentFacts
      <4>2. ~Before(vec[i], vec[Parent(i)])
        BY <3>1, <4>1 DEF HeapOrder
      <4>3. vec'[i] = vec[i] /\ vec'[Parent(i)] = vec[Parent(i)]
        BY <1>1, <4>1
      <4>. QED  BY <4>2, <4>3
    <3>3. \A i \in 2..Len(vec') : Parent(i) # idx'
      BY <1>1, <3>1, ParentFacts
    <3>. QED  BY <3>1, <3>2, <3>3 DEF LoopOrder
  <2>. QED  BY <2>1, <2>2
<1>5. Distinct' /\ Content' = Content \cup {e}
  <2>1. \A k \in 1..Len(vec) : vec[k] # e
    BY DEF Push, Content
  <2>2. Distinct'
    BY <1>1, <2>1 DEF Distinct
  <2>3. Content' \subseteq Content \cup {e}
    BY <1>1 DEF Content
  <2>4. \A k \in 1..Len(vec) : k \in 1..Len(vec') /\ vec'[k] = vec[k]
    BY <1>1
  <2>5. Len(vec) + 1 \in 1..Len(vec')
    BY <1>1
  <2>6. Content \cup {e} \subseteq Content'
    BY <1>1, <2>4, <2>5 DEF Content
  <2>. QED  BY <2>2, <2>3, <2>6
<1>. QED  BY <1>2, <1>3, <1>4, <1>5

LEMMA PopInv ==
  ASSUME Inv, Pop
  PROVE  Inv' /\ Content' = Content \ {vec[1]}
<1>. USE DEF Inv, HeapInv
<1>1. /\ vec' \in Seq(Elems) /\ Len(vec') = Len(vec) - 1
      /\ \A k \in 1..(Len(vec) - 1) : vec'[k] = IF k = 1 THEN vec[Len(vec)] ELSE vec[k]
  <2>1. vec \in Seq(Elems) /\ vec # <<>>
        /\ vec' = SubSeq([vec EXCEPT ![1] = vec[Len(vec)]], 1, Len(vec) - 1)
    BY DEF Pop, TypeOK
  <2>. QED  BY <2>1, PopFacts
<1>2. Len(vec) \in Nat \ {0} /\ vec[1] \in Elems /\ phase = "idle" /\ out' = vec[1]
  BY EmptySeq DEF Pop, TypeOK
<1>3. CASE Len(vec) = 1
  <2>1. vec' = <<>> /\ phase' = "idle" /\ idx' = idx
    BY <1>1, <1>2, <1>3, EmptySeq DEF Pop
  <2>2. Inv'
    BY <1>2, <2>1 DEF TypeOK, HeapOrder, LoopOrder, Distinct
  <2>. QED  BY <1>2, <1>3, <2>1, <2>2 DEF Content
<1>4. CASE Len(vec) # 1
  <2>1. phase' = "down" /\ idx' = 1
    BY <1>4 DEF Pop
  <2>2. TypeOK'
    BY <1>1, <1>2, <1>4, <2>1 DEF TypeOK
  <2>3. ASSUME NEW i \in 2..Len(vec'), Parent(i) # 1
        PROVE  ~Before(vec'[i], vec'[Parent(i)])
    <3>1. i \in 2..Len(vec) /\ Parent(i) \in 2..(Len(vec) - 1)
      BY <1>1, <1>2, <2>3, ParentFacts
    <3>2. ~Before(vec[i], vec[Parent(i)])
      BY <1>2, <3>1 DEF HeapOrder
    <3>3. vec'[i] = vec[i] /\ vec'[Parent(i)] = vec[Parent(i)]
      BY <1>1, <3>1
    <3>. QED  BY <3>2, <3>3
  <2>4. HeapOrder' /\ LoopOrder'
    BY <2>1, <2>3 DEF HeapOrder, LoopOrder
  <2>5. Distinct'
    BY <1>1, <1>2 DEF Distinct
  <2>6. \A k \in 1..Len(vec') : \E m \in 2..Len(vec) : vec'[k] = vec[m]
    BY <1>1, <1>2, <1>4
  <2>7. \A m \in 2..Len(vec) : \E k \in 1..Len(vec') : vec'[k] = vec[m]
    <3>. TAKE m \in 2..Len(vec)
    <3>1. CASE m = Len(vec)
      BY <1>1, <1>2, <1>4, <3>1
    <3>2. CASE m # Len(vec)
      BY <1>1, <1>2, <3>2
    <3>. QED  BY <3>1, <3>2
  <2>8. \A m \in 2..Len(vec) : vec[m] # vec[1]
    BY <1>2 DEF Distinct
  <2>9. Content = {vec[1]} \cup {vec[m] : m \in 2..Len(vec)}
    BY <1>2 DEF Content
  <2>10. Content' = {vec[m] : m \in 2..Len(vec)}
    <3>1. ASSUME NEW x \in Content' PROVE x \in {vec[m] : m \in 2..Len(vec)}
      BY <2>6 DEF Content
    <3>2. ASSUME NEW x \in {vec[m] : m \in 2..Len(vec)} PROVE x \in Content'
      BY <2>7 DEF Content
    <3>. QED  BY <3>1, <3>2
  <2>. QED  BY <2>2, <2>4, <2>5, <2>8, <2>9, <2>10
<1>. QED  BY <1>3, <1>4

LEMMA ShiftUpInv ==
  ASSUME Inv, ShiftUp
  PROVE  Inv' /\ Content' = Content
<1>. USE DEF Inv, HeapInv
<1>1. /\ vec \in Seq(Elems) /\ Len(vec) \in Nat /\ idx \in 1..Len(vec) /\ phase = "up"
      /\ \A k \in 1..Len(vec) : vec[k] \in Elems
  BY DEF ShiftUp, TypeOK
<1>2. CASE ~(idx > 1 /\ Before(vec[idx], vec[Parent(idx)]))
  <2>1. phase' = "idle" /\ vec' = vec /\ idx' = idx /\ out' = out
    BY <1>2 DEF ShiftUp
  <2>2. ASSUME NEW i \in 2..Len(vec) PROVE ~Before(vec[i], vec[Parent(i)])
    BY <1>1, <1>2 DEF LoopOrder
  <2>. QED  BY <1>1, <2>1, <2>2 DEF TypeOK, HeapOrder, LoopOrder, Distinct, Content
<1>3. CASE idx > 1 /\ Before(vec[idx], vec[Parent(idx)])
  <2>. DEFINE p == Parent(idx)
  <2>1. vec' = Swap(vec, idx, p) /\ idx' = p /\ phase' = "up" /\ out' = out
    BY <1>1, <1>3 DEF ShiftUp
  <2>2. p \in 1..Len(vec) /\ p < idx
    BY <1>1, <1>3, ParentFacts
  <2>3. Before(vec[idx], vec[p])
    BY <1>3
  <2>4. \A i \in 2..Len(vec) : i # idx => ~Before(vec[i], vec[Parent(i)])
    BY <1>1 DEF LoopOrder
  <2>5. \A i \in 2..Len(vec) : Parent(i) = idx => ~Before(vec[i], vec[p])
    BY <1>1, <1>3 DEF LoopOrder
  <2>. HIDE DEF p
  <2>6. /\ vec' \in Seq(Elems) /\ Len(vec') = Len(vec)
        /\ vec'[idx] = vec[p] /\ vec'[p] = vec[idx]
        /\ \A k \in 1..Len(vec) : k # idx /\ k # p => vec'[k] = vec[k]
    BY <1>1, <2>1, <2>2, SwapFacts
  <2>7. ASSUME NEW i \in 2..Len(vec), i # p
        PROVE  ~Before(vec'[i], vec'[Parent(i)])
    <3>1. Parent(i) \in 1..Len(vec) /\ Parent(i) # i
      BY <1>1, ParentFacts
    <3>2. CASE i = idx
      BY <1>1, <2>2, <2>3, <2>6, <3>2, BeforeFacts DEF p
    <3>3. CASE Parent(i) = idx
      <4>1. i # idx
        BY <3>1, <3>3
      <4>. QED  BY <2>5, <2>6, <2>7, <3>3, <4>1
    <3>4. CASE Parent(i) = p /\ i # idx
      <4>1. ~Before(vec[i], vec[p]) /\ ~Before(vec[p], vec[idx])
        BY <1>1, <2>2, <2>3, <2>4, <3>4, BeforeFacts
      <4>2. ~Before(vec[i], vec[idx])
        BY <1>1, <2>2, <4>1, BeforeFacts
      <4>. QED  BY <2>6, <2>7, <3>4, <4>2
    <3>5. CASE i # idx /\ Parent(i) # idx /\ Parent(i) # p
      BY <2>4, <2>6, <2>7, <3>1, <3>5
    <3>. QED  BY <3>2, <3>3, <3>4, <3>5
  <2>8. ASSUME NEW i \in 2..Len(vec), Parent(i) = p, p > 1
        PROVE  ~Before(vec'[i], vec'[Parent(p)])
    <3>1. p \in 2..Len(vec) /\ Parent(p) \in 1..Len(vec) /\ Parent(p) # p /\ Parent(p) # idx
      BY <1>1, <2>2, <2>8, ParentFacts
    <3>2. ~Before(vec[p], vec[Parent(p)]) /\ vec'[Parent(p)] = vec[Parent(p)]
      BY <2>2, <2>4, <2>6, <3>1
    <3>3. CASE i = idx
      BY <2>6, <3>2, <3>3
    <3>4. CASE i # idx
      <4>1. ~Before(vec[i], vec[p]) /\ i # p
        BY <2>4, <2>8, <3>1, <3>4
      <4>2. ~Before(vec[i], vec[Parent(p)])
        BY <1>1, <2>2, <3>1, <3>2, <4>1, BeforeFacts
      <4>. QED  BY <2>6, <3>2, <3>4, <4>1, <4>2
    <3>. QED  BY <3>3, <3>4
  <2>9. LoopOrder' /\ HeapOrder'
    BY <2>1, <2>6, <2>7, <2>8 DEF LoopOrder, HeapOrder
  <2>10. Distinct' /\ Content' = Content
    <3>1. /\ OneToOne(vec) => OneToOne(vec')
          /\ ElemsOf(vec') = ElemsOf(vec)
      BY <1>1, <2>1, <2>2, SwapKeeps
    <3>. QED  BY <3>1 DEF Distinct, Content, OneToOne, ElemsOf
  <2>11. TypeOK'
    BY <2>1, <2>2, <2>6 DEF TypeOK
  <2>. QED  BY <2>9, <2>10, <2>11
<1>. QED  BY <1>2, <1>3

(* The choice of shiftdown: the index itself only if it is in order with its  *)
(* children, otherwise the child that is before the other.                    *)
LEMMA SmallestFacts ==
  ASSUME TypeOK, phase = "down"
  PROVE  /\ Smallest(idx) \in 1..Len(vec)
         /\ \A i \in 2..Len(vec) : Parent(i) = idx => ~Before(vec[i], vec[Smallest(idx)])
         /\ Smallest(idx) # idx => /\ Smallest(idx) > idx
                                   /\ Parent(Smallest(idx)) = idx
                                   /\ Before(vec[Smallest(idx)], vec[idx])
<1>1. /\ Len(vec) \in Nat /\ idx \in 1..Len(vec)
      /\ \A k \in 1..Len(vec) : vec[k] \in Elems
  BY DEF TypeOK
<1>2. /\ Left(idx) \in Nat /\ Right(idx) \in Nat /\ Left(idx) > idx /\ Right(idx) > idx
      /\ Left(idx) >= 2 /\ Right(idx) >= 2
      /\ Parent(Left(idx)) = idx /\ Parent(Right(idx)) = idx
  BY <1>1 DEF Left, Right, Parent
<1>3. \A i \in 2..Len(vec) : Parent(i) = idx => i = Left(idx) \/ i = Right(idx)
  BY <1>1, ParentFacts
<1>. DEFINE l == IF Left(idx) <= Len(vec) /\ Before(vec[Left(idx)], vec[idx])
                 THEN Left(idx) ELSE idx
<1>4. /\ l \in 1..Len(vec) /\ l \in {idx, Left(idx)}
      /\ l # idx => Before(vec[l], vec[idx])
      /\ Left(idx) <= Len(vec) => ~Before(vec[Left(idx)], vec[l])
  BY <1>1, <1>2, BeforeFacts
<1>5. Smallest(idx) = IF Right(idx) <= Len(vec) /\ Before(vec[Right(idx)], vec[l])
                      THEN Right(idx) ELSE l
  BY DEF Smallest
<1>. HIDE DEF l
<1>6. CASE Right(idx) <= Len(vec) /\ Before(vec[Right(idx)], vec[l])
  <2>1. Smallest(idx) = Right(idx) /\ Right(idx) \in 1..Len(vec)
    BY <1>1, <1>2, <1>5, <1>6
  <2>2. Before(vec[Right(idx)], vec[idx])
    BY <1>1, <1>4, <1>6, <2>1, KeyAssumption DEF Before
  <2>3. Left(idx) <= Len(vec) => ~Before(vec[Left(idx)], vec[Right(idx)])
    BY <1>1, <1>2, <1>4, <1>6, <2>1, KeyAssumption DEF Before
  <2>4. ~Before(vec[Right(idx)], vec[Right(idx)])
    BY <1>1, <2>1, BeforeFacts
  <2>. QED  BY <1>1, <1>2, <1>3, <2>1, <2>2, <2>3, <2>4
<1>7. CASE ~(Right(idx) <= Len(vec) /\ Before(vec[Right(idx)], vec[l]))
  <2>1. Smallest(idx) = l
    BY <1>5, <1>7
  <2>. QED  BY <1>1, <1>2, <1>3, <1>4, <1>7, <2>1
<1>. QED  BY <1>6, <1>7

LEMMA ShiftDownInv ==
  ASSUME Inv, ShiftDown
  PROVE  Inv' /\ Content' = Content
<1>. USE DEF Inv, HeapInv
<1>. DEFINE s == Smallest(idx)
<1>1. /\ vec \in Seq(Elems) /\ Len(vec) \in Nat /\ idx \in 1..Len(vec) /\ phase = "down"
      /\ \A k \in 1..Len(vec) : vec[k] \in Elems
  BY DEF ShiftDown, TypeOK
<1>2. /\ s \in 1..Len(vec)
      /\ \A i \in 2..Len(vec) : Parent(i) = idx => ~Before(vec[i], vec[s])
      /\ s # idx => s > idx /\ Parent(s) = idx /\ Before(vec[s], vec[idx])
  BY <1>1, SmallestFacts
<1>3. \A i \in 2..Len(vec) : Parent(i) # idx => ~Before(vec[i], vec[Parent(i)])
  BY <1>1 DEF LoopOrder
<1>4. CASE s = idx
  <2>1. phase' = "idle" /\ vec' = vec /\ idx' = idx /\ out' = out
    BY <1>4 DEF ShiftDown
  <2>2. ASSUME NEW i \in 2..Len(vec) PROVE ~Before(vec[i], vec[Parent(i)])
    BY <1>2, <1>3, <1>4
  <2>. QED  BY <1>1, <2>1, <2>2 DEF TypeOK, HeapOrder, LoopOrder, Distinct, Content
<1>5. CASE s # idx
  <2>1. vec' = Swap(vec, idx, s) /\ idx' = s /\ phase' = "down" /\ out' = out
    BY <1>1, <1>5 DEF ShiftDown
  <2>2. \A i \in 2..Len(vec) : Parent(i) = idx /\ idx > 1 => ~Before(vec[i], vec[Parent(idx)])
    BY <1>1 DEF LoopOrder
  <2>3. s \in 2..Len(vec)
    BY <1>1, <1>2, <1>5
  <2>. HIDE DEF s
  <2>4. /\ vec' \in Seq(Elems) /\ Len(vec') = Len(vec)
        /\ vec'[idx] = vec[s] /\ vec'[s] = vec[idx]
        /\ \A k \in 1..Len(vec) : k # idx /\ k # s => vec'[k] = vec[k]
    BY <1>1, <1>2, <2>1, SwapFacts
  <2>5. ASSUME NEW i \in 2..Len(vec), Parent(i) # s
        PROVE  ~Before(vec'[i], vec'[Parent(i)])
    <3>1. Parent(i) \in 1..Len(vec) /\ Parent(i) # i
      BY <1>1, ParentFacts
    <3>2. CASE i = s
      BY <1>1, <1>2, <1>5, <2>4, <3>2, BeforeFacts
    <3>3. CASE Parent(i) = idx /\ i # s
      BY <1>2, <2>4, <3>1, <3>3
    <3>4. CASE i = idx
      <4>1. ~Before(vec[s], vec[Parent(idx)])
        BY <1>2, <1>5, <2>2, <2>3, <3>4
      <4>. QED  BY <2>4, <2>5, <3>1, <3>4, <4>1
    <3>5. CASE i # s /\ i # idx /\ Parent(i) # idx
      BY <1>3, <2>4, <2>5, <3>1, <3>5
    <3>. QED  BY <3>2, <3>3, <3>4, <3>5
  <2>6. ASSUME NEW i \in 2..Len(vec), Parent(i) = s
        PROVE  ~Before(vec'[i], vec'[Parent(s)])
    <3>1. ~Before(vec[i], vec[s]) /\ i # s /\ i # idx
      BY <1>1, <1>2, <1>3, <1>5, <2>3, <2>6, ParentFacts
    <3>. QED  BY <1>2, <1>5, <2>4, <3>1
  <2>7. LoopOrder' /\ HeapOrder'
    BY <2>1, <2>4, <2>5, <2>6 DEF LoopOrder, HeapOrder
  <2>8. Distinct' /\ Content' = Content
    <3>1. /\ OneToOne(vec) => OneToOne(vec')
          /\ ElemsOf(vec') = ElemsOf(vec)
      BY <1>1, <1>2, <2>1, SwapKeeps
    <3>. QED  BY <3>1 DEF Distinct, Content, OneToOne, ElemsOf
  <2>9. TypeOK'
    BY <1>2, <2>1, <2>4 DEF TypeOK
  <2>. QED  BY <2>7, <2>8, <2>9
<1>. QED  BY <1>4, <1>5

LEMMA ClearInv ==
  ASSUME Inv, Clear
  PROVE  Inv' /\ Content' = {}
<1>1. vec' = <<>> /\ phase' = "idle" /\ phase = "idle" /\ UNCHANGED <<idx, out>>
  BY DEF Clear
<1>2. <<>> \in Seq(Elems) /\ Len(<<>>) = 0
  OBVIOUS
<1>. QED  BY <1>1, <1>2 DEF Inv, HeapInv, TypeOK, HeapOrder, LoopOrder, Distinct, Content

----------------------------------------------------------------------------
(* The theorems. *)

LEMMA InductiveInvariant == Spec => []Inv
<1>1. Init => Inv
  BY DEF Init, Inv, TypeOK, HeapInv, HeapOrder, LoopOrder, Distinct
<1>2. Inv /\ [Next]_vars => Inv'
  <2>. SUFFICES ASSUME Inv, [Next]_vars
                PROVE  Inv'
    OBVIOUS
  <2>1. CASE UNCHANGED vars
    BY <2>1 DEF vars, Inv, TypeOK, HeapInv, HeapOrder, LoopOrder, Distinct
  <2>2. CASE Next
    BY <2>2, PushInv, PopInv, ShiftUpInv, ShiftDownInv, ClearInv DEF Next
  <2>. QED  BY <2>1, <2>2
<1>. QED  BY <1>1, <1>2, PTL DEF Spec

(* After every call the heap is in order, whatever was pushed and popped      *)
(* before, and inside a call only at the index of its loop.                   *)
THEOREM HeapIsOrdered == Spec => []HeapInv
<1>1. Inv => HeapInv
  BY DEF Inv
<1>. QED  BY <1>1, InductiveInvariant, PTL

(* The heap is a priority queue: every call has the effect of that of a set   *)
(* of elements whose pop hands out one that none is before.                   *)
THEOREM HeapIsPriorityQueue == Spec => IsPriorityQueue
<1>1. Init => PQ!Init
  BY DEF Init, PQ!Init, Content
<1>2. Inv /\ [Next]_vars => [PQ!Next]_<<Content, out>>
  <2>. SUFFICES ASSUME Inv, [Next]_vars
                PROVE  [PQ!Next]_<<Content, out>>
    OBVIOUS
  <2>1. ASSUME NEW e \in Elems, Push(e) PROVE PQ!Push(e)
    BY <2>1, PushInv DEF Push, PQ!Push
  <2>2. CASE Pop
    <3>1. vec # <<>> /\ out' = vec[1]
      BY <2>2 DEF Pop
    <3>2. vec[1] \in Elems /\ \A i \in 1..Len(vec) : Key[vec[1]] >= Key[vec[i]]
      BY <2>2, FirstIsFirst DEF Pop, Inv, HeapInv
    <3>3. vec[1] \in Content
      BY <3>1, EmptySeq DEF Inv, TypeOK, Content
    <3>4. vec[1] \in PQ!First(Content)
      BY <3>2, <3>3 DEF Content, PQ!First
    <3>5. PQ!Pop(vec[1])
      BY <2>2, <3>1, <3>4, PopInv DEF PQ!Pop
    <3>. QED  BY <3>2, <3>5 DEF PQ!Next
  <2>3. CASE ShiftUp \/ ShiftDown
    BY <2>3, ShiftUpInv, ShiftDownInv DEF ShiftUp, ShiftDown
  <2>4. CASE Clear
    BY <2>4, ClearInv DEF Clear, PQ!Clear, PQ!Next
  <2>5. CASE UNCHANGED vars
    BY <2>5 DEF vars, Content
  <2>. QED  BY <2>1, <2>2, <2>3, <2>4, <2>5 DEF Next, PQ!Next
<1>. QED  BY <1>1, <1>2, InductiveInvariant, PTL DEF Spec, IsPriorityQueue, PQ!Spec

----------------------------------------------------------------------------
(* The vector *)

LEMMA HeldFacts ==
  ASSUME NEW S, NEW buf \in Seq(S), NEW n \in 0..Len(buf), NEW l \in Seq(S)
  PROVE  SubSeq(buf, 1, n) = l <=> Len(l) = n /\ \A i \in 1..n : buf[i] = l[i]
<1>1. PICK h : h = SubSeq(buf, 1, n)
  OBVIOUS
<1>2. h \in Seq(S) /\ Len(h) = n /\ \A i \in 1..n : h[i] = buf[i]
  BY <1>1
<1>3. h = l <=> Len(l) = n /\ \A i \in 1..n : h[i] = l[i]
  BY <1>2
<1>4. QED  BY <1>1, <1>2, <1>3

LEMMA ConcatFacts ==
  ASSUME NEW S, NEW a \in Seq(S), NEW b \in Seq(S), NEW m \in Nat, NEW n \in Nat,
         m = Len(a), n = Len(b)
  PROVE  /\ a \o b \in Seq(S) /\ Len(a \o b) = m + n
         /\ \A j \in 1..(m + n) : (a \o b)[j] = IF j <= m THEN a[j] ELSE b[j - m]
OBVIOUS

LEMMA SnocFacts ==
  ASSUME NEW S, NEW a \in Seq(S), NEW e \in S, NEW m \in Nat, m = Len(a)
  PROVE  /\ a \o <<e>> \in Seq(S) /\ Len(a \o <<e>>) = m + 1 /\ (a \o <<e>>)[m + 1] = e
         /\ \A j \in 1..m : (a \o <<e>>)[j] = a[j]
<1>0. PICK u : u = <<e>>
  OBVIOUS
<1>1. u = <<e>> /\ u \in Seq(S) /\ Len(u) = 1 /\ u[1] = e
  BY <1>0
<1>2. /\ a \o u \in Seq(S) /\ Len(a \o u) = m + 1
      /\ \A j \in 1..(m + 1) : (a \o u)[j] = IF j <= m THEN a[j] ELSE u[j - m]
  BY <1>1, ConcatFacts
<1>3. (a \o u)[m + 1] = u[1] /\ \A j \in 1..m : (a \o u)[j] = a[j]
  BY <1>2
<1>4. QED  BY <1>1, <1>2, <1>3

LEMMA PartFacts ==
  ASSUME NEW S, NEW s \in Seq(S), NEW m \in Nat, NEW n \in Nat, 1 <= m, m <= n + 1, n <= Len(s)
  PROVE  /\ SubSeq(s, m, n) \in Seq(S) /\ Len(SubSeq(s, m, n)) = n - m + 1
         /\ \A j \in 1..(n - m + 1) : SubSeq(s, m, n)[j] = s[j + m - 1]
OBVIOUS

LEMMA RangeFacts ==
  ASSUME NEW S, NEW s \in Seq(S), NEW n \in Nat, n = Len(s)
  PROVE  /\ DOMAIN s = 1..n /\ Range(s) \subseteq S
         /\ \A x : x \in Range(s) <=> \E i \in 1..n : s[i] = x
<1>1. DOMAIN s = 1..n
  OBVIOUS
<1>2. QED  BY <1>1 DEF Range

(* What InsertAt returns: the element is at its place, those behind it one   *)
(* place further.                                                            *)
Grows(S, s, i, e) ==
  LET t == InsertAt(s, i, e) IN
  /\ t \in Seq(S) /\ Len(t) = Len(s) + 1
  /\ \A j \in 1..(Len(s) + 1) :
       t[j] = IF j < i THEN s[j] ELSE IF j = i THEN e ELSE s[j - 1]

LEMMA InsertAtFacts ==
  ASSUME NEW S, NEW s \in Seq(S), NEW e \in S, NEW i \in 1..(Len(s) + 1)
  PROVE  Grows(S, s, i, e)
<1>1. PICK a, b : a = SubSeq(s, 1, i - 1) /\ b = SubSeq(s, i, Len(s))
  OBVIOUS
<1>2. PICK n \in Nat : n = Len(s)
  OBVIOUS
<1>3. /\ a \in Seq(S) /\ Len(a) = i - 1 /\ \A j \in 1..(i - 1) : a[j] = s[j]
      /\ b \in Seq(S) /\ Len(b) = n - i + 1 /\ \A j \in 1..(n - i + 1) : b[j] = s[j + i - 1]
  <2>1. i \in Nat /\ i - 1 \in Nat /\ 1 <= i /\ i <= n + 1
    BY <1>2
  <2>2. QED  BY <1>1, <1>2, <2>1, PartFacts
<1>4. PICK c : c = a \o <<e>>
  OBVIOUS
<1>5. c \in Seq(S) /\ Len(c) = i /\ c[i] = e /\ \A j \in 1..(i - 1) : c[j] = s[j]
  <2>1. PICK m \in Nat : m = i - 1 /\ m + 1 = i /\ m = Len(a)
    BY <1>2, <1>3
  <2>2. c \in Seq(S) /\ Len(c) = m + 1 /\ c[m + 1] = e /\ \A j \in 1..m : c[j] = a[j]
    <3>1. a \in Seq(S) /\ m = Len(a) /\ e \in S
      BY <1>3, <2>1
    <3>2. /\ a \o <<e>> \in Seq(S) /\ Len(a \o <<e>>) = m + 1 /\ (a \o <<e>>)[m + 1] = e
          /\ \A j \in 1..m : (a \o <<e>>)[j] = a[j]
      BY ONLY <3>1, m \in Nat, SnocFacts
    <3>3. QED  BY <1>4, <3>2
  <2>3. QED  BY <1>3, <2>1, <2>2
<1>6. PICK t : t = InsertAt(s, i, e)
  OBVIOUS
<1>7. t = c \o b
  BY <1>1, <1>4, <1>6 DEF InsertAt
<1>8. t \in Seq(S) /\ Len(t) = n + 1
  <2>1. i \in Nat /\ n - i + 1 \in Nat /\ i + (n - i + 1) = n + 1
    BY <1>2
  <2>2. QED  BY <1>3, <1>5, <1>7, <2>1, ConcatFacts
<1>9. ASSUME NEW j \in 1..(n + 1)
      PROVE  t[j] = IF j < i THEN s[j] ELSE IF j = i THEN e ELSE s[j - 1]
  <2>1. CASE j <= i
    <3>1. j \in 1..i /\ t[j] = c[j]
      BY <1>2, <1>3, <1>5, <1>7, <2>1
    <3>2. j = i \/ j \in 1..(i - 1)
      BY <1>2, <3>1
    <3>3. QED  BY <1>5, <3>1, <3>2
  <2>2. CASE ~(j <= i)
    <3>1. t[j] = b[j - i]
      BY <1>2, <1>3, <1>5, <1>7, <2>2, SMTT(20)
    <3>2. j - i \in 1..(n - i + 1) /\ (j - i) + i - 1 = j - 1
      BY <1>2, <2>2
    <3>3. QED  BY <1>3, <2>2, <3>1, <3>2
  <2>3. QED  BY <2>1, <2>2
<1>10. QED  BY <1>2, <1>6, <1>8, <1>9 DEF Grows

LEMMA RemoveAtFacts ==
  ASSUME NEW S, NEW s \in Seq(S), NEW i \in 1..Len(s)
  PROVE  LET t == RemoveAt(s, i) IN
         /\ t \in Seq(S) /\ Len(t) = Len(s) - 1
         /\ \A j \in 1..(Len(s) - 1) : t[j] = IF j < i THEN s[j] ELSE s[j + 1]
<1>1. PICK a, b : a = SubSeq(s, 1, i - 1) /\ b = SubSeq(s, i + 1, Len(s))
  OBVIOUS
<1>2. PICK n \in Nat : n = Len(s)
  OBVIOUS
<1>3. /\ a \in Seq(S) /\ Len(a) = i - 1 /\ \A j \in 1..(i - 1) : a[j] = s[j]
      /\ b \in Seq(S) /\ Len(b) = n - i /\ \A j \in 1..(n - i) : b[j] = s[j + i]
  <2>1. i \in Nat /\ i + 1 \in Nat /\ i - 1 \in Nat /\ 1 <= i /\ i <= n
    BY <1>2
  <2>2. a \in Seq(S) /\ Len(a) = i - 1 /\ \A j \in 1..(i - 1) : a[j] = s[j]
    BY <1>1, <1>2, <2>1, PartFacts
  <2>3. /\ b \in Seq(S) /\ Len(b) = n - (i + 1) + 1
        /\ \A j \in 1..(n - (i + 1) + 1) : b[j] = s[j + (i + 1) - 1]
    BY <1>1, <1>2, <2>1, PartFacts
  <2>4. QED  BY <1>2, <2>2, <2>3
<1>4. PICK t : t = RemoveAt(s, i)
  OBVIOUS
<1>5. t = a \o b
  BY <1>1, <1>4 DEF RemoveAt
<1>6. t \in Seq(S) /\ Len(t) = n - 1
  BY <1>2, <1>3, <1>5
<1>7. ASSUME NEW j \in 1..(n - 1)
      PROVE  t[j] = IF j < i THEN s[j] ELSE s[j + 1]
  <2>1. CASE j < i
    BY <1>2, <1>3, <1>5, <2>1
  <2>2. CASE ~(j < i)
    <3>1. t[j] = b[j - (i - 1)]
      <4>1. PICK m \in Nat, k \in Nat : m = i - 1 /\ k = n - i
        <5>1. i - 1 \in Nat /\ n - i \in Nat
          BY <1>2
        <5>. QED  BY <5>1
      <4>2. j \in 1..(m + k) /\ ~(j <= m) /\ j - (i - 1) = j - m
        BY <1>2, <2>2, <4>1
      <4>3. a \in Seq(S) /\ b \in Seq(S) /\ m = Len(a) /\ k = Len(b) /\ m \in Nat /\ k \in Nat
        BY <1>3, <4>1
      <4>4. \A x \in 1..(m + k) : (a \o b)[x] = IF x <= m THEN a[x] ELSE b[x - m]
        BY ONLY <4>3, ConcatFacts
      <4>. QED  BY <1>5, <4>2, <4>4
    <3>2. j - (i - 1) \in 1..(n - i) /\ (j - (i - 1)) + i = j + 1
      BY <1>2, <2>2
    <3>3. QED  BY <1>3, <2>2, <3>1, <3>2
  <2>3. QED  BY <2>1, <2>2
<1>8. QED  BY <1>2, <1>4, <1>6, <1>7

(* An element that waits goes into the vector. *)
LEMMA GainStep ==
  ASSUME VectorInv, fresh # <<>>, fresh' = Tail(fresh), released' = released,
         vector' \in [buf : Seq(Elements \cup {Garbage}), sz : Nat], vector'.sz = vector.sz + 1,
         vector'.sz <= Len(vector'.buf),
         NEW i \in 1..(vector.sz + 1),
         \A j \in 1..(vector.sz + 1) :
           vector'.buf[j] = IF j < i THEN list[j] ELSE IF j = i THEN Head(fresh) ELSE list[j - 1],
         list' = IF i > Len(list) THEN Append(list, Head(fresh)) ELSE InsertAt(list, i, Head(fresh))
  PROVE  VectorInv'
<1>. DEFINE e == Head(fresh)
<1>1. /\ list \in Seq(Elements) /\ IsInjective(list) /\ fresh \in Seq(Elements) /\ IsInjective(fresh)
      /\ Range(fresh) \cap Range(list) = {}
      /\ released = [x \in Elements |-> IF x \in Range(fresh) \cup Range(list) THEN 0 ELSE 1]
  BY DEF VectorInv
<1>2. PICK n \in Nat : n = vector.sz /\ n = Len(list) /\ DOMAIN list = 1..n /\ i \in 1..(n + 1)
  BY HeldFacts DEF VectorInv, Held, VecCap
<1>3. /\ e \in Elements /\ e \in Range(fresh) /\ fresh' \in Seq(Elements) /\ IsInjective(fresh')
      /\ Range(fresh) = Range(fresh') \cup {e} /\ e \notin Range(fresh')
  <2>1. PICK m \in Nat : m = Len(fresh)
    BY <1>1
  <2>2. /\ m > 0 /\ e = fresh[1] /\ DOMAIN fresh = 1..m /\ DOMAIN fresh' = 1..(m - 1)
        /\ fresh' \in Seq(Elements) /\ \A k \in 1..(m - 1) : fresh'[k] = fresh[k + 1]
    BY <1>1, <2>1
  <2>3. \A k, l \in 1..m : fresh[k] = fresh[l] => k = l
    BY <1>1, <2>2 DEF IsInjective
  <2>4. IsInjective(fresh')
    BY <2>2, <2>3 DEF IsInjective
  <2>5. \A k \in 1..m : k = 1 \/ (k - 1 \in 1..(m - 1) /\ fresh'[k - 1] = fresh[k])
    BY <2>2
  <2>6. /\ \A x : x \in Range(fresh) <=> \E k \in 1..m : fresh[k] = x
        /\ \A x : x \in Range(fresh') <=> \E k \in 1..(m - 1) : fresh'[k] = x
    <3>1. PICK l \in Nat : l = m - 1 /\ l = Len(fresh')
      BY <2>2
    <3>2. \A x : x \in Range(fresh) <=> \E k \in 1..m : fresh[k] = x
      BY <1>1, <2>1, RangeFacts
    <3>5. PICK g : g = fresh'
      OBVIOUS
    <3>6. \A x : x \in Range(g) <=> \E k \in 1..l : g[k] = x
      <4>1. g \in Seq(Elements) /\ l = Len(g)
        BY <2>2, <3>1, <3>5
      <4>2. QED  BY <4>1, RangeFacts
    <3>3. \A x : x \in Range(fresh') <=> \E k \in 1..l : fresh'[k] = x
      BY <3>5, <3>6
    <3>4. QED  BY <3>1, <3>2, <3>3
  <2>7. e \in Elements /\ e \in Range(fresh) /\ e \notin Range(fresh')
    BY <1>1, <2>2, <2>3, <2>6
  <2>9. ASSUME NEW x PROVE x \in Range(fresh) <=> x \in Range(fresh') \cup {e}
    <3>1. ASSUME x \in Range(fresh') PROVE x \in Range(fresh)
      <4>1. PICK k \in 1..(m - 1) : fresh'[k] = x
        BY <2>6, <3>1
      <4>2. k + 1 \in 1..m /\ fresh[k + 1] = x
        BY <2>1, <2>2, <4>1
      <4>3. QED  BY <2>6, <4>2
    <3>2. ASSUME x \in Range(fresh), x # e PROVE x \in Range(fresh')
      <4>1. PICK k \in 1..m : fresh[k] = x
        BY <2>6, <3>2
      <4>2. k - 1 \in 1..(m - 1) /\ fresh'[k - 1] = x
        BY <2>2, <2>5, <3>2, <4>1
      <4>3. QED  BY <2>6, <4>2
    <3>3. QED  BY <2>7, <3>1, <3>2
  <2>10. Range(fresh) = Range(fresh') \cup {e}
    BY <2>9
  <2>8. QED  BY <2>2, <2>4, <2>7, <2>10
<1>. HIDE DEF e
<1>4. /\ list' \in Seq(Elements) /\ Len(list') = n + 1 /\ DOMAIN list' = 1..(n + 1)
      /\ \A j \in 1..(n + 1) : list'[j] = IF j < i THEN list[j] ELSE IF j = i THEN e ELSE list[j - 1]
  <2>1. CASE i > Len(list)
    <3>1. i = n + 1 /\ list' = Append(list, e)
      BY <1>2, <2>1 DEF e
    <3>2. /\ list' \in Seq(Elements) /\ Len(list') = n + 1
          /\ list'[n + 1] = e /\ \A j \in 1..n : list'[j] = list[j]
      BY <1>1, <1>2, <1>3, <3>1
    <3>3. \A j \in 1..(n + 1) : list'[j] = IF j < i THEN list[j] ELSE IF j = i THEN e ELSE list[j - 1]
      BY <3>1, <3>2
    <3>4. DOMAIN list' = 1..(n + 1)
      BY <3>2
    <3>5. QED  BY <3>2, <3>3, <3>4
  <2>2. CASE ~(i > Len(list))
    <3>1. i \in 1..Len(list) /\ list' = InsertAt(list, i, e)
      BY <1>2, <2>2 DEF e
    <3>2. /\ list' \in Seq(Elements) /\ Len(list') = n + 1
          /\ \A j \in 1..(n + 1) : list'[j] = IF j < i THEN list[j] ELSE IF j = i THEN e ELSE list[j - 1]
      <4>1. PICK t : t = InsertAt(list, i, e)
        OBVIOUS
      <4>2. /\ t \in Seq(Elements) /\ Len(t) = Len(list) + 1
            /\ \A j \in 1..(Len(list) + 1) : t[j] = IF j < i THEN list[j] ELSE IF j = i THEN e ELSE list[j - 1]
        <5>1. PICK h : h = e
          OBVIOUS
        <5>2. list \in Seq(Elements) /\ h \in Elements /\ i \in 1..(Len(list) + 1)
          BY <1>1, <1>2, <1>3, <5>1
        <5>3. LET z == InsertAt(list, i, h) IN
              /\ z \in Seq(Elements) /\ Len(z) = Len(list) + 1
              /\ \A j \in 1..(Len(list) + 1) :
                   z[j] = IF j < i THEN list[j] ELSE IF j = i THEN h ELSE list[j - 1]
          <6>1. Grows(Elements, list, i, h)
            BY ONLY <5>2, InsertAtFacts
          <6>. QED  BY <6>1 DEF Grows
        <5>. QED  BY <4>1, <5>1, <5>3
      <4>3. QED  BY <1>2, <3>1, <4>1, <4>2
    <3>3. DOMAIN list' = 1..(n + 1)
      BY <3>2
    <3>4. QED  BY <3>2, <3>3
  <2>3. QED  BY <2>1, <2>2
<1>5. Range(list') = Range(list) \cup {e}
  <2>1. /\ \A x : x \in Range(list) <=> \E j \in 1..n : list[j] = x
        /\ \A x : x \in Range(list') <=> \E j \in 1..(n + 1) : list'[j] = x
    <3>1. PICK m \in Nat : m = n + 1 /\ m = Len(list')
      BY <1>4
    <3>2. \A x : x \in Range(list) <=> \E j \in 1..n : list[j] = x
      BY <1>1, <1>2, RangeFacts
    <3>5. PICK g : g = list'
      OBVIOUS
    <3>6. \A x : x \in Range(g) <=> \E k \in 1..m : g[k] = x
      <4>1. g \in Seq(Elements) /\ m = Len(g)
        BY <1>4, <3>1, <3>5
      <4>2. DOMAIN g = 1..m
        BY ONLY <4>1
      <4>3. QED  BY ONLY <4>2 DEF Range
    <3>3. \A x : x \in Range(list') <=> \E j \in 1..m : list'[j] = x
      BY <3>5, <3>6
    <3>4. QED  BY <3>1, <3>2, <3>3
  <2>2. ASSUME NEW x \in Range(list') PROVE x \in Range(list) \cup {e}
    <3>1. PICK j \in 1..(n + 1) : list'[j] = x
      BY <2>1
    <3>2. j = i \/ (j < i /\ j \in 1..n) \/ (j > i /\ j - 1 \in 1..n)
      BY <1>2
    <3>3. CASE j = i
      BY <1>4, <3>1, <3>3
    <3>4. CASE j < i /\ j \in 1..n
      BY <1>4, <2>1, <3>1, <3>4
    <3>5. CASE j > i /\ j - 1 \in 1..n
      <4>1. list'[j] = list[j - 1]
        BY <1>2, <1>4, <3>5
      <4>2. QED  BY <2>1, <3>1, <3>5, <4>1
    <3>6. QED  BY <3>2, <3>3, <3>4, <3>5
  <2>3. ASSUME NEW x \in Range(list) PROVE x \in Range(list')
    <3>1. PICK j \in 1..n : list[j] = x
      BY <2>1
    <3>2. CASE j < i
      <4>1. j \in 1..(n + 1)
        BY <1>2
      <4>2. list'[j] = list[j]
        BY <1>4, <3>2, <4>1
      <4>3. QED  BY <2>1, <3>1, <4>1, <4>2
    <3>3. CASE ~(j < i)
      <4>1. PICK k \in 1..(n + 1) : k = j + 1 /\ ~(k < i) /\ k # i /\ k - 1 = j
        BY <1>2, <3>3
      <4>3. list'[k] = list[j]
        BY <1>4, <4>1
      <4>2. QED  BY <2>1, <3>1, <4>1, <4>3
    <3>4. QED  BY <3>2, <3>3
  <2>4. e \in Range(list')
    BY <1>2, <1>4, <2>1
  <2>5. QED  BY <2>2, <2>3, <2>4
<1>6. IsInjective(list')
  <2>1. \A j \in 1..n : list[j] # e
    <3>1. \A x : x \in Range(list) <=> \E j \in 1..n : list[j] = x
      BY <1>1, <1>2, RangeFacts
    <3>2. QED  BY <1>1, <1>3, <3>1
  <2>2. \A j, k \in 1..n : list[j] = list[k] => j = k
    BY <1>1, <1>2 DEF IsInjective
  <2>3. ASSUME NEW j \in 1..(n + 1), NEW k \in 1..(n + 1), list'[j] = list'[k] PROVE j = k
    <3>1. j = i <=> k = i
      BY <1>2, <1>4, <2>1, <2>3
    <3>2. CASE j # i /\ k # i
      <4>1. PICK x \in 1..n : (x = IF j < i THEN j ELSE j - 1) /\ list'[j] = list[x]
        BY <1>2, <1>4, <3>2
      <4>2. PICK y \in 1..n : (y = IF k < i THEN k ELSE k - 1) /\ list'[k] = list[y]
        BY <1>2, <1>4, <3>2
      <4>3. x = y
        BY <2>2, <2>3, <4>1, <4>2
      <4>4. QED  BY <1>2, <3>2, <4>1, <4>2, <4>3
    <3>3. QED  BY <3>1, <3>2
  <2>4. QED  BY <1>4, <2>3 DEF IsInjective
<1>7. Held(vector') = list'
  <2>1. \A j \in 1..(n + 1) : vector'.buf[j] = list'[j]
    BY <1>2, <1>4 DEF e
  <2>2. list' \in Seq(Elements \cup {Garbage})
    BY <1>4
  <2>3. vector'.buf \in Seq(Elements \cup {Garbage}) /\ vector'.sz = n + 1 /\ n + 1 \in 0..Len(vector'.buf)
    BY <1>2
  <2>4. SubSeq(vector'.buf, 1, n + 1) = list'
    BY <1>4, <2>1, <2>2, <2>3, HeldFacts
  <2>5. QED  BY <2>3, <2>4 DEF Held
<1>8. released' = [x \in Elements |-> IF x \in Range(fresh') \cup Range(list') THEN 0 ELSE 1]
  BY <1>1, <1>3, <1>5
<1>9. Range(fresh') \cap Range(list') = {}
  BY <1>1, <1>3, <1>5
<1>10. QED  BY <1>3, <1>4, <1>6, <1>7, <1>8, <1>9 DEF VectorInv, VecCap

(* What holds of a state in the words the steps use. *)
LEMMA StateFacts ==
  ASSUME VectorInv
  PROVE  \E n \in Nat :
         /\ n = vector.sz /\ n = Len(list) /\ DOMAIN list = 1..n /\ n <= Len(vector.buf)
         /\ vector.buf \in Seq(Elements \cup {Garbage})
         /\ vector = [buf |-> vector.buf, sz |-> n]
         /\ list \in Seq(Elements) /\ \A i \in 1..n : vector.buf[i] = list[i]
         /\ \A i, j \in 1..n : list[i] = list[j] => i = j
         /\ \A x : x \in Range(list) <=> \E i \in 1..n : list[i] = x
<1>1. PICK n \in Nat : n = vector.sz
  BY DEF VectorInv
<1>2. /\ vector.buf \in Seq(Elements \cup {Garbage}) /\ n \in 0..Len(vector.buf)
      /\ list \in Seq(Elements) /\ IsInjective(list) /\ SubSeq(vector.buf, 1, n) = list
  BY <1>1 DEF VectorInv, Held, VecCap
<1>3. list \in Seq(Elements \cup {Garbage})
  BY <1>2
<1>4. Len(list) = n /\ \A i \in 1..n : vector.buf[i] = list[i]
  BY <1>2, <1>3, HeldFacts
<1>5. DOMAIN list = 1..n /\ \A x : x \in Range(list) <=> \E i \in 1..n : list[i] = x
  BY <1>2, <1>4, RangeFacts
<1>6. \A i, j \in 1..n : list[i] = list[j] => i = j
  BY <1>2, <1>5 DEF IsInjective
<1>7. vector = [buf |-> vector.buf, sz |-> n]
  BY <1>1 DEF VectorInv
<1>8. QED  BY <1>1, <1>2, <1>4, <1>5, <1>6, <1>7

(* The w elements in the slots from..to leave the vector, and k stay. *)
Loses(from, to, w, k) ==
  /\ 1 <= from /\ from <= to /\ to <= vector.sz /\ w = to - from + 1 /\ k + w = vector.sz
  /\ Release(from, to) /\ fresh' = fresh
  /\ vector' \in [buf : Seq(Elements \cup {Garbage}), sz : Nat]
  /\ vector'.sz = k /\ k <= Len(vector'.buf)
  /\ \A j \in 1..k : vector'.buf[j] = IF j < from THEN list[j] ELSE list[j + w]
  /\ list' \in Seq(Elements) /\ Len(list') = k
  /\ \A j \in 1..k : list'[j] = IF j < from THEN list[j] ELSE list[j + w]

LEMMA LoseStep ==
  ASSUME VectorInv, NEW from \in Nat, NEW to \in Nat, NEW w \in Nat, NEW k \in Nat,
         Loses(from, to, w, k)
  PROVE  VectorInv'
<1>. SUFFICES
       ASSUME 1 <= from, from <= to, to <= vector.sz, w = to - from + 1, k + w = vector.sz,
              Release(from, to), fresh' = fresh,
              vector' \in [buf : Seq(Elements \cup {Garbage}), sz : Nat],
              vector'.sz = k, k <= Len(vector'.buf),
              \A j \in 1..k : vector'.buf[j] = IF j < from THEN list[j] ELSE list[j + w],
              list' \in Seq(Elements), Len(list') = k,
              \A j \in 1..k : list'[j] = IF j < from THEN list[j] ELSE list[j + w]
       PROVE  VectorInv'
  BY DEF Loses
<1>1. /\ list \in Seq(Elements) /\ fresh \in Seq(Elements) /\ IsInjective(fresh)
      /\ Range(fresh) \cap Range(list) = {}
      /\ released = [x \in Elements |-> IF x \in Range(fresh) \cup Range(list) THEN 0 ELSE 1]
  BY DEF VectorInv
<1>2. PICK n \in Nat :
        /\ n = vector.sz /\ n = Len(list) /\ \A i \in 1..n : vector.buf[i] = list[i]
        /\ \A i, j \in 1..n : list[i] = list[j] => i = j
        /\ \A x : x \in Range(list) <=> \E i \in 1..n : list[i] = x
  BY StateFacts
<1>3. w = to - from + 1 /\ k + w = n /\ to = from + w - 1
  BY <1>2
<1>3a. 1 <= from /\ from <= to /\ to <= n
  BY <1>2
<1>4. \A j \in 1..k : list'[j] = IF j < from THEN list[j] ELSE list[j + w]
  OBVIOUS
<1>5. PICK l : l = list'
  OBVIOUS
<1>6. DOMAIN l = 1..k /\ \A x : x \in Range(l) <=> \E j \in 1..k : l[j] = x
  <2>1. l \in Seq(Elements) /\ k = Len(l)
    BY <1>5
  <2>2. DOMAIN l = 1..k
    BY <2>1
  <2>3. QED  BY <2>1, <2>2, RangeFacts, SMTT(20)
<1>6a. ASSUME NEW j \in 1..k PROVE (IF j < from THEN j ELSE j + w) \in 1..n
  <2>1. j \in 1..n /\ j + w \in 1..n
    BY <1>3
  <2>2. QED  BY <2>1
<1>6b. \A j \in 1..k : l[j] = list[IF j < from THEN j ELSE j + w]
  BY <1>4, <1>5
<1>7. IsInjective(list')
  <2>1. ASSUME NEW i \in 1..k, NEW j \in 1..k, l[i] = l[j] PROVE i = j
    <3>1. PICK x \in 1..n : (x = IF i < from THEN i ELSE i + w) /\ l[i] = list[x]
      BY <1>6a, <1>6b
    <3>2. PICK y \in 1..n : (y = IF j < from THEN j ELSE j + w) /\ l[j] = list[y]
      BY <1>6a, <1>6b
    <3>3. x = y
      <4>1. list[x] = list[y]
        BY <2>1, <3>1, <3>2
      <4>2. QED  BY <1>2, <4>1
    <3>4. (IF i < from THEN i ELSE i + w) = (IF j < from THEN j ELSE j + w)
      BY ONLY <3>1, <3>2, <3>3
    <3>5. QED  BY ONLY k \in Nat, i \in 1..k, j \in 1..k, from \in Nat, w \in Nat, <3>4
  <2>2. IsInjective(l)
    BY <1>6, <2>1 DEF IsInjective
  <2>3. QED  BY <1>5, <2>2
<1>8. ASSUME NEW x PROVE x \in Range(l) <=> x \in Range(list) /\ ~ \E i \in from..to : vector.buf[i] = x
  <2>1. ASSUME x \in Range(l)
        PROVE  x \in Range(list) /\ ~ \E i \in from..to : vector.buf[i] = x
    <3>1. PICK j \in 1..k : l[j] = x
      BY <1>6, <2>1
    <3>2. PICK y \in 1..n : (y = IF j < from THEN j ELSE j + w) /\ l[j] = list[y]
      BY <1>6a, <1>6b
    <3>3. y \notin from..to
      <4>1. CASE j < from
        BY ONLY from \in Nat, to \in Nat, <3>2, <4>1
      <4>2. CASE ~(j < from)
        <5>1. y = j + w /\ to = from + w - 1 /\ from <= j
          BY <1>3, <3>2, <4>2
        <5>2. y > to
          BY <5>1
        <5>3. QED  BY <5>2
      <4>3. QED  BY <4>1, <4>2
    <3>4. \A i \in from..to : i \in 1..n /\ i # y
      BY ONLY n \in Nat, from \in Nat, to \in Nat, <1>3a, <3>3
    <3>5. \A i \in from..to : vector.buf[i] # x
      BY <1>2, <3>1, <3>2, <3>4
    <3>6. QED  BY <1>2, <3>1, <3>2, <3>5
  <2>2. ASSUME x \in Range(list), ~ \E i \in from..to : vector.buf[i] = x
        PROVE  x \in Range(l)
    <3>1. PICK y \in 1..n : list[y] = x
      BY <1>2, <2>2
    <3>2. y \notin from..to
      BY <1>2, <2>2, <3>1
    <3>3. PICK j \in 1..k : y = IF j < from THEN j ELSE j + w
      <4>1. CASE y < from
        <5>1. y \in 1..k
          BY ONLY n \in Nat, y \in 1..n, from \in Nat, to \in Nat, k \in Nat, w \in Nat,
                  <1>3, <1>3a, <4>1
        <5>2. QED  BY <4>1, <5>1
      <4>2. CASE ~(y < from)
        <5>1. y - w \in 1..k /\ ~(y - w < from) /\ y = (y - w) + w
          <6>1. y > to
            BY ONLY n \in Nat, y \in 1..n, from \in Nat, to \in Nat, <3>2, <4>2
          <6>2. y <= k + w /\ to = from + w - 1
            BY ONLY n \in Nat, y \in 1..n, <1>3
          <6>3. QED
            BY ONLY n \in Nat, y \in 1..n, from \in Nat, to \in Nat, k \in Nat, w \in Nat,
                    <1>3a, <4>2, <6>1, <6>2
        <5>2. QED  BY <5>1
      <4>3. QED  BY <4>1, <4>2
    <3>4. l[j] = list[y]
      BY <1>4, <1>5, <3>3
    <3>5. QED  BY <1>6, <3>1, <3>4
  <2>3. QED  BY <2>1, <2>2
<1>9. /\ \A x : x \in Range(list') <=> x \in Range(list) /\ ~ \E i \in from..to : vector.buf[i] = x
      /\ \A x : (\E i \in from..to : vector.buf[i] = x) => x \in Range(list)
  <2>1. \A i \in from..to : i \in 1..n
    BY <1>2
  <2>2. \A x : (\E i \in from..to : vector.buf[i] = x) => x \in Range(list)
    BY ONLY <1>2, <2>1
  <2>3. QED  BY ONLY <1>5, <1>8, <2>2
<1>10. released' = [x \in Elements |-> IF x \in Range(fresh') \cup Range(list') THEN 0 ELSE 1]
  <2>1. released' = [x \in Elements |->
           released[x] + IF \E i \in from..to : vector.buf[i] = x THEN 1 ELSE 0]
    BY DEF Release
  <2>2. ASSUME NEW x \in Elements
        PROVE  released[x] + (IF \E i \in from..to : vector.buf[i] = x THEN 1 ELSE 0)
               = IF x \in Range(fresh') \cup Range(list') THEN 0 ELSE 1
    <3>1. released[x] = IF x \in Range(fresh) \cup Range(list) THEN 0 ELSE 1
      BY <1>1
    <3>2. x \in Range(list) => x \notin Range(fresh)
      BY <1>1
    <3>3. CASE \E i \in from..to : vector.buf[i] = x
      BY <1>9, <3>1, <3>2, <3>3
    <3>4. CASE ~ \E i \in from..to : vector.buf[i] = x
      BY <1>9, <3>1, <3>2, <3>4
    <3>5. QED  BY <3>3, <3>4
  <2>3. QED  BY <2>1, <2>2
<1>11. Held(vector') = list'
  <2>1. \A j \in 1..k : vector'.buf[j] = list'[j]
    OBVIOUS
  <2>2. list' \in Seq(Elements \cup {Garbage})
    OBVIOUS
  <2>3. vector'.buf \in Seq(Elements \cup {Garbage}) /\ k \in 0..Len(vector'.buf)
    OBVIOUS
  <2>4. SubSeq(vector'.buf, 1, k) = list'
    BY <2>1, <2>2, <2>3, HeldFacts
  <2>5. QED  BY <2>4 DEF Held
<1>12. Range(fresh') \cap Range(list') = {}
  BY <1>1, <1>9
<1>13. QED  BY <1>1, <1>7, <1>10, <1>11, <1>12 DEF VectorInv, VecCap

Slot == Elements \cup {Garbage}
Vectors == [buf : Seq(Slot), sz : Nat]

(* realloc keeps what was there; the capacity of a full vector grows. *)
LEMMA GrownFacts ==
  ASSUME NEW v \in Vectors, NEW cap \in Nat
  PROVE  /\ Grown(v, cap) \in Seq(Slot) /\ Len(Grown(v, cap)) = cap
         /\ \A i \in 1..cap : i <= Len(v.buf) => Grown(v, cap)[i] = v.buf[i]
<1>1. PICK b \in Seq(Slot), l \in Nat : b = v.buf /\ l = Len(b)
  BY DEF Vectors
<1>2. PICK g : g = [i \in 1..cap |-> IF i <= l THEN b[i] ELSE Garbage]
  OBVIOUS
<1>3. ASSUME NEW i \in 1..cap PROVE (IF i <= l THEN b[i] ELSE Garbage) \in Slot
  BY <1>1 DEF Slot
<1>4. g \in Seq(Slot) /\ Len(g) = cap /\ \A i \in 1..cap : i <= l => g[i] = b[i]
  BY <1>2, <1>3
<1>5. Grown(v, cap) = g
  BY <1>1, <1>2 DEF Grown, VecCap
<1>6. QED  BY <1>1, <1>4, <1>5

LEMMA NewcapFacts ==
  ASSUME NEW v \in Vectors
  PROVE  Newcap(v) \in Nat /\ Len(v.buf) < Newcap(v)
<1>1. PICK l \in Nat : l = Len(v.buf)
  BY DEF Vectors
<1>2. MinCap \in Nat /\ 0 < MinCap
  BY MinCapIsPositive
<1>3. QED  BY <1>1, <1>2 DEF Newcap, VecCap

LEMMA PushedFacts ==
  ASSUME NEW v \in Vectors, NEW n \in Nat, n = v.sz, n <= Len(v.buf), NEW e \in Slot
  PROVE  LET w == PushedBack(v, e) IN
         /\ w \in Vectors /\ w.sz = n + 1 /\ n + 1 <= Len(w.buf)
         /\ w.buf[n + 1] = e /\ \A j \in 1..n : w.buf[j] = v.buf[j]
<1>1. PICK b : b = IF v.sz = VecCap(v) THEN Grown(v, Newcap(v)) ELSE v.buf
  OBVIOUS
<1>2. b \in Seq(Slot) /\ n < Len(b) /\ \A j \in 1..n : b[j] = v.buf[j]
  <2>1. CASE v.sz = VecCap(v)
    <3>1. PICK c \in Nat : c = Newcap(v) /\ Len(v.buf) = n /\ n < c
      BY <2>1, NewcapFacts DEF VecCap
    <3>2. /\ Grown(v, c) \in Seq(Slot) /\ Len(Grown(v, c)) = c
          /\ \A j \in 1..c : j <= Len(v.buf) => Grown(v, c)[j] = v.buf[j]
      BY GrownFacts
    <3>3. b = Grown(v, c)
      BY <1>1, <2>1, <3>1
    <3>4. QED  BY <3>1, <3>2, <3>3
  <2>2. CASE v.sz # VecCap(v)
    BY <1>1, <2>2 DEF Vectors, VecCap
  <2>3. QED  BY <2>1, <2>2
<1>3. PICK d : d = [b EXCEPT ![n + 1] = e]
  OBVIOUS
<1>4. PICK l \in Nat : l = Len(b) /\ DOMAIN b = 1..l /\ n < l
  BY <1>2
<1>5. d \in Seq(Slot) /\ Len(d) = l /\ d[n + 1] = e /\ \A j \in 1..n : d[j] = v.buf[j]
  BY <1>2, <1>3, <1>4
<1>6. PushedBack(v, e) = [buf |-> d, sz |-> n + 1]
  BY <1>1, <1>3 DEF PushedBack
<1>7. QED  BY <1>4, <1>5, <1>6 DEF Vectors

LEMMA InsertedFacts ==
  ASSUME NEW v \in Vectors, NEW n \in Nat, n = v.sz, n <= Len(v.buf), NEW e \in Slot,
         NEW at \in Nat, at < n
  PROVE  LET w == Inserted(v, at, e) IN
         /\ w \in Vectors /\ w.sz = n + 1 /\ n + 1 <= Len(w.buf)
         /\ \A j \in 1..(n + 1) :
              w.buf[j] = IF j < at + 1 THEN v.buf[j] ELSE IF j = at + 1 THEN e ELSE v.buf[j - 1]
<1>1. PICK b \in Seq(Slot), l \in Nat : b = v.buf /\ l = Len(b) /\ DOMAIN b = 1..l /\ n <= l
  BY DEF Vectors
<1>2. PICK c \in Nat : c = Newcap(v) /\ l < c
  BY <1>1, NewcapFacts
<1>3. PICK d : d = IF n = l THEN InsertedInCopy(v, at, e) ELSE InsertedInPlace(v, at, e)
  OBVIOUS
<1>4. Inserted(v, at, e) = [buf |-> d, sz |-> n + 1]
  BY <1>1, <1>3 DEF Inserted, VecCap
<1>5. /\ d \in Seq(Slot) /\ n + 1 <= Len(d)
      /\ \A j \in 1..(n + 1) :
           d[j] = IF j < at + 1 THEN b[j] ELSE IF j = at + 1 THEN e ELSE b[j - 1]
  <2>1. CASE n = l
    <3>1. d = [i \in 1..c |-> IF i <= at THEN b[i] ELSE IF i = at + 1 THEN e
                              ELSE IF i <= n + 1 THEN b[i - 1] ELSE Garbage]
      BY <1>1, <1>2, <1>3, <2>1 DEF InsertedInCopy
    <3>2. ASSUME NEW i \in 1..c
          PROVE  (IF i <= at THEN b[i] ELSE IF i = at + 1 THEN e
                  ELSE IF i <= n + 1 THEN b[i - 1] ELSE Garbage) \in Slot
      <4>1. i <= at => b[i] \in Slot
        BY <1>1
      <4>2. (~(i <= at) /\ i # at + 1 /\ i <= n + 1) => b[i - 1] \in Slot
        BY <1>1
      <4>3. Garbage \in Slot
        BY DEF Slot
      <4>4. QED  BY <4>1, <4>2, <4>3
    <3>3. d \in Seq(Slot) /\ Len(d) = c
      BY <3>1, <3>2
    <3>4. QED  BY <1>2, <2>1, <3>1, <3>3
  <2>2. CASE n # l
    <3>1. d = [i \in 1..l |-> IF i = at + 1 THEN e
                              ELSE IF at + 1 < i /\ i <= n + 1 THEN b[i - 1] ELSE b[i]]
      BY <1>1, <1>3, <2>2 DEF InsertedInPlace
    <3>2. ASSUME NEW i \in 1..l
          PROVE  (IF i = at + 1 THEN e
                  ELSE IF at + 1 < i /\ i <= n + 1 THEN b[i - 1] ELSE b[i]) \in Slot
      <4>1. b[i] \in Slot
        BY <1>1
      <4>2. at + 1 < i => b[i - 1] \in Slot
        BY <1>1
      <4>3. QED  BY <4>1, <4>2
    <3>3. d \in Seq(Slot) /\ Len(d) = l
      BY <3>1, <3>2
    <3>4. QED  BY <1>1, <2>2, <3>1, <3>3
  <2>3. QED  BY <2>1, <2>2
<1>6. PICK w : w = Inserted(v, at, e)
  OBVIOUS
<1>7. w = [buf |-> d, sz |-> n + 1] /\ w.buf = d /\ w.sz = n + 1
  BY <1>4, <1>6
<1>8. w \in Vectors /\ n + 1 <= Len(w.buf)
  BY <1>5, <1>7 DEF Vectors
<1>9. \A j \in 1..(n + 1) :
        w.buf[j] = IF j < at + 1 THEN v.buf[j] ELSE IF j = at + 1 THEN e ELSE v.buf[j - 1]
  BY <1>1, <1>5, <1>7
<1>10. QED  BY <1>6, <1>7, <1>8, <1>9

LEMMA HeadIsSlot ==
  ASSUME VectorInv, fresh # <<>>
  PROVE  Head(fresh) \in Slot
BY DEF VectorInv, Slot

(* An element put behind the others. *)
LEMMA AppendStep ==
  ASSUME VectorInv, fresh # <<>>, fresh' = Tail(fresh), released' = released,
         vector' \in Vectors, vector'.sz = vector.sz + 1, vector'.sz <= Len(vector'.buf),
         vector'.buf[vector.sz + 1] = Head(fresh),
         \A j \in 1..vector.sz : vector'.buf[j] = vector.buf[j],
         list' = Append(list, Head(fresh))
  PROVE  VectorInv'
<1>1. PICK n \in Nat : n = vector.sz /\ n = Len(list) /\ \A j \in 1..n : vector.buf[j] = list[j]
  BY StateFacts
<1>2. PICK i \in 1..(n + 1) : i = n + 1 /\ i > Len(list)
  BY <1>1
<1>3. \A j \in 1..(n + 1) :
        vector'.buf[j] = IF j < i THEN list[j] ELSE IF j = i THEN Head(fresh) ELSE list[j - 1]
  <2>1. \A j \in 1..n : vector'.buf[j] = list[j]
    BY <1>1
  <2>2. QED  BY <1>1, <1>2, <2>1
<1>4. vector' \in [buf : Seq(Elements \cup {Garbage}), sz : Nat]
  BY DEF Vectors, Slot
<1>5. list' = IF i > Len(list) THEN Append(list, Head(fresh)) ELSE InsertAt(list, i, Head(fresh))
  BY <1>2
<1>6. QED  BY <1>1, <1>3, <1>4, <1>5, GainStep

LEMMA PushbackStep ==
  ASSUME VectorInv, vec_pushback
  PROVE  VectorInv'
<1>1. PICK n \in Nat : n = vector.sz /\ n <= Len(vector.buf) /\ vector \in Vectors
  BY DEF VectorInv, Vectors, Slot, VecCap
<1>2. PICK w : w = PushedBack(vector, Head(fresh))
  OBVIOUS
<1>3. /\ fresh # <<>> /\ fresh' = Tail(fresh) /\ released' = released /\ vector' = w
      /\ list' = Append(list, Head(fresh))
  BY <1>2 DEF vec_pushback
<1>4. /\ w \in Vectors /\ w.sz = n + 1 /\ n + 1 <= Len(w.buf) /\ w.buf[n + 1] = Head(fresh)
      /\ \A j \in 1..n : w.buf[j] = vector.buf[j]
  BY <1>1, <1>2, <1>3, HeadIsSlot, PushedFacts
<1>5. QED  BY <1>1, <1>3, <1>4, AppendStep

LEMMA InsertStep ==
  ASSUME VectorInv, NEW at \in 0..(vector.sz + 1), vec_insert(at)
  PROVE  VectorInv'
<1>1. PICK n \in Nat : /\ n = vector.sz /\ n <= Len(vector.buf) /\ n = Len(list)
                       /\ \A j \in 1..n : vector.buf[j] = list[j]
  BY StateFacts
<1>2. vector \in Vectors
  BY DEF VectorInv, Vectors, Slot
<1>3. /\ fresh # <<>> /\ fresh' = Tail(fresh) /\ released' = released
      /\ vector' = Inserted(vector, at, Head(fresh))
      /\ list' = IF at >= n THEN Append(list, Head(fresh)) ELSE InsertAt(list, at + 1, Head(fresh))
  BY <1>1 DEF vec_insert
<1>4. CASE at >= n
  <2>1. PICK w : w = PushedBack(vector, Head(fresh))
    OBVIOUS
  <2>2. vector' = w /\ list' = Append(list, Head(fresh))
    BY <1>1, <1>3, <1>4, <2>1 DEF Inserted
  <2>3. /\ w \in Vectors /\ w.sz = n + 1 /\ n + 1 <= Len(w.buf) /\ w.buf[n + 1] = Head(fresh)
        /\ \A j \in 1..n : w.buf[j] = vector.buf[j]
    BY <1>1, <1>2, <1>3, <2>1, HeadIsSlot, PushedFacts, ZenonT(40)
  <2>4. QED  BY <1>1, <1>3, <2>2, <2>3, AppendStep
<1>5. CASE ~(at >= n)
  <2>1. PICK w : w = Inserted(vector, at, Head(fresh))
    OBVIOUS
  <2>2. at \in Nat /\ at < n
    BY <1>1, <1>5
  <2>3. /\ w \in Vectors /\ w.sz = n + 1 /\ n + 1 <= Len(w.buf)
        /\ \A j \in 1..(n + 1) :
             w.buf[j] = IF j < at + 1 THEN vector.buf[j] ELSE IF j = at + 1 THEN Head(fresh)
                        ELSE vector.buf[j - 1]
    <3>1. PICK v \in Vectors, e \in Slot : v = vector /\ e = Head(fresh)
      BY <1>2, <1>3, HeadIsSlot
    <3>2. n = v.sz /\ n <= Len(v.buf) /\ w = Inserted(v, at, e)
      BY <1>1, <2>1, <3>1
    <3>3. /\ w \in Vectors /\ w.sz = n + 1 /\ n + 1 <= Len(w.buf)
          /\ \A j \in 1..(n + 1) :
               w.buf[j] = IF j < at + 1 THEN v.buf[j] ELSE IF j = at + 1 THEN e ELSE v.buf[j - 1]
      BY <2>2, <3>2, InsertedFacts
    <3>4. QED  BY <3>1, <3>3
  <2>4. PICK i \in 1..(n + 1) : i = at + 1 /\ ~(i > n)
    BY <2>2
  <2>5. \A j \in 1..(n + 1) :
          w.buf[j] = IF j < i THEN list[j] ELSE IF j = i THEN Head(fresh) ELSE list[j - 1]
    BY <1>1, <2>3, <2>4, SMTT(20)
  <2>6. w \in [buf : Seq(Elements \cup {Garbage}), sz : Nat]
    BY <2>3 DEF Vectors, Slot
  <2>7. list' = IF i > Len(list) THEN Append(list, Head(fresh)) ELSE InsertAt(list, i, Head(fresh))
    BY <1>1, <1>3, <1>5, <2>4
  <2>8. QED  BY <1>1, <1>3, <2>1, <2>3, <2>5, <2>6, <2>7, GainStep
<1>6. QED  BY <1>4, <1>5

LEMMA LengthenStep ==
  ASSUME VectorInv, vec_lengthen
  PROVE  VectorInv'
<1>1. PICK n \in Nat : n = vector.sz /\ n <= Len(vector.buf) /\ vector \in Vectors
  BY DEF VectorInv, Vectors, Slot, VecCap
<1>2. PICK b : b = IF n + 1 <= VecCap(vector) THEN vector.buf ELSE Grown(vector, n + 1)
  OBVIOUS
<1>3. PICK w : w = [buf |-> [b EXCEPT ![n + 1] = Head(fresh)], sz |-> n + 1]
  OBVIOUS
<1>4. /\ fresh # <<>> /\ fresh' = Tail(fresh) /\ released' = released /\ vector' = w
      /\ list' = Append(list, Head(fresh))
  BY <1>1, <1>2, <1>3 DEF vec_lengthen
<1>5. b \in Seq(Slot) /\ n + 1 <= Len(b) /\ \A j \in 1..n : b[j] = vector.buf[j]
  <2>1. CASE n + 1 <= VecCap(vector)
    BY <1>1, <1>2, <2>1 DEF Vectors, VecCap
  <2>2. CASE ~(n + 1 <= VecCap(vector))
    <3>1. PICK m \in Nat : m = n + 1
      OBVIOUS
    <3>2. /\ Grown(vector, m) \in Seq(Slot) /\ Len(Grown(vector, m)) = m
          /\ \A j \in 1..m : j <= Len(vector.buf) => Grown(vector, m)[j] = vector.buf[j]
      BY <1>1, GrownFacts
    <3>3. b = Grown(vector, m)
      BY <1>2, <2>2, <3>1
    <3>4. \A j \in 1..n : j \in 1..m /\ j <= Len(vector.buf)
      BY <1>1, <3>1 DEF Vectors
    <3>5. b \in Seq(Slot) /\ n + 1 <= Len(b)
      BY <3>1, <3>2, <3>3
    <3>6. \A j \in 1..n : b[j] = vector.buf[j]
      BY <3>2, <3>3, <3>4
    <3>7. QED  BY <3>5, <3>6
  <2>3. QED  BY <2>1, <2>2
<1>6. PICK d : d = [b EXCEPT ![n + 1] = Head(fresh)]
  OBVIOUS
<1>7. PICK l \in Nat : l = Len(b) /\ DOMAIN b = 1..l /\ n + 1 <= l
  BY <1>5
<1>8. d \in Seq(Slot) /\ Len(d) = l /\ d[n + 1] = Head(fresh) /\ \A j \in 1..n : d[j] = vector.buf[j]
  BY <1>4, <1>5, <1>6, <1>7, HeadIsSlot
<1>9. /\ w \in Vectors /\ w.sz = n + 1 /\ n + 1 <= Len(w.buf) /\ w.buf[n + 1] = Head(fresh)
      /\ \A j \in 1..n : w.buf[j] = vector.buf[j]
  <2>1. w.buf = d /\ w.sz = n + 1
    BY <1>3, <1>6
  <2>2. w \in Vectors
    BY <1>3, <1>6, <1>8 DEF Vectors
  <2>3. QED  BY <1>7, <1>8, <2>1, <2>2
<1>10. QED  BY <1>1, <1>4, <1>9, AppendStep

LEMMA PopbackStep ==
  ASSUME VectorInv, vec_popback
  PROVE  VectorInv'
<1>1. PICK n \in Nat : /\ n = vector.sz /\ n = Len(list) /\ n <= Len(vector.buf)
                       /\ vector = [buf |-> vector.buf, sz |-> n]
                       /\ vector.buf \in Seq(Slot) /\ list \in Seq(Elements)
                       /\ \A i \in 1..n : vector.buf[i] = list[i]
  BY StateFacts DEF Slot
<1>2. n > 0 /\ Release(n, n) /\ fresh' = fresh /\ vector' = [buf |-> vector.buf, sz |-> n - 1]
  BY <1>1 DEF vec_popback
<1>3. PICK k \in Nat, w \in Nat : w = n - n + 1 /\ k = n - 1 /\ k + w = n /\ k <= Len(vector.buf)
  <2>1. n - 1 \in Nat /\ 1 \in Nat /\ 1 = n - n + 1 /\ (n - 1) + 1 = n /\ n - 1 <= n
    BY <1>2
  <2>2. n - 1 <= Len(vector.buf)
    BY <1>1, <2>1
  <2>3. QED  BY <2>1, <2>2
<1>4. /\ vector' \in [buf : Seq(Elements \cup {Garbage}), sz : Nat]
      /\ vector'.sz = k /\ k <= Len(vector'.buf)
  BY <1>1, <1>2, <1>3 DEF Slot
<1>5. \A j \in 1..k : vector'.buf[j] = IF j < n THEN list[j] ELSE list[j + w]
  BY <1>1, <1>2, <1>3
<1>6. PICK l : l = SubSeq(list, 1, k)
  OBVIOUS
<1>7. l \in Seq(Elements) /\ Len(l) = k /\ \A j \in 1..k : l[j] = list[j]
  <2>1. k \in Nat /\ 1 \in Nat /\ 1 <= k + 1 /\ k <= Len(list)
    BY <1>1, <1>3
  <2>2. /\ l \in Seq(Elements) /\ Len(l) = k - 1 + 1
        /\ \A j \in 1..(k - 1 + 1) : l[j] = list[j + 1 - 1]
    BY <1>1, <1>6, <2>1, PartFacts
  <2>3. QED  BY <2>2
<1>8. list' = l
  BY <1>1, <1>3, <1>6 DEF vec_popback, Front
<1>9. list' \in Seq(Elements) /\ Len(list') = k
      /\ \A j \in 1..k : list'[j] = IF j < n THEN list[j] ELSE list[j + w]
  <2>1. \A j \in 1..k : l[j] = IF j < n THEN list[j] ELSE list[j + w]
    BY ONLY n \in Nat, k \in Nat, <1>3, <1>7
  <2>2. QED  BY ONLY <1>7, <1>8, <2>1
<1>10. QED
  <2>1. Loses(n, n, w, k)
    BY <1>1, <1>2, <1>3, <1>4, <1>5, <1>9 DEF Loses
  <2>2. QED  BY <2>1, LoseStep

LEMMA RemoveStep ==
  ASSUME VectorInv, NEW at \in 0..vector.sz, vec_remove(at)
  PROVE  VectorInv'
<1>1. PICK n \in Nat : /\ n = vector.sz /\ n = Len(list) /\ n <= Len(vector.buf)
                       /\ vector.buf \in Seq(Slot) /\ list \in Seq(Elements)
                       /\ \A i \in 1..n : vector.buf[i] = list[i]
  BY StateFacts DEF Slot
<1>2. PICK m \in Nat : m = at + 1 /\ at < n /\ at \in Nat /\ 1 <= m /\ m <= n
  BY <1>1 DEF vec_remove
<1>3. /\ Release(m, m) /\ fresh' = fresh /\ list' = RemoveAt(list, m)
      /\ vector' = Removed(vector, at)
  BY <1>2 DEF vec_remove
<1>4. PICK k \in Nat, w \in Nat : /\ w = m - m + 1 /\ w = 1 /\ k = n - 1 /\ k + w = n
                                 /\ k <= Len(vector.buf)
  <2>1. n - 1 \in Nat /\ 1 \in Nat /\ 1 = m - m + 1 /\ (n - 1) + 1 = n /\ n - 1 <= n
    BY <1>2
  <2>2. n - 1 <= Len(vector.buf)
    BY <1>1, <2>1
  <2>3. QED  BY <2>1, <2>2
<1>5. PICK b \in Seq(Slot), l \in Nat : b = vector.buf /\ l = Len(b) /\ DOMAIN b = 1..l /\ n <= l
  BY <1>1
<1>6. PICK d : d = [i \in 1..l |-> IF at < i /\ i < n THEN b[i + 1] ELSE b[i]]
  OBVIOUS
<1>7. d \in Seq(Slot) /\ Len(d) = l
  <2>1. ASSUME NEW i \in 1..l PROVE (IF at < i /\ i < n THEN b[i + 1] ELSE b[i]) \in Slot
    <3>1. i < n => b[i + 1] \in Slot
      BY <1>5
    <3>2. b[i] \in Slot
      BY <1>5
    <3>3. QED  BY <3>1, <3>2
  <2>2. QED  BY <1>6, <2>1
<1>8. vector' = [buf |-> d, sz |-> k]
  BY <1>1, <1>3, <1>4, <1>5, <1>6 DEF Removed
<1>9. /\ vector' \in [buf : Seq(Elements \cup {Garbage}), sz : Nat]
      /\ vector'.sz = k /\ k <= Len(vector'.buf)
  <2>1. vector'.sz = k /\ vector'.buf = d
    BY <1>8
  <2>2. QED  BY <1>4, <1>5, <1>7, <1>8, <2>1 DEF Slot
<1>10. \A j \in 1..k : vector'.buf[j] = IF j < m THEN list[j] ELSE list[j + w]
  <2>1. ASSUME NEW j \in 1..k PROVE d[j] = IF j < m THEN list[j] ELSE list[j + 1]
    <3>1. j \in 1..n /\ j + 1 \in 1..n /\ j \in 1..l /\ j < n
      BY <1>4, <1>5
    <3>2. CASE j < m
      BY <1>1, <1>2, <1>5, <1>6, <3>1, <3>2
    <3>3. CASE ~(j < m)
      BY <1>1, <1>2, <1>5, <1>6, <3>1, <3>3
    <3>4. QED  BY <3>2, <3>3
  <2>2. vector'.buf = d
    BY <1>8
  <2>3. QED  BY <1>4, <2>1, <2>2
<1>11. /\ list' \in Seq(Elements) /\ Len(list') = k
       /\ \A j \in 1..k : list'[j] = IF j < m THEN list[j] ELSE list[j + w]
  <2>1. PICK t : t = RemoveAt(list, m)
    OBVIOUS
  <2>2. /\ t \in Seq(Elements) /\ Len(t) = Len(list) - 1
        /\ \A j \in 1..(Len(list) - 1) : t[j] = IF j < m THEN list[j] ELSE list[j + 1]
    <3>1. m \in 1..Len(list)
      BY <1>1, <1>2
    <3>2. QED  BY <1>1, <2>1, <3>1, RemoveAtFacts
  <2>3. t \in Seq(Elements) /\ Len(t) = k /\ list' = t
    BY <1>1, <1>3, <1>4, <2>1, <2>2
  <2>4. \A j \in 1..k : t[j] = IF j < m THEN list[j] ELSE list[j + w]
    BY <1>1, <1>4, <2>2
  <2>5. QED  BY <2>3, <2>4
<1>12. QED
  <2>0. 1 <= m /\ m <= m /\ m <= vector.sz /\ w = m - m + 1 /\ k + w = vector.sz
    BY <1>1, <1>2, <1>4
  <2>1. Loses(m, m, w, k)
    BY <2>0, <1>1, <1>2, <1>3, <1>4, <1>9, <1>10, <1>11 DEF Loses
  <2>2. QED  BY <2>1, LoseStep

LEMMA ShortenStep ==
  ASSUME VectorInv, NEW newsz \in 0..vector.sz, vec_shorten(newsz)
  PROVE  VectorInv'
<1>1. PICK n \in Nat : /\ n = vector.sz /\ n = Len(list) /\ n <= Len(vector.buf)
                       /\ vector = [buf |-> vector.buf, sz |-> n]
                       /\ vector.buf \in Seq(Slot) /\ list \in Seq(Elements)
                       /\ \A i \in 1..n : vector.buf[i] = list[i]
  BY StateFacts DEF Slot
<1>2. PICK k \in Nat : k = newsz /\ k < n /\ k <= Len(list) /\ k <= Len(vector.buf)
  BY <1>1 DEF vec_shorten
<1>3. PICK m \in Nat, w \in Nat : m = k + 1 /\ 1 <= m /\ m <= n /\ w = n - m + 1 /\ k + w = n
  <2>1. k + 1 \in Nat /\ n - (k + 1) + 1 \in Nat /\ k + 1 <= n
    BY <1>2
  <2>2. QED  BY <1>2, <2>1
<1>4. /\ Release(m, n) /\ fresh' = fresh /\ list' = SubSeq(list, 1, k)
      /\ vector' = [buf |-> vector.buf, sz |-> k]
  BY <1>1, <1>2, <1>3 DEF vec_shorten
<1>5. /\ vector' \in [buf : Seq(Elements \cup {Garbage}), sz : Nat]
      /\ vector'.sz = k /\ k <= Len(vector'.buf)
  BY <1>1, <1>2, <1>4 DEF Slot
<1>6. \A j \in 1..k : vector'.buf[j] = IF j < m THEN list[j] ELSE list[j + w]
  <2>1. \A j \in 1..k : j < m /\ vector.buf[j] = list[j]
    <3>1. \A j \in 1..k : j < m /\ j \in 1..n
      BY <1>2, <1>3
    <3>2. QED  BY <1>1, <3>1
  <2>2. vector'.buf = vector.buf
    BY <1>4
  <2>3. QED  BY <2>1, <2>2
<1>7. PICK l : l = SubSeq(list, 1, k)
  OBVIOUS
<1>8. l \in Seq(Elements) /\ Len(l) = k /\ \A j \in 1..k : l[j] = list[j]
  <2>1. k \in Nat /\ 1 \in Nat /\ 1 <= k + 1 /\ k <= Len(list)
    BY <1>2
  <2>2. /\ l \in Seq(Elements) /\ Len(l) = k - 1 + 1
        /\ \A j \in 1..(k - 1 + 1) : l[j] = list[j + 1 - 1]
    BY <1>1, <1>7, <2>1, PartFacts
  <2>3. QED  BY <2>2
<1>9. list' \in Seq(Elements) /\ Len(list') = k
      /\ \A j \in 1..k : list'[j] = IF j < m THEN list[j] ELSE list[j + w]
  <2>1. \A j \in 1..k : l[j] = IF j < m THEN list[j] ELSE list[j + w]
    BY ONLY k \in Nat, m \in Nat, <1>3, <1>8
  <2>2. QED  BY ONLY <1>4, <1>7, <1>8, <2>1
<1>10. QED
  <2>0. 1 <= m /\ m <= n /\ n <= vector.sz /\ w = n - m + 1 /\ k + w = vector.sz
    BY <1>1, <1>3
  <2>1. Loses(m, n, w, k)
    BY <2>0, <1>1, <1>2, <1>3, <1>4, <1>5, <1>6, <1>9 DEF Loses
  <2>2. QED  BY <2>1, LoseStep

LEMMA ShrinkStep ==
  ASSUME VectorInv, vec_shrink
  PROVE  VectorInv'
<1>1. PICK n \in Nat : /\ n = vector.sz /\ n = Len(list) /\ list \in Seq(Elements)
                       /\ vector = [buf |-> vector.buf, sz |-> n]
  BY StateFacts
<1>2. Held(vector) = list
  BY DEF VectorInv
<1>3. vector' = [buf |-> list, sz |-> n] /\ UNCHANGED <<list, fresh, released>>
  BY <1>1, <1>2 DEF vec_shrink
<1>4. PICK l : l = list
  OBVIOUS
<1>5. vector' = [buf |-> l, sz |-> n] /\ l \in Seq(Elements \cup {Garbage}) /\ Len(l) = n
  BY <1>1, <1>3, <1>4
<1>6. SubSeq(l, 1, n) = l
  BY <1>5, HeldFacts
<1>7. Held(vector') = list'
  BY <1>3, <1>4, <1>5, <1>6 DEF Held
<1>8. QED  BY <1>1, <1>3, <1>5, <1>7 DEF VectorInv, VecCap

LEMMA SortStep ==
  ASSUME VectorInv, vec_sort
  PROVE  VectorInv'
<1>1. PICK n \in Nat :
        /\ n = vector.sz /\ n = Len(list) /\ n <= Len(vector.buf)
        /\ vector = [buf |-> vector.buf, sz |-> n]
        /\ vector.buf \in Seq(Slot)
        /\ list \in Seq(Elements) /\ \A i \in 1..n : vector.buf[i] = list[i]
        /\ \A i, j \in 1..n : list[i] = list[j] => i = j
        /\ \A x : x \in Range(list) <=> \E i \in 1..n : list[i] = x
  BY StateFacts DEF Slot
<1>2. PICK p \in [1..n -> 1..n] :
        /\ \A i, j \in 1..n : i < j => p[i] # p[j]
        /\ vector' = [vector EXCEPT !.buf =
              [i \in DOMAIN vector.buf |-> IF i \in 1..n THEN vector.buf[p[i]] ELSE vector.buf[i]]]
  BY <1>1 DEF vec_sort, SortedVectors
<1>3. \A j \in 1..n : \E i \in 1..n : p[i] = j
  <2>1. \A i, j \in 1..n : p[i] = p[j] => i = j
    BY <1>2
  <2>2. p \in Injection(1..n, 1..n)
    BY <2>1 DEF Injection, IsInjective
  <2>3. IsFiniteSet(1..n)
    BY FS_Interval
  <2>4. p \in Surjection(1..n, 1..n)
    BY <2>2, <2>3, FS_Injection
  <2>5. QED  BY <2>4 DEF Surjection
<1>4. PICK b \in Seq(Slot), l \in Nat : b = vector.buf /\ l = Len(b) /\ DOMAIN b = 1..l /\ n <= l
  BY <1>1
<1>5. PICK d : d = [i \in 1..l |-> IF i \in 1..n THEN b[p[i]] ELSE b[i]]
  OBVIOUS
<1>6. d \in Seq(Slot) /\ Len(d) = l /\ \A i \in 1..n : d[i] = list[p[i]]
  <2>1. ASSUME NEW i \in 1..l PROVE (IF i \in 1..n THEN b[p[i]] ELSE b[i]) \in Slot
    <3>1. i \in 1..n => p[i] \in 1..l
      BY <1>4
    <3>2. \A j \in 1..l : b[j] \in Slot
      BY <1>4
    <3>3. QED  BY <3>1, <3>2
  <2>2. \A i \in 1..n : i \in 1..l /\ p[i] \in 1..n
    BY <1>4
  <2>3. QED  BY <1>1, <1>4, <1>5, <2>1, <2>2
<1>7. vector' = [buf |-> d, sz |-> n]
  BY <1>1, <1>2, <1>4, <1>5
<1>8. PICK s : s = [i \in 1..n |-> list[p[i]]]
  OBVIOUS
<1>9. s \in Seq(Elements) /\ Len(s) = n /\ DOMAIN s = 1..n /\ \A i \in 1..n : s[i] = list[p[i]]
  <2>1. \A i \in 1..n : list[p[i]] \in Elements
    BY <1>1
  <2>2. QED  BY <1>8, <2>1
<1>10. Held(vector') = s
  <2>1. s \in Seq(Slot)
    BY <1>9 DEF Slot
  <2>2. n \in 0..Len(d)
    BY <1>4, <1>6
  <2>3. SubSeq(d, 1, n) = s
    <3>1. d \in Seq(Slot) /\ \A i \in 1..n : d[i] = s[i]
      BY <1>6, <1>9
    <3>2. Len(s) = n
      BY <1>9
    <3>. QED  BY ONLY <2>1, <2>2, <3>1, <3>2, HeldFacts
  <2>4. QED  BY <1>7, <2>3 DEF Held
<1>11. list' = s /\ fresh' = fresh /\ released' = released
  BY <1>10 DEF vec_sort
<1>12. IsInjective(s)
  <2>1. ASSUME NEW i \in 1..n, NEW j \in 1..n, s[i] = s[j] PROVE i = j
    <3>1. list[p[i]] = list[p[j]]
      BY <1>9, <2>1
    <3>2. p[i] = p[j]
      BY <1>1, <3>1
    <3>3. QED  BY <1>2, <3>2
  <2>2. QED  BY <1>9, <2>1 DEF IsInjective
<1>13. Range(s) = Range(list)
  <2>1. \A x : x \in Range(s) <=> \E i \in 1..n : s[i] = x
    BY <1>9, RangeFacts
  <2>2. ASSUME NEW x \in Range(s) PROVE x \in Range(list)
    BY <1>1, <1>9, <2>1
  <2>3. ASSUME NEW x \in Range(list) PROVE x \in Range(s)
    <3>1. PICK j \in 1..n : list[j] = x
      BY <1>1
    <3>2. PICK i \in 1..n : p[i] = j
      BY <1>3
    <3>3. s[i] = x
      BY <1>9, <3>1, <3>2
    <3>4. QED  BY <2>1, <3>3
  <2>4. QED  BY <2>2, <2>3
<1>14. /\ vector' \in [buf : Seq(Elements \cup {Garbage}), sz : Nat]
       /\ vector'.sz <= VecCap(vector')
  BY <1>4, <1>6, <1>7 DEF Slot, VecCap
<1>15. Range(list') = Range(list) /\ IsInjective(list') /\ list' \in Seq(Elements)
  BY <1>9, <1>11, <1>12, <1>13
<1>16. QED  BY <1>10, <1>11, <1>14, <1>15 DEF VectorInv

LEMMA VectorInitInv ==
  ASSUME VectorInit
  PROVE  VectorInv
<1>1. /\ vector = [buf |-> <<>>, sz |-> 0] /\ list = <<>>
      /\ fresh = Given /\ released = [e \in Elements |-> 0]
  BY DEF VectorInit
<1>2. <<>> \in Seq(Elements) /\ <<>> \in Seq(Elements \cup {Garbage}) /\ Len(<<>>) = 0
  OBVIOUS
<1>3. SubSeq(<<>>, 1, 0) = <<>>
  OBVIOUS
<1>4. Held(vector) = <<>> /\ VecCap(vector) = 0
  BY <1>1, <1>3 DEF Held, VecCap
<1>5. IsInjective(<<>>) /\ Range(<<>>) = {}
  BY DEF IsInjective, Range
<1>6. Range(Given) = Elements
  BY DEF Elements
<1>7. released = [e \in Elements |-> IF e \in Range(fresh) \cup Range(list) THEN 0 ELSE 1]
  BY <1>1, <1>6
<1>8. QED  BY <1>1, <1>2, <1>4, <1>5, <1>7, GivenOnce DEF VectorInv

(* For every sequence of elements and every sequence of calls: each element  *)
(* waits, is held once or was released once, and the slots in use are the    *)
(* elements the calls left, in order.                                        *)
THEOREM VectorInvariant == VectorSpec => []VectorInv
<1>1. VectorInit => VectorInv
  BY VectorInitInv
<1>2. VectorInv /\ [VectorNext]_vectorVars => VectorInv'
  <2>1. SUFFICES ASSUME VectorInv, [VectorNext]_vectorVars PROVE VectorInv'
    OBVIOUS
  <2>2. CASE UNCHANGED vectorVars
    BY <2>1, <2>2 DEF vectorVars, VectorInv, VecCap, Held
  <2>3. CASE VectorNext
    BY <2>1, <2>3, PushbackStep, InsertStep, PopbackStep, RemoveStep, ShortenStep, LengthenStep,
       ShrinkStep, SortStep DEF VectorNext
  <2>4. QED  BY <2>1, <2>2, <2>3
<1>3. QED  BY <1>1, <1>2, PTL DEF VectorSpec

(* The vector owns its elements (vec_insert, vec_remove, vec_resize).        *)
THEOREM VectorsOwnTheirElements == VectorSpec => []VectorOwnsItsElements
<1>1. VectorInv => VectorOwnsItsElements
  <2>1. SUFFICES ASSUME VectorInv PROVE VectorOwnsItsElements
    OBVIOUS
  <2>2. /\ vector.sz <= VecCap(vector) /\ Held(vector) = list /\ IsInjective(list)
        /\ released = [e \in Elements |-> IF e \in Range(fresh) \cup Range(list) THEN 0 ELSE 1]
    BY <2>1 DEF VectorInv
  <2>3. ASSUME NEW e \in Elements \ Range(fresh)
        PROVE  released[e] + (IF e \in Range(Held(vector)) THEN 1 ELSE 0) = 1
    <3>1. released[e] = IF e \in Range(list) THEN 0 ELSE 1
      BY <2>2
    <3>2. QED  BY <2>2, <3>1
  <2>4. QED  BY <2>2, <2>3 DEF VectorOwnsItsElements
<1>2. QED  BY <1>1, VectorInvariant, PTL

----------------------------------------------------------------------------
(* The singly linked list *)

ItemSet == [at : Nodes, data : Data]

(* A new node, linked in before the p-th item or at the end. *)
Linked(p, m, d) ==
  [x \in Nodes |->
    IF x = m THEN [data |-> d, next |-> IF p <= Len(items) THEN items[p].at ELSE Null]
    ELSE IF p > 1 /\ x = items[p - 1].at THEN [data |-> node[x].data, next |-> m]
    ELSE node[x]]

(* The node of the p-th item, taken out and freed. *)
Unlinked(p) ==
  [x \in Nodes |->
    IF x = items[p].at THEN Null
    ELSE IF p > 1 /\ x = items[p - 1].at
         THEN [data |-> node[x].data, next |-> node[items[p].at].next]
    ELSE node[x]]

(* What the invariant says of the items, one by one. *)
LEMMA ListFacts ==
  ASSUME SListInv, NEW n \in Nat, n = Len(items)
  PROVE  /\ items \in Seq(ItemSet)
         /\ \A i \in 1..n : items[i].at \in Nodes /\ items[i].data \in Data
                            /\ node[items[i].at] = [data |-> items[i].data,
                                 next |-> IF i = n THEN Null ELSE items[i + 1].at]
         /\ \A i, j \in 1..n : items[i].at = items[j].at => i = j
         /\ \A x \in Nodes : node[x] # Null <=> \E i \in 1..n : x = items[i].at
         /\ ends.head = IF n = 0 THEN Null ELSE items[1].at
         /\ ends.tail = IF n = 0 THEN Null ELSE items[n].at
         /\ ends.len = n
         /\ ends = [head |-> ends.head, tail |-> ends.tail, len |-> ends.len]
         /\ \A i \in 1..n : items[i].at # Null
<1>1. items \in Seq(ItemSet)
  BY DEF SListInv, ItemSet
<1>2. Allocated = {items[i].at : i \in 1..n}
  BY DEF SListInv, ListIsItsItems
<1>3. \A x \in Nodes : node[x] # Null <=> \E i \in 1..n : x = items[i].at
  BY <1>2 DEF Allocated
<1>4. \A i \in 1..n : items[i] \in ItemSet
  BY <1>1
<1>5. \A i \in 1..n : items[i].at \in Nodes /\ items[i].data \in Data
  BY <1>4 DEF ItemSet
<1>6. \A i \in 1..n : items[i].at # Null
  BY <1>5, NullIsNothing
<1>. QED  BY <1>1, <1>3, <1>5, <1>6 DEF SListInv, ListIsItsItems

(* A node linked in leaves a list of the items with the new one. *)
LEMMA LinkStep ==
  ASSUME SListInv, NEW p \in 1..(Len(items) + 1), NEW m \in Free, NEW d \in Data,
         node' = Linked(p, m, d), items' = InsertAt(items, p, Item(m, d)),
         ends' = [head |-> IF p = 1 THEN m ELSE ends.head,
                  tail |-> IF p = Len(items) + 1 THEN m ELSE ends.tail, len |-> ends.len + 1]
  PROVE  SListInv'
<1>1. PICK n \in Nat : n = Len(items)
  BY DEF SListInv
<1>2. /\ items \in Seq(ItemSet) /\ m \in Nodes /\ node[m] = Null
      /\ \A i \in 1..n : items[i].at \in Nodes /\ items[i].data \in Data /\ items[i].at # m
                         /\ node[items[i].at] = [data |-> items[i].data,
                              next |-> IF i = n THEN Null ELSE items[i + 1].at]
      /\ \A i, j \in 1..n : items[i].at = items[j].at => i = j
      /\ \A x \in Nodes : node[x] # Null <=> \E i \in 1..n : x = items[i].at
      /\ ends.len = n
  BY <1>1, ListFacts DEF Free, Allocated
<1>3. PICK t : t = items'
  OBVIOUS
<1>4. /\ t \in Seq(ItemSet) /\ Len(t) = n + 1
      /\ \A j \in 1..(n + 1) :
           t[j] = IF j < p THEN items[j] ELSE IF j = p THEN Item(m, d) ELSE items[j - 1]
  <2>1. PICK e : e = Item(m, d)
    OBVIOUS
  <2>2. e \in ItemSet
    BY <1>2, <2>1 DEF Item, ItemSet
  <2>3. LET u == InsertAt(items, p, e) IN
        /\ u \in Seq(ItemSet) /\ Len(u) = Len(items) + 1
        /\ \A j \in 1..(Len(items) + 1) :
             u[j] = IF j < p THEN items[j] ELSE IF j = p THEN e ELSE items[j - 1]
    <3>1. items \in Seq(ItemSet) /\ p \in 1..(Len(items) + 1)
      BY <1>2
    <3>2. Grows(ItemSet, items, p, e)
      BY ONLY <2>2, <3>1, InsertAtFacts
    <3>. QED  BY <3>2 DEF Grows
  <2>. QED  BY <1>1, <1>3, <2>1, <2>3
<1>. PICK q \in Int : q = p /\ 1 <= q /\ q <= n + 1
  BY <1>1
<1>12. \A j \in 1..(n + 1) : t[j].at \in Nodes /\ t[j].data \in Data
  <2>1. \A j \in 1..(n + 1) : t[j] \in ItemSet
    BY <1>4
  <2>. QED  BY <2>1 DEF ItemSet
<1>5. \A j \in 1..(n + 1) :
        /\ j < q => j \in 1..n /\ t[j] = items[j]
        /\ j = q => t[j].at = m /\ t[j].data = d
        /\ j > q => j - 1 \in 1..n /\ t[j] = items[j - 1]
  BY <1>4 DEF Item
<1>6. \A i, j \in 1..(n + 1) : t[i].at = t[j].at => i = j
  <2>. SUFFICES ASSUME NEW i \in 1..(n + 1), NEW j \in 1..(n + 1), t[i].at = t[j].at
                PROVE  i = j
    OBVIOUS
  <2>. DEFINE From(k) == IF k < q THEN k ELSE k - 1
  <2>0. \A k \in 1..(n + 1) : k # q => From(k) \in 1..n /\ t[k] = items[From(k)]
    BY <1>5
  <2>1. \A k \in 1..(n + 1) : k # q => From(k) \in 1..n /\ t[k] = items[From(k)] /\ t[k].at # m
    <3>. HIDE DEF From
    <3>. QED  BY <1>2, <2>0
  <2>2. t[q].at = m
    BY <1>5
  <2>3. i = q <=> j = q
    BY <2>1, <2>2
  <2>4. ASSUME i # q PROVE From(i) = From(j)
    <3>1. From(i) \in 1..n /\ From(j) \in 1..n /\ items[From(i)].at = items[From(j)].at
      BY <2>1, <2>3, <2>4
    <3>. HIDE DEF From
    <3>. QED  BY <1>2, <3>1
  <2>5. i # q => i = j
    BY <2>3, <2>4
  <2>. QED  BY <2>3, <2>5
<1>7. \A i \in 1..(n + 1) :
        node'[t[i].at] = [data |-> t[i].data, next |-> IF i = n + 1 THEN Null ELSE t[i + 1].at]
  <2>. SUFFICES ASSUME NEW i \in 1..(n + 1)
                PROVE  node'[t[i].at] = [data |-> t[i].data,
                                         next |-> IF i = n + 1 THEN Null ELSE t[i + 1].at]
    OBVIOUS
  <2>1. CASE i = q
    <3>1. t[i].at = m /\ t[i].data = d /\ m \in Nodes
      BY <1>2, <1>5, <2>1
    <3>2. q <= n => t[i + 1] = items[q]
      BY <1>5, <2>1
    <3>3. node'[m] = [data |-> d, next |-> IF q <= n THEN items[q].at ELSE Null]
      BY <1>1, <1>2 DEF Linked
    <3>. QED  BY <2>1, <3>1, <3>2, <3>3
  <2>2. CASE i < q /\ i + 1 = q
    <3>1. i \in 1..n /\ t[i] = items[i] /\ t[i + 1].at = m /\ q - 1 = i /\ q > 1
      BY <1>5, <2>2
    <3>2. items[i].at \in Nodes /\ items[i].at # m
      BY <1>2, <3>1
    <3>3. node'[items[i].at] = [data |-> node[items[i].at].data, next |-> m]
      BY <3>1, <3>2 DEF Linked
    <3>4. node[items[i].at] = [data |-> items[i].data, next |-> IF i = n THEN Null ELSE items[i + 1].at]
      BY <1>2, <3>1
    <3>5. node[items[i].at].data = items[i].data
      BY <3>4
    <3>. QED  BY <2>2, <3>1, <3>3, <3>5
  <2>3. CASE i < q /\ i + 1 # q
    <3>1. i \in 1..n /\ i + 1 \in 1..n /\ t[i] = items[i] /\ t[i + 1] = items[i + 1] /\ i # q - 1
      BY <1>5, <2>3
    <3>2. items[i].at \in Nodes /\ items[i].at # m
      BY <1>2, <3>1
    <3>3. q > 1 => q - 1 \in 1..n
      OBVIOUS
    <3>4. ~(q > 1 /\ items[i].at = items[q - 1].at)
      BY <1>2, <3>1, <3>3
    <3>5. node'[items[i].at] = node[items[i].at]
      BY <3>2, <3>4 DEF Linked
    <3>. QED  BY <1>2, <3>1, <3>5
  <2>4. CASE i > q
    <3>1. i - 1 \in 1..n /\ t[i] = items[i - 1] /\ i - 1 # q - 1
          /\ (i # n + 1 => t[i + 1] = items[(i - 1) + 1] /\ i - 1 # n)
      BY <1>5, <2>4
    <3>2. items[i - 1].at \in Nodes /\ items[i - 1].at # m
      BY <1>2, <3>1
    <3>3. q > 1 => q - 1 \in 1..n
      OBVIOUS
    <3>4. ~(q > 1 /\ items[i - 1].at = items[q - 1].at)
      BY <1>2, <3>1, <3>3
    <3>5. node'[items[i - 1].at] = node[items[i - 1].at]
      BY <3>2, <3>4 DEF Linked
    <3>6. i = n + 1 => i - 1 = n
      OBVIOUS
    <3>. QED  BY <1>2, <3>1, <3>5, <3>6
  <2>. QED  BY <2>1, <2>2, <2>3, <2>4
<1>8. \A x \in Nodes : node'[x] # Null <=> \E i \in 1..(n + 1) : x = t[i].at
  <2>. SUFFICES ASSUME NEW x \in Nodes
                PROVE  node'[x] # Null <=> \E i \in 1..(n + 1) : x = t[i].at
    OBVIOUS
  <2>1. ASSUME NEW i \in 1..(n + 1), x = t[i].at PROVE node'[x] # Null
    <3>1. t[i] \in ItemSet
      BY <1>4
    <3>2. node'[x] = [data |-> t[i].data, next |-> IF i = n + 1 THEN Null ELSE t[i + 1].at]
      BY <1>7, <2>1
    <3>4. node'[x] \in Cells
      BY <1>12, <3>2 DEF Cells
    <3>. QED  BY <3>4, NullIsNothing
  <2>2. ASSUME ~ \E i \in 1..(n + 1) : x = t[i].at PROVE node'[x] = Null
    <3>1. x # m
      BY <1>5, <2>2
    <3>2. ASSUME NEW j \in 1..n PROVE x # items[j].at
      <4>1. j < q => j \in 1..(n + 1) /\ t[j] = items[j]
        BY <1>5
      <4>2. ~(j < q) => j + 1 \in 1..(n + 1) /\ t[j + 1] = items[(j + 1) - 1] /\ (j + 1) - 1 = j
        BY <1>5
      <4>. QED  BY <2>2, <4>1, <4>2
    <3>3. node[x] = Null
      BY <1>2, <3>2
    <3>4. ~(q > 1 /\ x = items[q - 1].at)
      BY <3>2
    <3>. QED  BY <3>1, <3>3, <3>4 DEF Linked
  <2>. QED  BY <2>1, <2>2
<1>9. ends' = [head |-> t[1].at, tail |-> t[n + 1].at, len |-> n + 1]
  <2>1. ends.head = (IF n = 0 THEN Null ELSE items[1].at) /\ ends.tail = (IF n = 0 THEN Null ELSE items[n].at)
    BY <1>1 DEF SListInv, ListIsItsItems
  <2>2. (IF q = 1 THEN m ELSE ends.head) = t[1].at
    BY <1>5, <2>1
  <2>3. (IF q = n + 1 THEN m ELSE ends.tail) = t[n + 1].at
    BY <1>5, <2>1
  <2>. QED  BY <1>1, <1>2, <2>2, <2>3
<1>10. node' \in [Nodes -> Cells \cup {Null}]
  <2>. SUFFICES ASSUME NEW x \in Nodes
                PROVE  node'[x] \in Cells \cup {Null}
    BY DEF Linked
  <2>1. CASE node'[x] # Null
    <3>1. PICK i \in 1..(n + 1) : x = t[i].at
      BY <1>8, <2>1
    <3>2. node'[x] = [data |-> t[i].data, next |-> IF i = n + 1 THEN Null ELSE t[i + 1].at]
      BY <1>7, <3>1
    <3>. QED  BY <1>12, <3>2 DEF Cells
  <2>. QED  BY <2>1
<1>11. Allocated' = {t[i].at : i \in 1..(n + 1)}
  <2>. QED  BY <1>8, <1>12 DEF Allocated
<1>. QED  BY <1>3, <1>4, <1>6, <1>7, <1>9, <1>10, <1>11 DEF SListInv, ListIsItsItems, ItemSet

(* A node taken out leaves a list of the other items. *)
LEMMA UnlinkStep ==
  ASSUME SListInv, NEW p \in 1..Len(items),
         node' = Unlinked(p), items' = RemoveAt(items, p),
         ends' = [head |-> IF p = 1 THEN node[items[p].at].next ELSE ends.head,
                  tail |-> IF p = Len(items) THEN (IF p = 1 THEN Null ELSE items[p - 1].at)
                           ELSE ends.tail,
                  len |-> ends.len - 1]
  PROVE  SListInv'
<1>1. PICK n \in Nat : n = Len(items) /\ n >= 1
  BY DEF SListInv
<1>2. /\ items \in Seq(ItemSet)
      /\ \A i \in 1..n : items[i].at \in Nodes /\ items[i].data \in Data
                         /\ node[items[i].at] = [data |-> items[i].data,
                              next |-> IF i = n THEN Null ELSE items[i + 1].at]
      /\ \A i, j \in 1..n : items[i].at = items[j].at => i = j
      /\ \A x \in Nodes : node[x] # Null <=> \E i \in 1..n : x = items[i].at
      /\ ends.len = n
  BY <1>1, ListFacts
<1>3. PICK t : t = items'
  OBVIOUS
<1>4. /\ t \in Seq(ItemSet) /\ Len(t) = n - 1
      /\ \A j \in 1..(n - 1) : t[j] = IF j < p THEN items[j] ELSE items[j + 1]
  <2>1. items \in Seq(ItemSet) /\ p \in 1..Len(items)
    BY <1>2
  <2>2. LET u == RemoveAt(items, p) IN
        /\ u \in Seq(ItemSet) /\ Len(u) = Len(items) - 1
        /\ \A j \in 1..(Len(items) - 1) : u[j] = IF j < p THEN items[j] ELSE items[j + 1]
    BY ONLY <2>1, RemoveAtFacts
  <2>. QED  BY <1>1, <1>3, <2>2
<1>. PICK q \in Int : q = p /\ 1 <= q /\ q <= n
  BY <1>1
<1>5. \A j \in 1..(n - 1) :
        /\ j < q => j \in 1..n /\ t[j] = items[j]
        /\ j >= q => j + 1 \in 1..n /\ t[j] = items[j + 1]
  BY <1>4
<1>6. \A j \in 1..(n - 1) : t[j].at \in Nodes /\ t[j].data \in Data
  <2>1. \A j \in 1..(n - 1) : t[j] \in ItemSet
    BY <1>4
  <2>. QED  BY <2>1 DEF ItemSet
<1>7. \A i, j \in 1..(n - 1) : t[i].at = t[j].at => i = j
  <2>. SUFFICES ASSUME NEW i \in 1..(n - 1), NEW j \in 1..(n - 1), t[i].at = t[j].at
                PROVE  i = j
    OBVIOUS
  <2>. DEFINE From(k) == IF k < q THEN k ELSE k + 1
  <2>1. \A k \in 1..(n - 1) : From(k) \in 1..n /\ t[k] = items[From(k)]
    BY <1>5
  <2>2. From(i) = From(j)
    <3>1. From(i) \in 1..n /\ From(j) \in 1..n /\ items[From(i)].at = items[From(j)].at
      BY <2>1
    <3>. HIDE DEF From
    <3>. QED  BY <1>2, <3>1
  <2>. QED  BY <2>2
<1>8. \A i \in 1..(n - 1) :
        node'[t[i].at] = [data |-> t[i].data, next |-> IF i = n - 1 THEN Null ELSE t[i + 1].at]
  <2>. SUFFICES ASSUME NEW i \in 1..(n - 1)
                PROVE  node'[t[i].at] = [data |-> t[i].data,
                                         next |-> IF i = n - 1 THEN Null ELSE t[i + 1].at]
    OBVIOUS
  <2>0. q \in 1..n /\ items[p] = items[q] /\ (q > 1 => q - 1 \in 1..n)
    OBVIOUS
  <2>1. CASE i + 1 = q
    <3>1. i \in 1..n /\ t[i] = items[i] /\ q - 1 = i /\ q > 1 /\ i # q
      BY <1>5, <2>1
    <3>2. items[i].at \in Nodes /\ items[i].at # items[q].at
      BY <1>2, <2>0, <3>1
    <3>3. node'[items[i].at] = [data |-> node[items[i].at].data, next |-> node[items[q].at].next]
      BY <3>1, <3>2 DEF Unlinked
    <3>4. node[items[i].at] = [data |-> items[i].data, next |-> IF i = n THEN Null ELSE items[i + 1].at]
      BY <1>2, <3>1
    <3>5. node[items[q].at] = [data |-> items[q].data, next |-> IF q = n THEN Null ELSE items[q + 1].at]
      BY <1>2, <2>0
    <3>6. i # n - 1 => t[i + 1] = items[q + 1]
      BY <1>5, <2>1
    <3>7. i = n - 1 <=> q = n
      BY <2>1
    <3>8. node'[items[i].at] = [data |-> items[i].data, next |-> IF q = n THEN Null ELSE items[q + 1].at]
      BY <3>3, <3>4, <3>5
    <3>. QED  BY <3>1, <3>6, <3>7, <3>8
  <2>2. CASE i + 1 < q
    <3>1. i \in 1..n /\ t[i] = items[i] /\ t[i + 1] = items[i + 1] /\ i # q - 1 /\ i # q /\ i # n /\ i # n - 1
      BY <1>5, <2>2
    <3>2. items[i].at \in Nodes /\ items[i].at # items[q].at
      BY <1>2, <2>0, <3>1
    <3>3. ~(q > 1 /\ items[i].at = items[q - 1].at)
      BY <1>2, <2>0, <3>1
    <3>4. node'[items[i].at] = node[items[i].at]
      BY <3>2, <3>3 DEF Unlinked
    <3>. QED  BY <1>2, <3>1, <3>4
  <2>3. CASE i >= q
    <3>1. /\ i + 1 \in 1..n /\ t[i] = items[i + 1] /\ i + 1 # q - 1 /\ i + 1 # q
          /\ i # n - 1 => t[i + 1] = items[(i + 1) + 1]
      <4>1. i + 1 \in 1..n /\ t[i] = items[i + 1]
        BY <1>5, <2>3
      <4>2. i # n - 1 => i + 1 \in 1..(n - 1) /\ i + 1 >= q
        BY <2>3
      <4>3. i # n - 1 => t[i + 1] = items[(i + 1) + 1]
        BY <1>5, <4>2
      <4>4. i + 1 # q - 1 /\ i + 1 # q
        BY <2>3
      <4>. QED  BY <4>1, <4>3, <4>4
    <3>2. items[i + 1].at \in Nodes /\ items[i + 1].at # items[q].at
      BY <1>2, <2>0, <3>1
    <3>3. ~(q > 1 /\ items[i + 1].at = items[q - 1].at)
      BY <1>2, <2>0, <3>1
    <3>4. node'[items[i + 1].at] = node[items[i + 1].at]
      BY <3>2, <3>3 DEF Unlinked
    <3>5. node[items[i + 1].at] = [data |-> items[i + 1].data,
                                   next |-> IF i + 1 = n THEN Null ELSE items[(i + 1) + 1].at]
      BY <1>2, <3>1
    <3>6. i + 1 = n <=> i = n - 1
      OBVIOUS
    <3>. QED  BY <3>1, <3>4, <3>5, <3>6
  <2>. QED  BY <2>1, <2>2, <2>3
<1>9. \A x \in Nodes : node'[x] # Null <=> \E i \in 1..(n - 1) : x = t[i].at
  <2>. SUFFICES ASSUME NEW x \in Nodes
                PROVE  node'[x] # Null <=> \E i \in 1..(n - 1) : x = t[i].at
    OBVIOUS
  <2>1. ASSUME NEW i \in 1..(n - 1), x = t[i].at PROVE node'[x] # Null
    <3>1. node'[x] = [data |-> t[i].data, next |-> IF i = n - 1 THEN Null ELSE t[i + 1].at]
      BY <1>8, <2>1
    <3>2. i # n - 1 => t[i + 1].at \in Nodes
      BY <1>6
    <3>3. node'[x] \in Cells
      BY <1>6, <3>1, <3>2 DEF Cells
    <3>. QED  BY <3>3, NullIsNothing
  <2>2. ASSUME ~ \E i \in 1..(n - 1) : x = t[i].at PROVE node'[x] = Null
    <3>1. ASSUME NEW j \in 1..n, j # q PROVE x # items[j].at
      <4>1. j < q => j \in 1..(n - 1) /\ t[j] = items[j]
        BY <1>5
      <4>2. ~(j < q) => j - 1 \in 1..(n - 1) /\ t[j - 1] = items[(j - 1) + 1] /\ (j - 1) + 1 = j
        BY <1>5, <3>1
      <4>. QED  BY <2>2, <4>1, <4>2
    <3>2. x = items[q].at \/ node[x] = Null
      BY <1>2, <3>1
    <3>3. ~(q > 1 /\ x = items[q - 1].at)
      BY <3>1
    <3>. QED  BY <3>2, <3>3 DEF Unlinked
  <2>. QED  BY <2>1, <2>2
<1>10. ends' = [head |-> IF n - 1 = 0 THEN Null ELSE t[1].at,
                tail |-> IF n - 1 = 0 THEN Null ELSE t[n - 1].at, len |-> n - 1]
  <2>1. ends.head = items[1].at /\ ends.tail = items[n].at
    BY <1>1 DEF SListInv, ListIsItsItems
  <2>2. q \in 1..n /\ items[p] = items[q]
    OBVIOUS
  <2>3. node[items[q].at] = [data |-> items[q].data, next |-> IF q = n THEN Null ELSE items[q + 1].at]
    BY <1>2, <2>2
  <2>4. (IF q = 1 THEN node[items[q].at].next ELSE ends.head) = IF n - 1 = 0 THEN Null ELSE t[1].at
    BY <1>5, <2>1, <2>3
  <2>5. (IF q = n THEN (IF q = 1 THEN Null ELSE items[q - 1].at) ELSE ends.tail)
        = IF n - 1 = 0 THEN Null ELSE t[n - 1].at
    BY <1>5, <2>1
  <2>. QED  BY <1>1, <1>2, <2>2, <2>4, <2>5
<1>11. node' \in [Nodes -> Cells \cup {Null}]
  <2>. SUFFICES ASSUME NEW x \in Nodes
                PROVE  node'[x] \in Cells \cup {Null}
    BY DEF Unlinked
  <2>1. CASE node'[x] # Null
    <3>1. PICK i \in 1..(n - 1) : x = t[i].at
      BY <1>9, <2>1
    <3>2. node'[x] = [data |-> t[i].data, next |-> IF i = n - 1 THEN Null ELSE t[i + 1].at]
      BY <1>8, <3>1
    <3>3. i # n - 1 => t[i + 1].at \in Nodes
      BY <1>6
    <3>. QED  BY <1>6, <3>2, <3>3 DEF Cells
  <2>. QED  BY <2>1
<1>12. Allocated' = {t[i].at : i \in 1..(n - 1)}
  BY <1>9, <1>6 DEF Allocated
<1>. QED  BY <1>1, <1>3, <1>4, <1>7, <1>8, <1>10, <1>11, <1>12 DEF SListInv, ListIsItsItems, ItemSet

(* The ends of a sequence are places in it as well. *)
LEMMA InsertAtEnds ==
  ASSUME NEW S, NEW s \in Seq(S), NEW e \in S
  PROVE  /\ InsertAt(s, 1, e) = <<e>> \o s
         /\ InsertAt(s, Len(s) + 1, e) = Append(s, e)
<1>1. PICK n \in Nat : n = Len(s)
  OBVIOUS
<1>2. PICK u : u = <<e>>
  OBVIOUS
<1>3. u \in Seq(S) /\ Len(u) = 1 /\ u[1] = e
  BY <1>2
<1>4. PICK v : v = InsertAt(s, 1, e)
  OBVIOUS
<1>5. v \in Seq(S) /\ Len(v) = n + 1 /\ \A j \in 1..(n + 1) : v[j] = IF j = 1 THEN e ELSE s[j - 1]
  <2>1. PICK i \in 1..(Len(s) + 1) : i = 1
    BY <1>1
  <2>2. LET t == InsertAt(s, i, e) IN
        /\ t \in Seq(S) /\ Len(t) = Len(s) + 1
        /\ \A j \in 1..(Len(s) + 1) :
             t[j] = IF j < i THEN s[j] ELSE IF j = i THEN e ELSE s[j - 1]
    <3>1. e \in S /\ s \in Seq(S) /\ i \in 1..(Len(s) + 1)
      OBVIOUS
    <3>2. Grows(S, s, i, e)
      BY ONLY <3>1, InsertAtFacts
    <3>. QED  BY <3>2 DEF Grows
  <2>. QED  BY <1>1, <1>4, <2>1, <2>2
<1>6. /\ u \o s \in Seq(S) /\ Len(u \o s) = 1 + n
      /\ \A j \in 1..(1 + n) : (u \o s)[j] = IF j <= 1 THEN u[j] ELSE s[j - 1]
  <2>1. PICK m \in Nat : m = 1
    OBVIOUS
  <2>2. n \in Nat /\ m \in Nat /\ u \in Seq(S) /\ s \in Seq(S) /\ m = Len(u) /\ n = Len(s)
    BY <1>1, <1>3, <2>1
  <2>3. /\ u \o s \in Seq(S) /\ Len(u \o s) = m + n
        /\ \A j \in 1..(m + n) : (u \o s)[j] = IF j <= m THEN u[j] ELSE s[j - m]
    BY ONLY <2>2, ConcatFacts
  <2>. QED  BY <2>1, <2>3
<1>7. v = u \o s
  <2>1. PICK w : w = u \o s
    OBVIOUS
  <2>2. w \in Seq(S) /\ Len(w) = n + 1
    BY <1>6, <2>1
  <2>3. ASSUME NEW j \in 1..(n + 1) PROVE w[j] = v[j]
    <3>1. w[j] = IF j <= 1 THEN u[j] ELSE s[j - 1]
      BY <1>6, <2>1
    <3>2. CASE j = 1
      BY <1>3, <1>5, <3>1, <3>2
    <3>3. CASE j # 1
      BY <1>5, <3>1, <3>3
    <3>. QED  BY <3>2, <3>3
  <2>4. DOMAIN v = 1..(n + 1) /\ DOMAIN w = 1..(n + 1)
    BY <1>1, <1>5, <2>2
  <2>5. v = [j \in 1..(n + 1) |-> v[j]] /\ w = [j \in 1..(n + 1) |-> w[j]]
    BY <1>5, <2>2, <2>4
  <2>. QED  BY <2>1, <2>3, <2>5
<1>8. PICK v2 : v2 = InsertAt(s, n + 1, e)
  OBVIOUS
<1>9. v2 \in Seq(S) /\ Len(v2) = n + 1 /\ \A j \in 1..(n + 1) : v2[j] = IF j < n + 1 THEN s[j] ELSE e
  <2>1. PICK i \in 1..(Len(s) + 1) : i = n + 1
    BY <1>1
  <2>2. LET t == InsertAt(s, i, e) IN
        /\ t \in Seq(S) /\ Len(t) = Len(s) + 1
        /\ \A j \in 1..(Len(s) + 1) :
             t[j] = IF j < i THEN s[j] ELSE IF j = i THEN e ELSE s[j - 1]
    <3>1. e \in S /\ s \in Seq(S) /\ i \in 1..(Len(s) + 1)
      OBVIOUS
    <3>2. Grows(S, s, i, e)
      BY ONLY <3>1, InsertAtFacts
    <3>. QED  BY <3>2 DEF Grows
  <2>. QED  BY <1>1, <1>8, <2>1, <2>2
<1>10. v2 = Append(s, e)
  BY <1>1, <1>9
<1>. QED  BY <1>1, <1>2, <1>4, <1>7, <1>8, <1>10

LEMMA TailIsRemoveAt ==
  ASSUME NEW S, NEW s \in Seq(S), s # <<>>
  PROVE  Tail(s) = RemoveAt(s, 1)
<1>1. PICK n \in Nat : n = Len(s) /\ n >= 1
  OBVIOUS
<1>2. PICK t : t = RemoveAt(s, 1)
  OBVIOUS
<1>3. t \in Seq(S) /\ Len(t) = n - 1 /\ \A j \in 1..(n - 1) : t[j] = s[j + 1]
  <2>1. 1 \in 1..Len(s)
    BY <1>1
  <2>2. LET u == RemoveAt(s, 1) IN
        /\ u \in Seq(S) /\ Len(u) = Len(s) - 1
        /\ \A j \in 1..(Len(s) - 1) : u[j] = IF j < 1 THEN s[j] ELSE s[j + 1]
    BY <2>1, RemoveAtFacts
  <2>. QED  BY <1>1, <1>2, <2>2
<1>4. t = Tail(s)
  BY <1>1, <1>3
<1>. QED  BY <1>2, <1>4

(* Every call is one of the two. *)
LEMMA PushfrontLinks ==
  ASSUME SListInv, NEW d \in Data, slist_pushfront(d)
  PROVE  SListInv'
<1>1. PICK m \in Free :
        /\ node' = [node EXCEPT ![m] = [data |-> d, next |-> ends.head]]
        /\ ends' = [head |-> m, tail |-> IF ends.tail = Null THEN m ELSE ends.tail,
                    len |-> ends.len + 1]
        /\ items' = <<Item(m, d)>> \o items
  BY DEF slist_pushfront
<1>2. PICK n \in Nat : n = Len(items)
  BY DEF SListInv
<1>3. /\ ends.head = IF n = 0 THEN Null ELSE items[1].at
      /\ ends.tail = IF n = 0 THEN Null ELSE items[n].at
      /\ \A i \in 1..n : items[i].at \in Nodes
  BY <1>2, ListFacts
<1>4. node' = Linked(1, m, d)
  <2>1. node' = [x \in Nodes |-> IF x = m THEN [data |-> d, next |-> ends.head] ELSE node[x]]
    BY <1>1 DEF SListInv
  <2>2. ends.head = IF 1 <= Len(items) THEN items[1].at ELSE Null
    BY <1>2, <1>3
  <2>. QED  BY <2>1, <2>2 DEF Linked
<1>5. items' = InsertAt(items, 1, Item(m, d))
  <2>1. PICK e : e = Item(m, d)
    OBVIOUS
  <2>2. e \in ItemSet /\ items \in Seq(ItemSet)
    BY <2>1 DEF Item, ItemSet, Free, SListInv
  <2>3. /\ InsertAt(items, 1, e) = <<e>> \o items
        /\ InsertAt(items, Len(items) + 1, e) = Append(items, e)
    BY ONLY <2>2, InsertAtEnds
  <2>. QED  BY <1>1, <1>2, <2>1, <2>3
<1>6. ends' = [head |-> IF 1 = 1 THEN m ELSE ends.head,
               tail |-> IF 1 = Len(items) + 1 THEN m ELSE ends.tail, len |-> ends.len + 1]
  BY <1>1, <1>2, <1>3, NullIsNothing
<1>. QED  BY <1>2, <1>4, <1>5, <1>6, LinkStep

LEMMA PushbackLinks ==
  ASSUME SListInv, NEW d \in Data, slist_pushback(d)
  PROVE  SListInv'
<1>1. PICK m \in Free :
        /\ node' = IF ends.tail = Null THEN [node EXCEPT ![m] = [data |-> d, next |-> Null]]
                   ELSE [node EXCEPT ![ends.tail].next = m, ![m] = [data |-> d, next |-> Null]]
        /\ ends' = [head |-> IF ends.tail = Null THEN m ELSE ends.head, tail |-> m,
                    len |-> ends.len + 1]
        /\ items' = Append(items, Item(m, d))
  BY DEF slist_pushback
<1>2. PICK n \in Nat : n = Len(items)
  BY DEF SListInv
<1>3. /\ ends.tail = IF n = 0 THEN Null ELSE items[n].at
      /\ \A i \in 1..n : /\ items[i].at \in Nodes /\ items[i].at # Null
                         /\ node[items[i].at] = [data |-> items[i].data,
                              next |-> IF i = n THEN Null ELSE items[i + 1].at]
      /\ \A x \in Nodes : node[x] # Null <=> \E i \in 1..n : x = items[i].at
  BY <1>2, ListFacts
<1>4. node' = Linked(n + 1, m, d)
  <2>1. CASE n = 0
    <3>1. node' = [x \in Nodes |-> IF x = m THEN [data |-> d, next |-> Null] ELSE node[x]]
      BY <1>1, <1>3, <2>1 DEF SListInv
    <3>2. ~(n + 1 <= Len(items)) /\ ~(n + 1 > 1)
      BY <1>2, <2>1
    <3>. QED  BY <3>1, <3>2 DEF Linked
  <2>2. CASE n > 0
    <3>1. n \in 1..n /\ (n + 1) - 1 = n /\ n + 1 > 1 /\ ~(n + 1 <= Len(items))
      BY <1>2, <2>2
    <3>2. PICK z \in Nodes : z = items[n].at
      BY <1>3, <3>1
    <3>3. ends.tail = z /\ z # Null /\ z # m
      <4>1. ends.tail = z /\ z # Null
        <5>1. ends.tail = items[n].at
          BY <1>3, <2>2
        <5>2. items[n].at # Null
          BY <1>3, <3>1
        <5>. QED  BY <3>2, <5>1, <5>2
      <4>2. node[z] # Null
        BY <1>3, <3>1, <3>2
      <4>. QED  BY <4>1, <4>2 DEF Free, Allocated
    <3>4. node[z] = [data |-> items[n].data, next |-> Null]
      BY <1>3, <3>1, <3>2
    <3>5. node' = [x \in Nodes |-> IF x = m THEN [data |-> d, next |-> Null]
                                   ELSE IF x = z THEN [node[z] EXCEPT !.next = m] ELSE node[x]]
      BY <1>1, <3>3 DEF SListInv
    <3>6. [node[z] EXCEPT !.next = m] = [data |-> node[z].data, next |-> m]
      BY <3>4
    <3>. QED  BY <3>1, <3>2, <3>5, <3>6 DEF Linked
  <2>. QED  BY <2>1, <2>2
<1>5. items' = InsertAt(items, n + 1, Item(m, d))
  <2>1. PICK e : e = Item(m, d)
    OBVIOUS
  <2>2. e \in ItemSet /\ items \in Seq(ItemSet)
    BY <2>1 DEF Item, ItemSet, Free, SListInv
  <2>3. /\ InsertAt(items, 1, e) = <<e>> \o items
        /\ InsertAt(items, Len(items) + 1, e) = Append(items, e)
    BY ONLY <2>2, InsertAtEnds
  <2>. QED  BY <1>1, <1>2, <2>1, <2>3
<1>6. ends' = [head |-> IF n + 1 = 1 THEN m ELSE ends.head,
               tail |-> IF n + 1 = Len(items) + 1 THEN m ELSE ends.tail, len |-> ends.len + 1]
  <2>1. ends.tail = Null <=> n = 0
    <3>1. n # 0 => n \in 1..n
      OBVIOUS
    <3>. QED  BY <1>3, <3>1
  <2>. QED  BY <1>1, <1>2, <2>1
<1>7. n + 1 \in 1..(Len(items) + 1)
  BY <1>2
<1>. QED  BY ONLY SListInv, m \in Free, d \in Data, <1>4, <1>5, <1>6, <1>7, LinkStep

LEMMA InsertNextLinks ==
  ASSUME SListInv, NEW y \in Allocated, NEW d \in Data, slist_insert_next(y, d)
  PROVE  SListInv'
<1>1. PICK m \in Free, i \in DOMAIN items :
        /\ items[i].at = y
        /\ node' = [node EXCEPT ![m] = [data |-> d, next |-> node[y].next], ![y].next = m]
        /\ ends' = [ends EXCEPT !.tail = IF node[y].next = Null THEN m ELSE @, !.len = @ + 1]
        /\ items' = InsertAt(items, i + 1, Item(m, d))
  BY DEF slist_insert_next
<1>2. PICK n \in Nat : n = Len(items) /\ i \in 1..n
  BY DEF SListInv
<1>3. /\ \A j \in 1..n : /\ items[j].at \in Nodes /\ items[j].at # Null
                         /\ node[items[j].at] = [data |-> items[j].data,
                              next |-> IF j = n THEN Null ELSE items[j + 1].at]
      /\ ends = [head |-> ends.head, tail |-> ends.tail, len |-> ends.len]
      /\ \A x \in Nodes : node[x] # Null <=> \E j \in 1..n : x = items[j].at
  BY <1>2, ListFacts
<1>4. /\ y \in Nodes /\ m \in Nodes /\ y # m /\ i \in Nat /\ i + 1 > 1 /\ (i + 1) - 1 = i
      /\ i = n <=> ~(i + 1 <= n)
  BY <1>2 DEF Free, Allocated
<1>5. node[y] = [data |-> items[i].data, next |-> IF i = n THEN Null ELSE items[i + 1].at]
  BY <1>1, <1>2, <1>3
<1>6. node[y].next = IF i + 1 <= n THEN items[i + 1].at ELSE Null
  BY <1>4, <1>5
<1>7. node[y].next = Null <=> i = n
  <2>1. i # n => i + 1 \in 1..n
    BY <1>2
  <2>. QED  BY <1>3, <1>4, <1>6, <2>1
<1>8. node' = Linked(i + 1, m, d)
  <2>1. node' = [x \in Nodes |-> IF x = m THEN [data |-> d, next |-> node[y].next]
                                 ELSE IF x = y THEN [node[y] EXCEPT !.next = m] ELSE node[x]]
    BY <1>1, <1>4 DEF SListInv
  <2>2. [node[y] EXCEPT !.next = m] = [data |-> node[y].data, next |-> m]
    BY <1>5
  <2>3. PICK p \in Nat : p = i + 1 /\ p > 1 /\ p - 1 = i
    BY <1>4
  <2>4. node' = Linked(p, m, d)
    <3>1. items[p - 1].at = y
      BY <1>1, <2>3
    <3>2. node[y].next = IF p <= Len(items) THEN items[p].at ELSE Null
      BY <1>2, <1>6, <2>3
    <3>. QED  BY <2>1, <2>2, <2>3, <3>1, <3>2 DEF Linked
  <2>. QED  BY <2>3, <2>4
<1>9. ends' = [head |-> IF i + 1 = 1 THEN m ELSE ends.head,
               tail |-> IF i + 1 = Len(items) + 1 THEN m ELSE ends.tail, len |-> ends.len + 1]
  <2>1. ends' = [head |-> ends.head, tail |-> IF node[y].next = Null THEN m ELSE ends.tail,
                 len |-> ends.len + 1]
    BY <1>1, <1>3
  <2>2. i + 1 # 1 /\ (i + 1 = Len(items) + 1 <=> i = n)
    BY <1>2
  <2>. QED  BY <1>7, <2>1, <2>2
<1>. QED
  <2>1. PICK p \in 1..(Len(items) + 1) : p = i + 1
    BY <1>2
  <2>2. /\ node' = Linked(p, m, d) /\ items' = InsertAt(items, p, Item(m, d))
        /\ ends' = [head |-> IF p = 1 THEN m ELSE ends.head,
                    tail |-> IF p = Len(items) + 1 THEN m ELSE ends.tail, len |-> ends.len + 1]
    BY <1>1, <1>8, <1>9, <2>1
  <2>. QED  BY <2>2, LinkStep

LEMMA PopfrontUnlinks ==
  ASSUME SListInv, slist_popfront
  PROVE  SListInv'
<1>1. PICK n \in Nat : n = Len(items)
  BY DEF SListInv
<1>2. /\ ends.head = IF n = 0 THEN Null ELSE items[1].at
      /\ ends.tail = IF n = 0 THEN Null ELSE items[n].at
      /\ ends.len = n
      /\ \A j \in 1..n : /\ items[j].at \in Nodes /\ items[j].at # Null
                         /\ node[items[j].at] = [data |-> items[j].data,
                              next |-> IF j = n THEN Null ELSE items[j + 1].at]
  BY <1>1, ListFacts
<1>3. n >= 1 /\ 1 \in 1..n /\ ends.head = items[1].at
  BY <1>2 DEF slist_popfront
<1>4. node[items[1].at] = [data |-> items[1].data, next |-> IF 1 = n THEN Null ELSE items[2].at]
  BY <1>2, <1>3
<1>5. node[items[1].at].next = Null <=> n = 1
  <2>1. node[items[1].at].next = IF 1 = n THEN Null ELSE items[2].at
    BY <1>4
  <2>2. n # 1 => 2 \in 1..n
    BY <1>3
  <2>. QED  BY <1>2, <2>1, <2>2
<1>6. node' = Unlinked(1)
  <2>1. node' = [x \in Nodes |-> IF x = items[1].at THEN Null ELSE node[x]]
    BY <1>3 DEF slist_popfront, SListInv
  <2>2. ~(1 > 1)
    OBVIOUS
  <2>. QED  BY <2>1, <2>2 DEF Unlinked
<1>7. items' = RemoveAt(items, 1)
  BY <1>1, <1>3, TailIsRemoveAt DEF slist_popfront, SListInv
<1>8. ends' = [head |-> IF 1 = 1 THEN node[items[1].at].next ELSE ends.head,
               tail |-> IF 1 = Len(items) THEN (IF 1 = 1 THEN Null ELSE items[1 - 1].at)
                        ELSE ends.tail,
               len |-> ends.len - 1]
  BY <1>1, <1>3, <1>5 DEF slist_popfront
<1>. QED  BY <1>1, <1>3, <1>6, <1>7, <1>8, UnlinkStep

LEMMA RemoveNextUnlinks ==
  ASSUME SListInv, NEW y \in Allocated, slist_remove_next(y)
  PROVE  SListInv'
<1>1. PICK next : next = node[y].next
  OBVIOUS
<1>2. PICK i \in DOMAIN items : items[i].at = y /\ items' = RemoveAt(items, i + 1)
  BY DEF slist_remove_next
<1>3. /\ next # Null
      /\ node' = [node EXCEPT ![y].next = node[next].next, ![next] = Null]
      /\ ends' = [ends EXCEPT !.tail = IF node[next].next = Null THEN y ELSE @, !.len = @ - 1]
  BY <1>1 DEF slist_remove_next
<1>4. PICK n \in Nat : n = Len(items) /\ i \in 1..n
  BY DEF SListInv
<1>5. /\ \A j \in 1..n : /\ items[j].at \in Nodes /\ items[j].at # Null
                         /\ node[items[j].at] = [data |-> items[j].data,
                              next |-> IF j = n THEN Null ELSE items[j + 1].at]
      /\ ends = [head |-> ends.head, tail |-> ends.tail, len |-> ends.len]
      /\ \A j, k \in 1..n : items[j].at = items[k].at => j = k
  BY <1>4, ListFacts
<1>6. node[y] = [data |-> items[i].data, next |-> IF i = n THEN Null ELSE items[i + 1].at]
  BY <1>2, <1>4, <1>5
<1>7. PICK p \in 1..n : p = i + 1 /\ p > 1 /\ p - 1 = i /\ i # p
  <2>1. i # n
    BY <1>1, <1>3, <1>6
  <2>. QED  BY <1>4, <2>1
<1>8. next = items[p].at /\ next \in Nodes /\ y \in Nodes /\ next # y
  <2>1. next = items[p].at
    BY <1>1, <1>3, <1>6, <1>7
  <2>2. items[p].at \in Nodes /\ items[i].at \in Nodes /\ items[p].at # items[i].at
    BY <1>4, <1>5, <1>7
  <2>. QED  BY <1>2, <2>1, <2>2
<1>9. node[next] = [data |-> items[p].data, next |-> IF p = n THEN Null ELSE items[p + 1].at]
  BY <1>5, <1>8
<1>10. node[next].next = Null <=> p = n
  <2>1. p # n => p + 1 \in 1..n
    BY <1>7
  <2>2. node[next].next = IF p = n THEN Null ELSE items[p + 1].at
    BY <1>9
  <2>. QED  BY <1>5, <2>1, <2>2
<1>11. node' = Unlinked(p)
  <2>1. node' = [x \in Nodes |-> IF x = next THEN Null
                                 ELSE IF x = y THEN [node[y] EXCEPT !.next = node[next].next]
                                 ELSE node[x]]
    BY <1>3, <1>8 DEF SListInv
  <2>2. [node[y] EXCEPT !.next = node[next].next] = [data |-> node[y].data, next |-> node[next].next]
    BY <1>6
  <2>. QED  BY <1>2, <1>7, <1>8, <2>1, <2>2 DEF Unlinked
<1>12. ends' = [head |-> IF p = 1 THEN node[items[p].at].next ELSE ends.head,
                tail |-> IF p = Len(items) THEN (IF p = 1 THEN Null ELSE items[p - 1].at)
                         ELSE ends.tail,
                len |-> ends.len - 1]
  <2>1. ends' = [head |-> ends.head, tail |-> IF node[next].next = Null THEN y ELSE ends.tail,
                 len |-> ends.len - 1]
    BY <1>3, <1>5
  <2>2. p # 1 /\ p = i + 1 /\ items[p - 1].at = y /\ n = Len(items)
    BY <1>2, <1>4, <1>7
  <2>. QED  BY <1>10, <2>1, <2>2
<1>. QED  BY <1>2, <1>4, <1>7, <1>11, <1>12, UnlinkStep

(* The walk over the list meets every node that is allocated: the first item *)
(* whose node it did not meet would be behind one that it did.               *)
LEMMA AllAreReached ==
  ASSUME SListInv
  PROVE  Reached = Allocated
<1>1. PICK n \in Nat : n = Len(items)
  BY DEF SListInv
<1>2. /\ ends.head = IF n = 0 THEN Null ELSE items[1].at
      /\ \A j \in 1..n : /\ items[j].at \in Nodes /\ items[j].at # Null
                         /\ node[items[j].at] = [data |-> items[j].data,
                              next |-> IF j = n THEN Null ELSE items[j + 1].at]
      /\ \A x \in Nodes : node[x] # Null <=> \E j \in 1..n : x = items[j].at
  BY <1>1, ListFacts
<1>. DEFINE Closed(S) == /\ ends.head # Null => ends.head \in S
                         /\ \A x \in S \cap Allocated :
                              node[x].next # Null => node[x].next \in S
<1>3. Reached = {x \in Nodes : \A S \in SUBSET Nodes : Closed(S) => x \in S}
  BY DEF Reached
<1>4. Closed(Allocated)
  <2>1. ends.head # Null => ends.head \in Allocated
    <3>1. n # 0 => 1 \in 1..n
      OBVIOUS
    <3>. QED  BY <1>2, <3>1 DEF Allocated
  <2>2. ASSUME NEW x \in Allocated, node[x].next # Null PROVE node[x].next \in Allocated
    <3>1. PICK j \in 1..n : x = items[j].at
      BY <1>2 DEF Allocated
    <3>2. node[x] = [data |-> items[j].data, next |-> IF j = n THEN Null ELSE items[j + 1].at]
      BY <1>2, <3>1
    <3>3. node[x].next = items[j + 1].at /\ j + 1 \in 1..n
      BY <2>2, <3>2
    <3>. QED  BY <1>2, <3>3 DEF Allocated
  <2>. QED  BY <2>1, <2>2
<1>5. ASSUME NEW S \in SUBSET Nodes, Closed(S) PROVE Allocated \subseteq S
  <2>. DEFINE Missed == {j \in 1..n : items[j].at \notin S}
  <2>1. ASSUME Missed # {} PROVE FALSE
    <3>1. PICK i \in Missed : \A j \in Missed : i <= j
      <4>1. Missed \in SUBSET Nat
        OBVIOUS
      <4>. HIDE DEF Missed
      <4>. QED  BY <2>1, <4>1, LeastNat
    <3>2. i \in 1..n /\ items[i].at \notin S
      OBVIOUS
    <3>3. i # 1
      <4>1. n # 0 /\ 1 \in 1..n
        BY <3>2
      <4>2. items[1].at # Null /\ ends.head = items[1].at
        BY <1>2, <4>1
      <4>. QED  BY <1>5, <3>2, <4>2
    <3>4. PICK k \in 1..n : k + 1 = i /\ k # n /\ k < i
      <4>1. i - 1 \in 1..n
        BY <3>2, <3>3
      <4>. QED  BY <3>2, <4>1
    <3>5. items[k].at \in S
      BY <3>1, <3>4
    <3>6. node[items[k].at] = [data |-> items[k].data, next |-> items[k + 1].at]
      BY <1>2, <3>4
    <3>7. items[k].at \in Allocated
      BY <1>2, <3>4 DEF Allocated
    <3>8. node[items[k].at].next = items[i].at /\ items[i].at # Null
      <4>1. node[items[k].at].next = items[k + 1].at
        BY <3>6
      <4>2. items[i].at # Null
        BY <1>2, <3>2
      <4>. QED  BY <3>4, <4>1, <4>2
    <3>. QED  BY <1>5, <3>2, <3>5, <3>7, <3>8
  <2>. QED  BY <1>2, <2>1 DEF Allocated
<1>6. Allocated \in SUBSET Nodes
  BY DEF Allocated
<1>. HIDE DEF Closed
<1>. QED  BY <1>3, <1>4, <1>5, <1>6

LEMMA EmptyList ==
  ASSUME node' = [x \in Nodes |-> Null], ends' = [head |-> Null, tail |-> Null, len |-> 0],
         items' = <<>>
  PROVE  SListInv'
<1>1. Len(items') = 0 /\ items' \in Seq([at : Nodes, data : Data]) /\ 1..0 = {}
  OBVIOUS
<1>2. Allocated' = {}
  BY DEF Allocated
<1>. QED  BY <1>1, <1>2 DEF SListInv, ListIsItsItems

LEMMA ClearEmpties ==
  ASSUME SListInv, slist_clear
  PROVE  SListInv'
<1>1. node' = [x \in Nodes |-> Null]
  BY AllAreReached DEF slist_clear, Allocated
<1>. QED  BY <1>1, EmptyList DEF slist_clear

LEMMA SListInitInv == SListInit => SListInv
<1>. SUFFICES ASSUME SListInit PROVE SListInv
  OBVIOUS
<1>1. Len(items) = 0 /\ items \in Seq([at : Nodes, data : Data]) /\ 1..0 = {}
  BY DEF SListInit
<1>2. Allocated = {}
  BY DEF SListInit, Allocated
<1>. QED  BY <1>1, <1>2 DEF SListInit, SListInv, ListIsItsItems

(* No call breaks the list: what SListInv says holds always. *)
THEOREM SListInvariant == SListSpec => []SListInv
<1>1. SListInv /\ [SListNext]_slistVars => SListInv'
  <2>. SUFFICES ASSUME SListInv, [SListNext]_slistVars PROVE SListInv'
    OBVIOUS
  <2>1. CASE \E d \in Data : slist_pushfront(d) \/ slist_pushback(d)
    BY <2>1, PushfrontLinks, PushbackLinks
  <2>2. CASE slist_popfront
    BY <2>2, PopfrontUnlinks
  <2>3. CASE \E y \in Allocated : slist_remove_next(y)
    BY <2>3, RemoveNextUnlinks
  <2>4. CASE \E y \in Allocated : \E d \in Data : slist_insert_next(y, d)
    BY <2>4, InsertNextLinks
  <2>5. CASE slist_clear
    BY <2>5, ClearEmpties
  <2>6. CASE UNCHANGED slistVars
    BY <2>6 DEF slistVars, SListInv, ListIsItsItems, Allocated
  <2>. QED  BY <2>1, <2>2, <2>3, <2>4, <2>5, <2>6 DEF SListNext
<1>. QED  BY <1>1, SListInitInv, PTL DEF SListSpec

(* The pointers lead from the head through exactly the items and to the      *)
(* tail, nothing leaks and nothing that was freed is pointed at              *)
(* (collection/slist.c), for every number of nodes and every data.           *)
THEOREM ListsAreTheirItems == SListSpec => []ListIsItsItems
<1>1. SListInv => ListIsItsItems
  BY DEF SListInv
<1>. QED  BY <1>1, SListInvariant, PTL

-----------------------------------------------------------------------------
(* The hash table: chains, tables of chains, and calls. *)

Entries == [key : Keys, val : 1..MaxVals]

LEMMA HashidxFacts ==
  ASSUME NEW key \in Keys, NEW n \in Nat \ {0}
  PROVE  hashidx(key, n) \in 1..n
<1>1. PICK h \in Nat : h = Hash(key)
  BY TableConstants
<1>2. h % n \in 0..(n - 1)
  OBVIOUS
<1>. QED  BY <1>1, <1>2 DEF hashidx

(* What a chain holds after a node was put at its front. *)
LEMMA PrependFacts ==
  ASSUME NEW S, NEW c \in Seq(S), NEW e \in S
  PROVE  /\ <<e>> \o c \in Seq(S)
         /\ Range(<<e>> \o c) = Range(c) \cup {e}
         /\ OnceEach(c) /\ (\A d \in Range(c) : d.key # e.key) => OnceEach(<<e>> \o c)
<1>1. PICK n \in Nat : n = Len(c) /\ DOMAIN c = 1..n
  OBVIOUS
<1>2. PICK u : u = <<e>>
  OBVIOUS
<1>3. u \in Seq(S) /\ Len(u) = 1 /\ u[1] = e
  BY <1>2
<1>4. PICK t : t = u \o c
  OBVIOUS
<1>5. /\ t \in Seq(S) /\ Len(t) = n + 1 /\ DOMAIN t = 1..(n + 1)
      /\ t[1] = e /\ \A j \in 1..n : t[j + 1] = c[j]
  <2>1. t \in Seq(S) /\ Len(t) = 1 + n /\ \A j \in 1..(1 + n) : t[j] = IF j <= 1 THEN u[j] ELSE c[j - 1]
    <3>1. PICK m \in Nat : m = 1 /\ m = Len(u)
      BY <1>3
    <3>2. u \in Seq(S) /\ c \in Seq(S) /\ m \in Nat /\ n \in Nat /\ m = Len(u) /\ n = Len(c)
      BY <1>1, <1>3, <3>1
    <3>3. /\ u \o c \in Seq(S) /\ Len(u \o c) = m + n
          /\ \A j \in 1..(m + n) : (u \o c)[j] = IF j <= m THEN u[j] ELSE c[j - m]
      BY ONLY <3>2, ConcatFacts
    <3>. QED  BY <1>4, <3>1, <3>3
  <2>2. t[1] = u[1]
    BY <2>1
  <2>3. ASSUME NEW j \in 1..n PROVE t[j + 1] = c[j]
    <3>1. j + 1 \in 1..(1 + n) /\ ~(j + 1 <= 1) /\ (j + 1) - 1 = j
      OBVIOUS
    <3>. QED  BY <2>1, <3>1
  <2>. QED  BY <1>3, <2>1, <2>2, <2>3
<1>6. \A j \in 1..(n + 1) : j = 1 \/ \E k \in 1..n : j = k + 1
  <2>1. ASSUME NEW j \in 1..(n + 1), j # 1 PROVE \E k \in 1..n : j = k + 1
    <3>1. j - 1 \in 1..n /\ j = (j - 1) + 1
      BY <2>1
    <3>. QED  BY <3>1
  <2>. QED  BY <2>1
<1>7. Range(t) = Range(c) \cup {e}
  <2>1. \A x : x \in Range(t) <=> \E j \in 1..(n + 1) : t[j] = x
    BY <1>5 DEF Range
  <2>2. \A x : x \in Range(c) <=> \E j \in 1..n : c[j] = x
    BY <1>1 DEF Range
  <2>3. ASSUME NEW x \in Range(t) PROVE x \in Range(c) \cup {e}
    <3>1. PICK j \in 1..(n + 1) : t[j] = x
      BY <2>1
    <3>2. j = 1 \/ \E k \in 1..n : j = k + 1
      BY <1>6
    <3>3. x = e \/ \E k \in 1..n : c[k] = x
      BY <1>5, <3>1, <3>2
    <3>. QED  BY <2>2, <3>3
  <2>4. ASSUME NEW x \in Range(c) PROVE x \in Range(t)
    <3>1. PICK j \in 1..n : c[j] = x
      BY <2>2
    <3>2. j + 1 \in 1..(n + 1) /\ t[j + 1] = x
      BY <1>5, <3>1
    <3>. QED  BY <2>1, <3>2
  <2>5. e \in Range(t)
    <3>1. 1 \in 1..(n + 1)
      OBVIOUS
    <3>. QED  BY <1>5, <2>1, <3>1
  <2>. QED  BY <2>3, <2>4, <2>5
<1>8. ASSUME OnceEach(c), \A d \in Range(c) : d.key # e.key PROVE OnceEach(t)
  <2>1. \A j \in 1..n : c[j].key # e.key
    BY <1>1, <1>8 DEF Range
  <2>2. ASSUME NEW j \in 1..(n + 1), NEW k \in 1..(n + 1), t[j].key = t[k].key PROVE j = k
    <3>1. CASE j = 1 /\ k = 1
      BY <3>1
    <3>2. CASE j = 1 /\ k # 1
      BY <1>5, <1>6, <2>1, <2>2, <3>2
    <3>3. CASE j # 1 /\ k = 1
      BY <1>5, <1>6, <2>1, <2>2, <3>3
    <3>4. CASE j # 1 /\ k # 1
      <4>1. PICK x \in 1..n, y \in 1..n : j = x + 1 /\ k = y + 1
        BY <1>6, <3>4
      <4>2. c[x].key = c[y].key
        BY <1>5, <2>2, <4>1
      <4>3. x = y
        BY <1>1, <1>8, <4>2 DEF OnceEach
      <4>. QED  BY <4>1, <4>3
    <3>. QED  BY <3>1, <3>2, <3>3, <3>4
  <2>. QED  BY <1>5, <2>2 DEF OnceEach
<1>. QED  BY <1>2, <1>4, <1>5, <1>7, <1>8

(* And after one was taken out. *)
LEMMA TakeFacts ==
  ASSUME NEW S, NEW c \in Seq(S), NEW i \in DOMAIN c, OnceEach(c)
  PROVE  /\ RemoveAt(c, i) \in Seq(S)
         /\ Range(RemoveAt(c, i)) = Range(c) \ {c[i]}
         /\ OnceEach(RemoveAt(c, i))
<1>1. PICK n \in Nat : n = Len(c) /\ DOMAIN c = 1..n
  OBVIOUS
<1>2. PICK t : t = RemoveAt(c, i)
  OBVIOUS
<1>3. n >= 1 /\ n - 1 \in Nat /\ i \in 1..n
  BY <1>1
<1>4. PICK m \in Nat : m = n - 1 /\ n = m + 1
  BY <1>3
<1>5. /\ t \in Seq(S) /\ Len(t) = m /\ DOMAIN t = 1..m
      /\ \A j \in 1..m : t[j] = IF j < i THEN c[j] ELSE c[j + 1]
  <2>1. i \in 1..Len(c)
    BY <1>1
  <2>2. LET u == RemoveAt(c, i) IN
        /\ u \in Seq(S) /\ Len(u) = Len(c) - 1
        /\ \A j \in 1..(Len(c) - 1) : u[j] = IF j < i THEN c[j] ELSE c[j + 1]
    BY <2>1, RemoveAtFacts
  <2>. QED  BY <1>1, <1>2, <1>4, <2>2
<1>6. \A k \in 1..n : \/ k = i
                      \/ k < i /\ k \in 1..m
                      \/ \E j \in 1..m : k = j + 1 /\ ~(j < i)
  <2>1. ASSUME NEW k \in 1..n, k # i, ~(k < i) PROVE \E j \in 1..m : k = j + 1 /\ ~(j < i)
    <3>1. k - 1 \in 1..m /\ k = (k - 1) + 1 /\ ~(k - 1 < i)
      BY <1>3, <1>4, <2>1
    <3>. QED  BY <3>1
  <2>. QED  BY <1>3, <1>4, <2>1
<1>7. \A j, k \in 1..n : c[j].key = c[k].key => j = k
  BY <1>1 DEF OnceEach
<1>8. \A j \in 1..m : /\ j < i => t[j] = c[j] /\ j \in 1..n /\ j # i
                      /\ ~(j < i) => t[j] = c[j + 1] /\ j + 1 \in 1..n /\ j + 1 # i
  BY <1>3, <1>4, <1>5
<1>9. \A x : x \in Range(t) <=> \E j \in 1..m : t[j] = x
  BY <1>5 DEF Range
<1>10. \A x : x \in Range(c) <=> \E j \in 1..n : c[j] = x
  BY <1>1 DEF Range
<1>11. Range(t) = Range(c) \ {c[i]}
  <2>1. ASSUME NEW x \in Range(t) PROVE x \in Range(c) \ {c[i]}
    <3>1. PICK j \in 1..m : t[j] = x
      BY <1>9
    <3>2. PICK k \in 1..n : c[k] = x /\ k # i
      BY <1>8, <3>1
    <3>3. x # c[i]
      BY <1>3, <1>7, <3>2
    <3>. QED  BY <1>10, <3>2, <3>3
  <2>2. ASSUME NEW x \in Range(c), x # c[i] PROVE x \in Range(t)
    <3>1. PICK k \in 1..n : c[k] = x /\ k # i
      BY <1>10, <2>2
    <3>2. \E j \in 1..m : t[j] = x
      BY <1>6, <1>8, <3>1
    <3>. QED  BY <1>9, <3>2
  <2>. QED  BY <2>1, <2>2
<1>12. OnceEach(t)
  <2>1. ASSUME NEW j \in 1..m, NEW k \in 1..m, t[j].key = t[k].key PROVE j = k
    BY <1>7, <1>8, <2>1, SMTT(20)
  <2>. QED  BY <1>5, <2>1 DEF OnceEach
<1>. QED  BY <1>2, <1>5, <1>11, <1>12

(* And after the value of one was replaced. *)
LEMMA SetFacts ==
  ASSUME NEW c \in Seq(Entries), NEW i \in DOMAIN c, NEW v \in 1..MaxVals, OnceEach(c)
  PROVE  LET t == [c EXCEPT ![i].val = v]
             e == [key |-> c[i].key, val |-> v]
         IN /\ t \in Seq(Entries) /\ e \in Entries
            /\ Range(t) = (Range(c) \ {c[i]}) \cup {e}
            /\ OnceEach(t)
<1>1. PICK n \in Nat : n = Len(c) /\ DOMAIN c = 1..n
  OBVIOUS
<1>2. PICK t : t = [c EXCEPT ![i].val = v]
  OBVIOUS
<1>3. PICK e : e = [key |-> c[i].key, val |-> v]
  OBVIOUS
<1>4. c[i] \in Entries /\ \A j \in 1..n : c[j] \in Entries
  BY <1>1
<1>5. e \in Entries /\ e.key = c[i].key /\ e = [c[i] EXCEPT !.val = v]
  BY <1>3, <1>4 DEF Entries
<1>6. DOMAIN t = 1..n /\ t[i] = e /\ \A j \in 1..n : j # i => t[j] = c[j]
  BY <1>1, <1>2, <1>5
<1>7. t \in Seq(Entries)
  <2>1. t = [j \in 1..n |-> t[j]]
    BY <1>1, <1>2, <1>6
  <2>2. \A j \in 1..n : t[j] \in Entries
    BY <1>4, <1>5, <1>6
  <2>. QED  BY <2>1, <2>2
<1>8. \A j, k \in 1..n : c[j].key = c[k].key => j = k
  BY <1>1 DEF OnceEach
<1>9. \A x : x \in Range(t) <=> \E j \in 1..n : t[j] = x
  BY <1>6 DEF Range
<1>10. \A x : x \in Range(c) <=> \E j \in 1..n : c[j] = x
  BY <1>1 DEF Range
<1>11. Range(t) = (Range(c) \ {c[i]}) \cup {e}
  <2>1. ASSUME NEW x \in Range(t), x # e PROVE x \in Range(c) \ {c[i]}
    <3>1. PICK j \in 1..n : t[j] = x /\ j # i
      BY <1>6, <1>9, <2>1
    <3>2. c[j] = x /\ x # c[i]
      BY <1>1, <1>6, <1>8, <3>1
    <3>. QED  BY <1>10, <3>2
  <2>2. ASSUME NEW x \in Range(c), x # c[i] PROVE x \in Range(t)
    BY <1>6, <1>9, <1>10, <2>2
  <2>3. e \in Range(t)
    BY <1>1, <1>6, <1>9
  <2>. QED  BY <2>1, <2>2, <2>3
<1>12. OnceEach(t)
  <2>1. \A j \in 1..n : t[j].key = c[j].key
    BY <1>5, <1>6
  <2>. QED  BY <1>6, <1>8, <2>1 DEF OnceEach
<1>. QED  BY <1>2, <1>3, <1>5, <1>7, <1>11, <1>12

Tables == Seq(Seq(Entries))

LEMMA TableFacts ==
  ASSUME NEW T \in Tables
  PROVE  /\ Len(T) \in Nat /\ DOMAIN T = 1..Len(T)
         /\ \A i \in DOMAIN T : T[i] \in Seq(Entries)
         /\ T = <<>> <=> Len(T) = 0
BY DEF Tables

(* A table in which one chain was replaced. *)
LEMMA ReplaceFacts ==
  ASSUME NEW T \in Tables, NEW j \in DOMAIN T, NEW c \in Seq(Entries)
  PROVE  LET U == [T EXCEPT ![j] = c] IN
         /\ U \in Tables /\ Len(U) = Len(T) /\ DOMAIN U = DOMAIN T
         /\ U[j] = c /\ \A i \in DOMAIN T : i # j => U[i] = T[i]
<1>1. PICK U : U = [T EXCEPT ![j] = c]
  OBVIOUS
<1>2. PICK n \in Nat : n = Len(T) /\ DOMAIN T = 1..n
  BY TableFacts
<1>3. DOMAIN U = 1..n /\ U[j] = c /\ \A i \in 1..n : i # j => U[i] = T[i]
  BY <1>1, <1>2
<1>4. U = [i \in 1..n |-> U[i]]
  BY <1>1, <1>2
<1>5. \A i \in 1..n : U[i] \in Seq(Entries)
  BY <1>2, <1>3, TableFacts
<1>6. U \in Tables /\ Len(U) = n
  <2>1. PICK S : S = Seq(Entries)
    OBVIOUS
  <2>2. \A i \in 1..n : U[i] \in S
    BY <1>5, <2>1
  <2>3. U \in Seq(S) /\ Len(U) = n
    BY ONLY <1>4, <2>2, n \in Nat
  <2>. QED  BY <2>1, <2>3 DEF Tables
<1>. QED  BY <1>1, <1>2, <1>3, <1>6

LEMMA NoNodesFacts ==
  ASSUME NEW n \in Nat
  PROVE  /\ NoNodes(n) \in Tables /\ Len(NoNodes(n)) = n
         /\ \A i \in 1..n : NoNodes(n)[i] = <<>>
         /\ IsTableOf(NoNodes(n), {})
<1>1. PICK T : T = NoNodes(n)
  OBVIOUS
<1>2. T = [i \in 1..n |-> <<>>]
  BY <1>1 DEF NoNodes
<1>3. T \in Tables /\ Len(T) = n /\ DOMAIN T = 1..n /\ \A i \in 1..n : T[i] = <<>>
  BY <1>2 DEF Tables
<1>4. Range(<<>>) = {} /\ OnceEach(<<>>)
  BY DEF Range, OnceEach
<1>5. IsTableOf(T, {})
  BY <1>3, <1>4 DEF IsTableOf
<1>. QED  BY <1>1, <1>3, <1>5

LEMMA NoTable ==
  ASSUME NEW M
  PROVE  <<>> \in Tables /\ NodesOf(<<>>) = {} /\ Places(<<>>) = {} /\ IsTableOf(<<>>, M)
<1>1. DOMAIN <<>> = {} /\ <<>> \in Tables
  BY DEF Tables
<1>2. Places(<<>>) = {}
  BY <1>1 DEF Places
<1>. QED  BY <1>1, <1>2 DEF NodesOf, IsTableOf

LEMMA PlacesFacts ==
  ASSUME NEW T
  PROVE  /\ \A p \in Places(T) : /\ p[1] \in DOMAIN T /\ p[2] \in DOMAIN T[p[1]]
                                 /\ p = <<p[1], p[2]>>
         /\ \A i \in DOMAIN T : \A k \in DOMAIN T[i] : <<i, k>> \in Places(T)
<1>1. ASSUME NEW p \in Places(T)
      PROVE  p[1] \in DOMAIN T /\ p[2] \in DOMAIN T[p[1]] /\ p = <<p[1], p[2]>>
  <2>1. PICK i \in DOMAIN T : p \in {i} \X DOMAIN T[i]
    BY <1>1 DEF Places
  <2>. QED  BY <2>1
<1>2. ASSUME NEW i \in DOMAIN T, NEW k \in DOMAIN T[i] PROVE <<i, k>> \in Places(T)
  <2>1. <<i, k>> \in {i} \X DOMAIN T[i]
    OBVIOUS
  <2>. QED  BY <2>1 DEF Places
<1>. QED  BY <1>1, <1>2

(* The nodes of a table are the entries it is of, one for each place. *)
LEMMA NodesFacts ==
  ASSUME NEW T \in Tables, T # <<>>, NEW M \in SUBSET Entries, IsTableOf(T, M)
  PROVE  /\ NodesOf(T) = M
         /\ \A p, q \in Places(T) : NodeAt(T, p).key = NodeAt(T, q).key => p = q
         /\ \A p \in Places(T) : NodeAt(T, p) \in M
<1>1. PICK n \in Nat \ {0} : n = Len(T) /\ DOMAIN T = 1..n
  BY TableFacts
<1>2. \A i \in 1..n : OnceEach(T[i]) /\ Range(T[i]) = {e \in M : hashidx(e.key, n) = i}
  BY <1>1 DEF IsTableOf
<1>3. ASSUME NEW p \in Places(T)
      PROVE  NodeAt(T, p) \in M /\ hashidx(NodeAt(T, p).key, n) = p[1]
  <2>1. p[1] \in 1..n /\ p[2] \in DOMAIN T[p[1]]
    BY <1>1, PlacesFacts
  <2>2. T[p[1]][p[2]] \in Range(T[p[1]])
    BY <2>1 DEF Range
  <2>. QED  BY <1>2, <2>1, <2>2 DEF NodeAt
<1>4. ASSUME NEW e \in M PROVE e \in NodesOf(T)
  <2>1. PICK i \in 1..n : i = hashidx(e.key, n)
    <3>1. e.key \in Keys
      BY DEF Entries
    <3>. QED  BY <3>1, HashidxFacts
  <2>2. e \in Range(T[i])
    BY <1>2, <2>1
  <2>3. PICK k \in DOMAIN T[i] : T[i][k] = e
    BY <2>2 DEF Range
  <2>4. <<i, k>> \in Places(T)
    BY <1>1, PlacesFacts
  <2>. QED  BY <2>3, <2>4 DEF NodesOf, NodeAt
<1>5. ASSUME NEW p \in Places(T), NEW q \in Places(T), NodeAt(T, p).key = NodeAt(T, q).key
      PROVE  p = q
  <2>1. p[1] = q[1]
    BY <1>3, <1>5
  <2>2. /\ p[1] \in 1..n /\ p[2] \in DOMAIN T[p[1]] /\ p = <<p[1], p[2]>>
        /\ q[1] \in 1..n /\ q[2] \in DOMAIN T[q[1]] /\ q = <<q[1], q[2]>>
    BY <1>1, PlacesFacts
  <2>3. p[2] = q[2]
    BY <1>2, <1>5, <2>1, <2>2 DEF OnceEach, NodeAt
  <2>. QED  BY <2>1, <2>2, <2>3
<1>. QED  BY <1>3, <1>4, <1>5 DEF NodesOf

LEMMA PlacesAreEntries ==
  ASSUME NEW T \in Tables, T # <<>>, NEW M \in SUBSET Entries, IsTableOf(T, M), IsFiniteSet(M)
  PROVE  IsFiniteSet(Places(T)) /\ Cardinality(Places(T)) = Cardinality(M)
<1>1. PICK f : f = [p \in Places(T) |-> NodeAt(T, p)]
  OBVIOUS
<1>2. /\ NodesOf(T) = M
      /\ \A p, q \in Places(T) : NodeAt(T, p).key = NodeAt(T, q).key => p = q
      /\ \A p \in Places(T) : NodeAt(T, p) \in M
  BY NodesFacts
<1>3. f \in [Places(T) -> M] /\ \A p, q \in Places(T) : f[p] = f[q] => p = q
  BY <1>1, <1>2
<1>4. \A e \in M : \E p \in Places(T) : f[p] = e
  BY <1>1, <1>2 DEF NodesOf
<1>5. f \in Injection(Places(T), M) /\ f \in Surjection(Places(T), M)
  BY <1>3, <1>4 DEF Injection, IsInjective, Surjection
<1>. QED  BY <1>5, FS_Injection

(* A node goes to the front of the chain of its hash. *)
LEMMA TablePuts ==
  ASSUME NEW T \in Tables, T # <<>>, NEW M \in SUBSET Entries, IsTableOf(T, M),
         NEW e \in Entries, \A d \in M : d.key # e.key,
         NEW j, j = hashidx(e.key, Len(T))
  PROVE  LET U == [T EXCEPT ![j] = <<e>> \o @] IN
         U \in Tables /\ Len(U) = Len(T) /\ IsTableOf(U, M \cup {e})
<1>1. PICK n \in Nat \ {0} : n = Len(T) /\ DOMAIN T = 1..n
  BY TableFacts
<1>2. j \in 1..n
  <2>1. e.key \in Keys
    BY DEF Entries
  <2>. QED  BY <1>1, <2>1, HashidxFacts
<1>3. PICK c \in Seq(Entries) : c = T[j]
  BY <1>1, <1>2, TableFacts
<1>4. PICK d : d = <<e>> \o c
  OBVIOUS
<1>5. \A i \in 1..n : OnceEach(T[i]) /\ Range(T[i]) = {x \in M : hashidx(x.key, n) = i}
  BY <1>1 DEF IsTableOf
<1>6. d \in Seq(Entries) /\ Range(d) = Range(c) \cup {e} /\ OnceEach(d)
  <2>1. OnceEach(c) /\ \A x \in Range(c) : x.key # e.key
    BY <1>2, <1>3, <1>5
  <2>. QED  BY <1>4, <2>1, PrependFacts
<1>7. PICK U : U = [T EXCEPT ![j] = d]
  OBVIOUS
<1>8. /\ U \in Tables /\ Len(U) = n /\ DOMAIN U = 1..n
      /\ U[j] = d /\ \A i \in 1..n : i # j => U[i] = T[i]
  <2>1. T \in Tables /\ j \in DOMAIN T /\ d \in Seq(Entries)
    BY <1>1, <1>2, <1>6
  <2>2. LET V == [T EXCEPT ![j] = d] IN
        /\ V \in Tables /\ Len(V) = Len(T) /\ DOMAIN V = DOMAIN T
        /\ V[j] = d /\ \A i \in DOMAIN T : i # j => V[i] = T[i]
    BY ONLY <2>1, ReplaceFacts
  <2>. QED  BY <1>1, <1>7, <2>2
<1>9. ASSUME NEW i \in 1..n
      PROVE  OnceEach(U[i]) /\ Range(U[i]) = {x \in M \cup {e} : hashidx(x.key, n) = i}
  BY <1>1, <1>3, <1>5, <1>6, <1>8
<1>10. IsTableOf(U, M \cup {e})
  BY <1>8, <1>9 DEF IsTableOf
<1>11. U = [T EXCEPT ![j] = <<e>> \o @]
  BY <1>3, <1>4, <1>7
<1>. QED  BY <1>1, <1>8, <1>10, <1>11

(* A node is taken out. *)
LEMMA TableTakes ==
  ASSUME NEW T \in Tables, NEW M \in SUBSET Entries, IsTableOf(T, M),
         NEW j \in DOMAIN T, NEW k \in DOMAIN T[j]
  PROVE  LET U == [T EXCEPT ![j] = RemoveAt(@, k)] IN
         /\ U \in Tables /\ Len(U) = Len(T) /\ T[j][k] \in M
         /\ IsTableOf(U, M \ {T[j][k]})
<1>1. PICK n \in Nat \ {0} : n = Len(T) /\ DOMAIN T = 1..n
  BY TableFacts
<1>2. PICK c \in Seq(Entries) : c = T[j]
  BY <1>1, TableFacts
<1>3. PICK d : d = RemoveAt(c, k)
  OBVIOUS
<1>4. \A i \in 1..n : OnceEach(T[i]) /\ Range(T[i]) = {x \in M : hashidx(x.key, n) = i}
  BY <1>1 DEF IsTableOf
<1>5. PICK e : e = c[k]
  OBVIOUS
<1>6. d \in Seq(Entries) /\ Range(d) = Range(c) \ {e} /\ OnceEach(d)
  BY <1>1, <1>2, <1>3, <1>4, <1>5, TakeFacts
<1>7. e \in M /\ hashidx(e.key, n) = j
  <2>1. e \in Range(c)
    BY <1>2, <1>5 DEF Range
  <2>. QED  BY <1>1, <1>2, <1>4, <2>1
<1>8. PICK U : U = [T EXCEPT ![j] = d]
  OBVIOUS
<1>9. /\ U \in Tables /\ Len(U) = n /\ DOMAIN U = 1..n
      /\ U[j] = d /\ \A i \in 1..n : i # j => U[i] = T[i]
  <2>1. T \in Tables /\ j \in DOMAIN T /\ d \in Seq(Entries) /\ DOMAIN T = 1..n /\ Len(T) = n
    BY <1>1, <1>6
  <2>2. /\ U \in Tables /\ Len(U) = Len(T) /\ DOMAIN U = DOMAIN T
        /\ U[j] = d /\ \A i \in DOMAIN T : i # j => U[i] = T[i]
    BY ONLY <1>8, <2>1, ReplaceFacts, ZenonT(20)
  <2>. QED  BY ONLY <2>1, <2>2
<1>10. ASSUME NEW i \in 1..n
       PROVE  OnceEach(U[i]) /\ Range(U[i]) = {x \in M \ {e} : hashidx(x.key, n) = i}
  BY <1>1, <1>2, <1>4, <1>6, <1>7, <1>9
<1>11. IsTableOf(U, M \ {e})
  BY <1>9, <1>10 DEF IsTableOf
<1>12. U = [T EXCEPT ![j] = RemoveAt(@, k)]
  BY <1>2, <1>3, <1>8
<1>. QED  BY <1>1, <1>2, <1>5, <1>7, <1>9, <1>11, <1>12

(* The value of a node is replaced. *)
LEMMA TableSets ==
  ASSUME NEW T \in Tables, NEW M \in SUBSET Entries, IsTableOf(T, M),
         NEW j \in DOMAIN T, NEW k \in DOMAIN T[j], NEW v \in 1..MaxVals
  PROVE  LET U == [T EXCEPT ![j][k].val = v]
             e == [key |-> T[j][k].key, val |-> v]
         IN U \in Tables /\ Len(U) = Len(T) /\ IsTableOf(U, (M \ {T[j][k]}) \cup {e})
<1>1. PICK n \in Nat \ {0} : n = Len(T) /\ DOMAIN T = 1..n
  BY TableFacts
<1>2. PICK c \in Seq(Entries) : c = T[j]
  BY <1>1, TableFacts
<1>3. PICK d : d = [c EXCEPT ![k].val = v]
  OBVIOUS
<1>4. \A i \in 1..n : OnceEach(T[i]) /\ Range(T[i]) = {x \in M : hashidx(x.key, n) = i}
  BY <1>1 DEF IsTableOf
<1>5. PICK b, e : b = c[k] /\ e = [key |-> b.key, val |-> v]
  OBVIOUS
<1>6. d \in Seq(Entries) /\ Range(d) = (Range(c) \ {b}) \cup {e} /\ OnceEach(d)
  BY <1>1, <1>2, <1>3, <1>4, <1>5, SetFacts, ZenonT(40)
<1>7. b \in M /\ hashidx(b.key, n) = j /\ e.key = b.key
  <2>1. b \in Range(c)
    BY <1>2, <1>5 DEF Range
  <2>. QED  BY <1>1, <1>2, <1>4, <1>5, <2>1
<1>8. PICK U : U = [T EXCEPT ![j] = d]
  OBVIOUS
<1>9. /\ U \in Tables /\ Len(U) = n /\ DOMAIN U = 1..n
      /\ U[j] = d /\ \A i \in 1..n : i # j => U[i] = T[i]
  <2>1. T \in Tables /\ j \in DOMAIN T /\ d \in Seq(Entries) /\ DOMAIN T = 1..n /\ Len(T) = n
    BY <1>1, <1>6
  <2>2. /\ U \in Tables /\ Len(U) = Len(T) /\ DOMAIN U = DOMAIN T
        /\ U[j] = d /\ \A i \in DOMAIN T : i # j => U[i] = T[i]
    BY ONLY <1>8, <2>1, ReplaceFacts, ZenonT(20)
  <2>. QED  BY ONLY <2>1, <2>2
<1>10. ASSUME NEW i \in 1..n
       PROVE  OnceEach(U[i]) /\ Range(U[i]) = {x \in (M \ {b}) \cup {e} : hashidx(x.key, n) = i}
  BY <1>1, <1>2, <1>4, <1>6, <1>7, <1>9
<1>11. IsTableOf(U, (M \ {b}) \cup {e})
  BY <1>9, <1>10 DEF IsTableOf
<1>12. U = [T EXCEPT ![j][k].val = v]
  BY <1>2, <1>3, <1>8
<1>. QED  BY <1>1, <1>2, <1>5, <1>9, <1>11, <1>12

(* What the invariant says while no insertion is under way. *)
LEMMA IdleFacts ==
  ASSUME TableInv, arriving = {}
  PROVE  /\ moved = <<>> /\ buckets \in Tables /\ IsTableOf(buckets, map)
         /\ map \in SUBSET Entries /\ IsFiniteSet(map) /\ vals \in 0..MaxVals
         /\ size = Cardinality(map) /\ size \in Nat /\ (size = 0 <=> map = {})
         /\ buckets = <<>> => map = {}
<1>1. /\ moved = <<>> /\ buckets \in Tables /\ IsTableOf(buckets, map \ NodesOf(moved))
      /\ IsFiniteSet(map) /\ size = Cardinality(map) /\ vals \in 0..MaxVals
      /\ map \in SUBSET [key : Keys, val : 1..vals] /\ (buckets = <<>> => map = {})
  BY DEF TableInv, Tables, Entries
<1>2. map \ NodesOf(moved) = map
  BY <1>1, NoTable
<1>3. map \in SUBSET Entries
  <2>1. 1..vals \subseteq 1..MaxVals
    BY <1>1, TableConstants
  <2>. QED  BY <1>1, <2>1 DEF Entries
<1>4. size \in Nat /\ (size = 0 <=> map = {})
  BY <1>1, FS_CardinalityType, FS_EmptySet
<1>. QED  BY <1>1, <1>2, <1>3, <1>4

(* A look-up finds the entry of the key. *)
LEMMA FindFacts ==
  ASSUME TableInv, arriving = {}, NEW key \in Keys
  PROVE  /\ Findnode(key) = 0 <=> \A e \in map : e.key # key
         /\ Findnode(key) # 0 =>
              /\ hashidx(key, Len(buckets)) \in DOMAIN buckets
              /\ Findnode(key) \in DOMAIN Bucket(key)
              /\ Bucket(key)[Findnode(key)] \in map
              /\ Bucket(key)[Findnode(key)].key = key
              /\ hashtbl_find(key) = Bucket(key)[Findnode(key)].val
<1>1. CASE size = 0
  BY <1>1, IdleFacts DEF Findnode
<1>2. CASE size # 0
  <2>1. PICK n \in Nat \ {0} : n = Len(buckets) /\ DOMAIN buckets = 1..n
    <3>1. buckets # <<>> /\ buckets \in Tables
      BY <1>2, IdleFacts
    <3>. QED  BY <3>1, TableFacts
  <2>2. PICK i \in 1..n : i = hashidx(key, n)
    BY <2>1, HashidxFacts
  <2>3. PICK c : c = buckets[i] /\ c = Bucket(key)
    BY <2>1, <2>2 DEF Bucket
  <2>4. OnceEach(c) /\ Range(c) = {e \in map : hashidx(e.key, n) = i}
    BY <2>1, <2>2, <2>3, IdleFacts DEF IsTableOf
  <2>5. c \in Seq(Entries)
    <3>1. buckets \in Tables
      BY IdleFacts
    <3>. QED  BY <2>1, <2>2, <2>3, <3>1, TableFacts
  <2>6. PICK m \in Nat : m = Len(c) /\ DOMAIN c = 1..m
    BY <2>5
  <2>7. PICK K : K = Matches(key)
    OBVIOUS
  <2>8. K = {k \in 1..m : c[k].key = key}
    BY <2>3, <2>6, <2>7 DEF Matches
  <2>9. \A k, l \in K : k = l
    BY <2>4, <2>6, <2>8 DEF OnceEach
  <2>10. CASE K = {}
    <3>1. Findnode(key) = 0
      BY <2>7, <2>10 DEF Findnode
    <3>2. ASSUME NEW e \in map, e.key = key PROVE FALSE
      <4>1. e \in Range(c)
        BY <2>2, <2>4, <3>2
      <4>2. PICK k \in 1..m : c[k] = e
        BY <2>6, <4>1 DEF Range
      <4>. QED  BY <2>8, <2>10, <3>2, <4>2
    <3>. QED  BY <3>1, <3>2
  <2>11. CASE K # {}
    <3>1. PICK k \in K : TRUE
      BY <2>11
    <3>2. k \in 1..m /\ c[k].key = key
      BY <2>8
    <3>3. Findnode(key) = k
      <4>1. Findnode(key) = CHOOSE x \in K : \A y \in K : x <= y
        BY <1>2, <2>7, <2>11 DEF Findnode
      <4>2. \A x \in K : x = k
        BY <2>9
      <4>3. \A y \in K : k <= y
        BY <3>2, <4>2
      <4>. QED  BY <4>1, <4>2, <4>3
    <3>4. c[k] \in Range(c)
      BY <2>6, <3>2 DEF Range
    <3>5. c[k] \in map
      BY <2>4, <3>4
    <3>6. Findnode(key) # 0 /\ Findnode(key) \in DOMAIN c
      BY <2>6, <3>2, <3>3
    <3>7. hashtbl_find(key) = c[k].val
      BY <2>3, <3>3, <3>6 DEF hashtbl_find
    <3>. QED  BY <2>1, <2>2, <2>3, <3>2, <3>3, <3>5, <3>6, <3>7
  <2>. QED  BY <2>10, <2>11
<1>. QED  BY <1>1, <1>2, IdleFacts

LEMMA TableInitInv == TableInit => TableInv
<1>. SUFFICES ASSUME TableInit PROVE TableInv
  OBVIOUS
<1>1. /\ buckets = <<>> /\ moved = <<>> /\ arriving = {} /\ size = 0
      /\ map = {} /\ vals = 0 /\ destroyed = [v \in 1..MaxVals |-> 0]
  BY DEF TableInit
<1>2. IsTableOf(moved, NodesOf(moved)) /\ IsTableOf(buckets, map \ NodesOf(moved)) /\ NodesOf(moved) = {}
  BY <1>1, NoTable
<1>3. IsFiniteSet(map) /\ Cardinality(map) = 0
  BY <1>1, FS_EmptySet
<1>4. destroyed = [v \in 1..MaxVals |-> IF v <= vals /\ v \notin {e.val : e \in map} THEN 1 ELSE 0]
  BY <1>1
<1>5. buckets \in Tables /\ moved \in Tables
  BY <1>1, NoTable
<1>6. vals \in 0..MaxVals
  BY <1>1, TableConstants
<1>. QED  BY <1>1, <1>2, <1>3, <1>4, <1>5, <1>6 DEF TableInv, Tables, Entries

(* An insertion finds buckets, and the chains it will move the nodes to. *)
LEMMA InsertKeeps ==
  ASSUME TableInv, NEW key \in Keys, hashtbl_insert(key)
  PROVE  TableInv'
<1>1. /\ arriving = {} /\ vals < MaxVals /\ arriving' = {key} /\ Findnode(key) = 0
      /\ buckets' = IF buckets = <<>> THEN NoNodes(NBuckets) ELSE buckets
      /\ moved' = IF NeedRehash(buckets') THEN NoNodes(GrowFactor * Len(buckets')) ELSE <<>>
      /\ size' = size /\ map' = map /\ vals' = vals /\ destroyed' = destroyed
  BY DEF hashtbl_insert
<1>2. buckets' \in Tables /\ buckets' # <<>> /\ IsTableOf(buckets', map)
  <2>1. CASE buckets = <<>>
    <3>1. PICK n \in Nat \ {0} : n = NBuckets
      BY TableConstants
    <3>2. buckets' = NoNodes(n) /\ map = {}
      BY <1>1, <2>1, <3>1, IdleFacts
    <3>3. NoNodes(n) \in Tables /\ Len(NoNodes(n)) = n /\ IsTableOf(NoNodes(n), {})
      BY NoNodesFacts
    <3>4. buckets' # <<>>
      BY <3>2, <3>3, TableFacts
    <3>. QED  BY <3>2, <3>3, <3>4
  <2>2. CASE buckets # <<>>
    BY <1>1, <2>2, IdleFacts
  <2>. QED  BY <2>1, <2>2
<1>3. moved' \in Tables /\ NodesOf(moved') = {} /\ IsTableOf(moved', {})
  <2>1. CASE NeedRehash(buckets')
    <3>1. PICK n \in Nat \ {0} : n = GrowFactor * Len(buckets')
      BY <1>2, TableFacts DEF GrowFactor
    <3>2. moved' = NoNodes(n)
      BY <1>1, <2>1, <3>1
    <3>3. NoNodes(n) \in Tables /\ Len(NoNodes(n)) = n /\ IsTableOf(NoNodes(n), {})
      BY NoNodesFacts
    <3>4. NoNodes(n) # <<>>
      BY <3>3, TableFacts
    <3>5. NodesOf(NoNodes(n)) = {}
      BY <3>3, <3>4, NodesFacts
    <3>. QED  BY <3>2, <3>3, <3>5
  <2>2. CASE ~NeedRehash(buckets')
    BY <1>1, <2>2, NoTable
  <2>. QED  BY <2>1, <2>2
<1>4. \A e \in map : e.key \notin {key}
  BY <1>1, FindFacts
<1>5. map \ NodesOf(moved') = map
  BY <1>3
<1>. QED  BY <1>1, <1>2, <1>3, <1>4, <1>5 DEF TableInv, Tables, Entries

(* A node that is moved is an entry of the new chains and no longer of the   *)
(* old ones.                                                                 *)
LEMMA RehashNodeKeeps ==
  ASSUME TableInv, RehashNode
  PROVE  TableInv'
<1>1. PICK i \in DOMAIN buckets :
        /\ moved # <<>> /\ buckets[i] # <<>>
        /\ moved' = [moved EXCEPT ![hashidx(Head(buckets[i]).key, Len(moved))] = <<Head(buckets[i])>> \o @]
        /\ buckets' = [buckets EXCEPT ![i] = Tail(@)]
        /\ UNCHANGED <<arriving, size, threshold, map, vals, destroyed>>
  BY DEF RehashNode
<1>2. PICK P : P = NodesOf(moved)
  OBVIOUS
<1>3. PICK M : M = map \ P
  OBVIOUS
<1>4. /\ buckets \in Tables /\ moved \in Tables /\ P \subseteq map
      /\ IsTableOf(moved, P) /\ IsTableOf(buckets, M)
      /\ map \in SUBSET Entries /\ \A d, e \in map : d.key = e.key => d = e
  <2>1. 1..vals \subseteq 1..MaxVals
    BY TableConstants DEF TableInv
  <2>2. map \in SUBSET Entries
    BY <2>1 DEF TableInv, Entries
  <2>. QED  BY <1>2, <1>3, <2>2 DEF TableInv, Tables, Entries
<1>5. PICK c \in Seq(Entries) : c = buckets[i]
  BY <1>4, TableFacts
<1>6. PICK e : e = Head(c)
  OBVIOUS
<1>7. c # <<>> /\ 1 \in DOMAIN c /\ c[1] = e /\ Tail(c) = RemoveAt(c, 1)
  BY <1>1, <1>5, <1>6, TailIsRemoveAt
<1>8. buckets' = [buckets EXCEPT ![i] = RemoveAt(@, 1)]
  BY <1>1, <1>5, <1>7
<1>9. buckets' \in Tables /\ Len(buckets') = Len(buckets) /\ e \in M /\ IsTableOf(buckets', M \ {e})
  <2>1. LET U == [buckets EXCEPT ![i] = RemoveAt(@, 1)] IN
        /\ U \in Tables /\ Len(U) = Len(buckets) /\ buckets[i][1] \in M
        /\ IsTableOf(U, M \ {buckets[i][1]})
    <3>1. /\ buckets \in Tables /\ M \in SUBSET Entries /\ IsTableOf(buckets, M)
          /\ i \in DOMAIN buckets /\ 1 \in DOMAIN buckets[i]
      BY <1>3, <1>4, <1>5, <1>7
    <3>. QED  BY ONLY <3>1, TableTakes
  <2>. QED  BY <1>5, <1>7, <1>8, <2>1
<1>10. e \in map /\ e \notin P /\ e \in Entries
  BY <1>3, <1>4, <1>9
<1>11. moved' \in Tables /\ Len(moved') = Len(moved) /\ IsTableOf(moved', P \cup {e})
  <2>1. PICK j : j = hashidx(e.key, Len(moved))
    OBVIOUS
  <2>2. moved' = [moved EXCEPT ![j] = <<e>> \o @]
    BY <1>1, <1>5, <1>6, <2>1
  <2>3. \A d \in P : d.key # e.key
    BY <1>4, <1>10
  <2>4. LET U == [moved EXCEPT ![j] = <<e>> \o @] IN
        U \in Tables /\ Len(U) = Len(moved) /\ IsTableOf(U, P \cup {e})
    <3>1. /\ moved \in Tables /\ moved # <<>> /\ P \in SUBSET Entries /\ IsTableOf(moved, P)
          /\ e \in Entries /\ (\A d \in P : d.key # e.key) /\ j = hashidx(e.key, Len(moved))
      BY <1>1, <1>4, <1>10, <2>1, <2>3
    <3>2. \A T \in Tables : \A N \in SUBSET Entries : \A x \in Entries :
            T # <<>> /\ IsTableOf(T, N) /\ (\A d \in N : d.key # x.key) =>
              LET U == [T EXCEPT ![hashidx(x.key, Len(T))] = <<x>> \o @] IN
              U \in Tables /\ Len(U) = Len(T) /\ IsTableOf(U, N \cup {x})
      BY TablePuts
    <3>. QED  BY <3>1, <3>2
  <2>. QED  BY <2>2, <2>4
<1>12. NodesOf(moved') = P \cup {e} /\ moved' # <<>>
  <2>1. moved' # <<>>
    <3>1. Len(moved) # 0
      BY <1>1, <1>4, TableFacts
    <3>. QED  BY <1>11, <3>1, TableFacts
  <2>2. P \cup {e} \in SUBSET Entries
    BY <1>4, <1>10
  <2>. QED  BY <1>11, <2>1, <2>2, NodesFacts
<1>13. map \ NodesOf(moved') = M \ {e} /\ NodesOf(moved') \subseteq map
  BY <1>3, <1>4, <1>10, <1>12
<1>14. buckets # <<>> /\ buckets' # <<>>
  <2>1. Len(buckets) # 0
    BY <1>4, TableFacts
  <2>. QED  BY <1>4, <1>9, <2>1, TableFacts
<1>15. arriving # {}
  BY <1>1 DEF TableInv
<1>. QED  BY <1>1, <1>9, <1>11, <1>12, <1>13, <1>14, <1>15 DEF TableInv, Tables, Entries

(* When the old chains are empty every entry has been moved. *)
LEMMA RehashEndsKeeps ==
  ASSUME TableInv, RehashEnds
  PROVE  TableInv'
<1>1. /\ moved # <<>> /\ (\A i \in DOMAIN buckets : buckets[i] = <<>>)
      /\ buckets' = moved /\ moved' = <<>>
      /\ UNCHANGED <<arriving, size, threshold, map, vals, destroyed>>
  BY DEF RehashEnds
<1>2. /\ arriving # {} /\ buckets # <<>> /\ buckets \in Tables
      /\ NodesOf(moved) \subseteq map /\ IsTableOf(moved, NodesOf(moved))
      /\ IsTableOf(buckets, map \ NodesOf(moved)) /\ map \in SUBSET [key : Keys, val : 1..vals]
  BY <1>1 DEF TableInv, Tables, Entries
<1>3. PICK n \in Nat \ {0} : n = Len(buckets) /\ DOMAIN buckets = 1..n
  BY <1>2, TableFacts
<1>4. NodesOf(moved) = map
  <2>1. ASSUME NEW e \in map \ NodesOf(moved) PROVE FALSE
    <3>1. hashidx(e.key, n) \in 1..n
      BY <1>2, HashidxFacts
    <3>2. e \in Range(buckets[hashidx(e.key, n)])
      BY <1>2, <1>3, <3>1 DEF IsTableOf
    <3>3. Range(<<>>) = {}
      BY DEF Range
    <3>. QED  BY <1>1, <1>3, <3>1, <3>2, <3>3
  <2>. QED  BY <1>2, <2>1
<1>5. /\ NodesOf(moved') = {} /\ map \ NodesOf(moved') = map /\ moved' \in Tables
      /\ IsTableOf(moved', NodesOf(moved')) /\ IsTableOf(buckets', map)
  BY <1>1, <1>2, <1>4, NoTable
<1>. QED  BY <1>1, <1>2, <1>5 DEF TableInv, Tables, Entries

(* The node goes into the buckets, and the count grows with it. *)
LEMMA InsertEndsKeeps ==
  ASSUME TableInv, InsertEnds
  PROVE  TableInv'
<1>1. PICK key \in arriving :
        /\ moved = <<>>
        /\ buckets' = [buckets EXCEPT ![hashidx(key, Len(buckets))] = <<[key |-> key, val |-> vals + 1]>> \o @]
        /\ map' = map \cup {[key |-> key, val |-> vals + 1]}
        /\ size' = size + 1 /\ vals' = vals + 1 /\ arriving' = {}
        /\ UNCHANGED <<moved, threshold, destroyed>>
  BY DEF InsertEnds
<1>2. PICK new : new = [key |-> key, val |-> vals + 1]
  OBVIOUS
<1>3. /\ buckets \in Tables /\ buckets # <<>> /\ IsTableOf(buckets, map \ NodesOf(moved))
      /\ map \in SUBSET [key : Keys, val : 1..vals] /\ IsFiniteSet(map)
      /\ vals \in 0..MaxVals /\ vals < MaxVals /\ key \in Keys /\ size = Cardinality(map)
      /\ \A e \in map : e.key \notin arriving
      /\ \A d, e \in map : d.key = e.key \/ d.val = e.val => d = e
      /\ destroyed = [v \in 1..MaxVals |-> IF v <= vals /\ v \notin {e.val : e \in map} THEN 1 ELSE 0]
  BY <1>1 DEF TableInv, Tables, Entries
<1>4. vals \in Nat /\ vals + 1 \in 1..MaxVals /\ MaxVals \in Nat
  BY <1>3, TableConstants
<1>5. map \ NodesOf(moved) = map /\ NodesOf(moved) = {} /\ IsTableOf(moved, NodesOf(moved)) /\ moved \in Tables
  BY <1>1, NoTable
<1>6. new \in [key : Keys, val : 1..(vals + 1)] /\ new \in Entries /\ new.key = key /\ new.val = vals + 1
  BY <1>2, <1>3, <1>4 DEF Entries
<1>7. \A e \in map : e.key # key /\ e.val \in 1..vals /\ e \in Entries /\ e \in [key : Keys, val : 1..(vals + 1)]
  BY <1>3, <1>4 DEF Entries
<1>8. buckets' \in Tables /\ Len(buckets') = Len(buckets) /\ IsTableOf(buckets', map \cup {new})
  <2>1. buckets' = [buckets EXCEPT ![hashidx(new.key, Len(buckets))] = <<new>> \o @]
    BY <1>1, <1>2, <1>6
  <2>2. map \in SUBSET Entries /\ (\A d \in map : d.key # new.key) /\ IsTableOf(buckets, map)
    BY <1>3, <1>5, <1>6, <1>7
  <2>3. \A T \in Tables : \A N \in SUBSET Entries : \A x \in Entries :
          T # <<>> /\ IsTableOf(T, N) /\ (\A d \in N : d.key # x.key) =>
            LET U == [T EXCEPT ![hashidx(x.key, Len(T))] = <<x>> \o @] IN
            U \in Tables /\ Len(U) = Len(T) /\ IsTableOf(U, N \cup {x})
    BY TablePuts
  <2>. QED  BY <1>3, <1>6, <2>1, <2>2, <2>3
<1>9. map' = map \cup {new} /\ map' \in SUBSET [key : Keys, val : 1..vals']
  BY <1>1, <1>2, <1>6, <1>7
<1>10. IsFiniteSet(map') /\ size' = Cardinality(map')
  <2>1. new \notin map
    BY <1>6, <1>7
  <2>2. IsFiniteSet(map \cup {new}) /\ Cardinality(map \cup {new}) = Cardinality(map) + 1
    BY <1>3, <2>1, FS_AddElement
  <2>. QED  BY <1>1, <1>3, <1>9, <2>2
<1>11. \A d, e \in map' : d.key = e.key \/ d.val = e.val => d = e
  <2>1. \A e \in map : e.val # vals + 1
    BY <1>4, <1>7
  <2>. QED  BY <1>3, <1>6, <1>7, <1>9, <2>1
<1>12. destroyed' = [v \in 1..MaxVals |-> IF v <= vals' /\ v \notin {e.val : e \in map'} THEN 1 ELSE 0]
  <2>1. ASSUME NEW v \in 1..MaxVals
        PROVE  (v <= vals /\ v \notin {e.val : e \in map}) <=> (v <= vals' /\ v \notin {e.val : e \in map'})
    <3>1. v <= vals' <=> v <= vals \/ v = vals + 1
      BY <1>1, <1>4
    <3>2. v \in {e.val : e \in map'} <=> v \in {e.val : e \in map} \/ v = vals + 1
      BY <1>6, <1>9
    <3>3. v = vals + 1 => ~(v <= vals)
      BY <1>4
    <3>. QED  BY <3>1, <3>2, <3>3
  <2>2. [v \in 1..MaxVals |-> IF v <= vals /\ v \notin {e.val : e \in map} THEN 1 ELSE 0]
          = [v \in 1..MaxVals |-> IF v <= vals' /\ v \notin {e.val : e \in map'} THEN 1 ELSE 0]
    BY <2>1
  <2>. QED  BY <1>1, <1>3, <2>2
<1>13. buckets' # <<>>
  <2>1. Len(buckets) # 0
    BY <1>3, TableFacts
  <2>. QED  BY <1>8, <2>1, TableFacts
<1>14. moved' = <<>> /\ NodesOf(moved') = {} /\ IsTableOf(moved', NodesOf(moved')) /\ moved' \in Tables
  BY <1>1, <1>5
<1>15. vals' \in 0..MaxVals
  BY <1>1, <1>4
<1>16. map' \ NodesOf(moved') = map \cup {new}
  BY <1>9, <1>14
<1>. QED  BY <1>1, <1>8, <1>9, <1>10, <1>11, <1>12, <1>13, <1>14, <1>15, <1>16 DEF TableInv, Tables, Entries

(* What a call changes that finds its key, but for the value. *)
LEMMA FoundFacts ==
  ASSUME TableInv, arriving = {}, NEW key \in Keys, Findnode(key) # 0
  PROVE  \E old \in map, j \in DOMAIN buckets, k \in Nat :
           /\ j = hashidx(key, Len(buckets)) /\ k = Findnode(key)
           /\ k \in DOMAIN buckets[j] /\ buckets[j][k] = old
           /\ old.key = key /\ hashtbl_find(key) = old.val
           /\ old.val \in 1..vals
           /\ {e \in map : e.key # key} = map \ {old}
           /\ \A e \in map : e.val = old.val => e = old
<1>1. PICK j \in DOMAIN buckets : j = hashidx(key, Len(buckets))
  BY FindFacts
<1>2. Bucket(key) = buckets[j]
  BY <1>1 DEF Bucket
<1>3. PICK k : k = Findnode(key) /\ k \in DOMAIN buckets[j]
  BY <1>2, FindFacts
<1>4. k \in Nat
  <2>1. buckets[j] \in Seq(Entries)
    BY IdleFacts, TableFacts
  <2>. QED  BY <1>3, <2>1
<1>5. PICK old \in map : old = buckets[j][k] /\ old.key = key /\ hashtbl_find(key) = old.val
  BY <1>2, <1>3, FindFacts
<1>6. (\A d, e \in map : d.key = e.key \/ d.val = e.val => d = e) /\ old.val \in 1..vals
  BY DEF TableInv
<1>. QED  BY <1>1, <1>3, <1>4, <1>5, <1>6

LEMMA UpdateKeeps ==
  ASSUME TableInv, NEW key \in Keys, hashtbl_update(key)
  PROVE  TableInv'
<1>1. /\ vals < MaxVals /\ arriving = {} /\ Findnode(key) # 0
      /\ buckets' = [buckets EXCEPT ![hashidx(key, Len(buckets))][Findnode(key)].val = vals + 1]
      /\ vals' = vals + 1
      /\ destroyed' = [destroyed EXCEPT ![hashtbl_find(key)] = @ + 1]
      /\ map' = {e \in map : e.key # key} \cup {[key |-> key, val |-> vals + 1]}
      /\ UNCHANGED <<moved, arriving, size, threshold>>
  BY DEF hashtbl_update
<1>2. PICK old \in map, j \in DOMAIN buckets, k \in Nat :
        /\ j = hashidx(key, Len(buckets)) /\ k = Findnode(key)
        /\ k \in DOMAIN buckets[j] /\ buckets[j][k] = old
        /\ old.key = key /\ hashtbl_find(key) = old.val
        /\ old.val \in 1..vals
        /\ {e \in map : e.key # key} = map \ {old}
        /\ \A e \in map : e.val = old.val => e = old
  BY <1>1, FoundFacts
<1>3. PICK new : new = [key |-> key, val |-> vals + 1]
  OBVIOUS
<1>4. /\ moved = <<>> /\ buckets \in Tables /\ IsTableOf(buckets, map)
      /\ map \in SUBSET Entries /\ IsFiniteSet(map) /\ size = Cardinality(map) /\ size \in Nat
  BY <1>1, IdleFacts
<1>5. /\ map \in SUBSET [key : Keys, val : 1..vals] /\ vals \in 0..MaxVals
      /\ \A d, e \in map : d.key = e.key \/ d.val = e.val => d = e
      /\ destroyed = [v \in 1..MaxVals |-> IF v <= vals /\ v \notin {e.val : e \in map} THEN 1 ELSE 0]
  BY DEF TableInv
<1>6. vals \in Nat /\ vals + 1 \in 1..MaxVals /\ MaxVals \in Nat
  BY <1>1, <1>5, TableConstants
<1>7. new \in [key : Keys, val : 1..(vals + 1)] /\ new.key = key /\ new.val = vals + 1
  BY <1>3, <1>6
<1>8. map' = (map \ {old}) \cup {new}
  BY <1>1, <1>2, <1>3
<1>9. \A e \in map : e.val \in 1..vals /\ e.val # vals + 1 /\ e \in [key : Keys, val : 1..(vals + 1)]
  BY <1>5, <1>6
<1>10. buckets' \in Tables /\ Len(buckets') = Len(buckets) /\ IsTableOf(buckets', map')
  <2>1. buckets' = [buckets EXCEPT ![j][k].val = vals + 1]
    BY <1>1, <1>2
  <2>3. LET U == [buckets EXCEPT ![j][k].val = vals + 1]
            e == [key |-> buckets[j][k].key, val |-> vals + 1]
        IN U \in Tables /\ Len(U) = Len(buckets) /\ IsTableOf(U, (map \ {buckets[j][k]}) \cup {e})
    <3>1. /\ buckets \in Tables /\ map \in SUBSET Entries /\ IsTableOf(buckets, map)
          /\ j \in DOMAIN buckets /\ k \in DOMAIN buckets[j] /\ vals + 1 \in 1..MaxVals
      BY <1>2, <1>4, <1>6
    <3>. QED  BY ONLY <3>1, TableSets
  <2>4. [key |-> buckets[j][k].key, val |-> vals + 1] = new /\ buckets[j][k] = old
    BY <1>2, <1>3
  <2>. QED  BY <1>8, <2>1, <2>3, <2>4
<1>11. map' \in SUBSET [key : Keys, val : 1..vals']
  BY <1>1, <1>7, <1>8, <1>9
<1>12. IsFiniteSet(map') /\ size' = Cardinality(map')
  <2>1. PICK N : N = map \ {old}
    OBVIOUS
  <2>2. IsFiniteSet(N) /\ Cardinality(N) = size - 1
    BY <1>4, <2>1, FS_RemoveElement
  <2>3. new \notin N
    BY <1>7, <1>9, <2>1
  <2>4. IsFiniteSet(N \cup {new}) /\ Cardinality(N \cup {new}) = Cardinality(N) + 1
    BY <2>2, <2>3, FS_AddElement
  <2>5. map' = N \cup {new} /\ size' = size
    BY <1>1, <1>8, <2>1
  <2>. QED  BY <1>4, <2>2, <2>4, <2>5
<1>13. \A d, e \in map' : d.key = e.key \/ d.val = e.val => d = e
  <2>1. \A e \in map \ {old} : e.key # key /\ e.val # vals + 1
    BY <1>2, <1>5, <1>9
  <2>. QED  BY <1>5, <1>7, <1>8, <2>1
<1>14. destroyed' = [v \in 1..MaxVals |-> IF v <= vals' /\ v \notin {e.val : e \in map'} THEN 1 ELSE 0]
  <2>1. destroyed' = [destroyed EXCEPT ![old.val] = @ + 1]
    BY <1>1, <1>2
  <2>2. ASSUME NEW v \in 1..MaxVals
        PROVE  destroyed'[v] = IF v <= vals' /\ v \notin {e.val : e \in map'} THEN 1 ELSE 0
    <3>1. v <= vals' <=> v <= vals \/ v = vals + 1
      BY <1>1, <1>6
    <3>2. v \in {e.val : e \in map'} <=> (v \in {e.val : e \in map} /\ v # old.val) \/ v = vals + 1
      BY <1>2, <1>7, <1>8
    <3>3. v = vals + 1 => ~(v <= vals)
      BY <1>6
    <3>4. old.val <= vals /\ old.val \in {e.val : e \in map} /\ old.val # vals + 1
      BY <1>2, <1>6
    <3>5. destroyed[v] = IF v <= vals /\ v \notin {e.val : e \in map} THEN 1 ELSE 0
      BY <1>5
    <3>6. destroyed'[v] = IF v = old.val THEN destroyed[v] + 1 ELSE destroyed[v]
      BY <1>5, <2>1
    <3>. QED  BY <3>1, <3>2, <3>3, <3>4, <3>5, <3>6
  <2>3. destroyed' = [v \in 1..MaxVals |-> destroyed'[v]]
    BY <1>5, <2>1
  <2>. QED  BY <2>2, <2>3
<1>15. buckets' # <<>>
  <2>1. Len(buckets) # 0
    BY <1>2, <1>4, TableFacts
  <2>. QED  BY <1>10, <2>1, TableFacts
<1>16. /\ moved' = <<>> /\ NodesOf(moved') = {} /\ IsTableOf(moved', NodesOf(moved')) /\ moved' \in Tables
       /\ map' \ NodesOf(moved') = map'
  BY <1>1, <1>4, NoTable
<1>17. vals' \in 0..MaxVals
  BY <1>1, <1>6
<1>. QED  BY <1>1, <1>10, <1>11, <1>12, <1>13, <1>14, <1>15, <1>16, <1>17 DEF TableInv, Tables, Entries

LEMMA RemoveKeyKeeps ==
  ASSUME TableInv, NEW key \in Keys, hashtbl_remove(key)
  PROVE  TableInv'
<1>1. /\ arriving = {} /\ Findnode(key) # 0
      /\ buckets' = [buckets EXCEPT ![hashidx(key, Len(buckets))] = RemoveAt(@, Findnode(key))]
      /\ size' = size - 1
      /\ destroyed' = [destroyed EXCEPT ![hashtbl_find(key)] = @ + 1]
      /\ map' = {e \in map : e.key # key}
      /\ UNCHANGED <<moved, arriving, threshold, vals>>
  BY DEF hashtbl_remove
<1>2. PICK old \in map, j \in DOMAIN buckets, k \in Nat :
        /\ j = hashidx(key, Len(buckets)) /\ k = Findnode(key)
        /\ k \in DOMAIN buckets[j] /\ buckets[j][k] = old
        /\ old.key = key /\ hashtbl_find(key) = old.val
        /\ old.val \in 1..vals
        /\ {e \in map : e.key # key} = map \ {old}
        /\ \A e \in map : e.val = old.val => e = old
  BY <1>1, FoundFacts
<1>4. /\ moved = <<>> /\ buckets \in Tables /\ IsTableOf(buckets, map)
      /\ map \in SUBSET Entries /\ IsFiniteSet(map) /\ size = Cardinality(map) /\ size \in Nat
  BY <1>1, IdleFacts
<1>5. /\ map \in SUBSET [key : Keys, val : 1..vals] /\ vals \in 0..MaxVals
      /\ \A d, e \in map : d.key = e.key \/ d.val = e.val => d = e
      /\ destroyed = [v \in 1..MaxVals |-> IF v <= vals /\ v \notin {e.val : e \in map} THEN 1 ELSE 0]
  BY DEF TableInv
<1>8. map' = map \ {old}
  BY <1>1, <1>2
<1>10. buckets' \in Tables /\ Len(buckets') = Len(buckets) /\ IsTableOf(buckets', map')
  <2>1. buckets' = [buckets EXCEPT ![j] = RemoveAt(@, k)]
    BY <1>1, <1>2
  <2>3. LET U == [buckets EXCEPT ![j] = RemoveAt(@, k)] IN
        U \in Tables /\ Len(U) = Len(buckets) /\ IsTableOf(U, map \ {buckets[j][k]})
    <3>1. /\ buckets \in Tables /\ map \in SUBSET Entries /\ IsTableOf(buckets, map)
          /\ j \in DOMAIN buckets /\ k \in DOMAIN buckets[j]
      BY <1>2, <1>4
    <3>. QED  BY ONLY <3>1, TableTakes
  <2>. QED  BY <1>2, <1>8, <2>1, <2>3
<1>11. map' \in SUBSET [key : Keys, val : 1..vals']
  BY <1>1, <1>5, <1>8
<1>12. IsFiniteSet(map') /\ size' = Cardinality(map')
  BY <1>1, <1>4, <1>8, FS_RemoveElement, ZenonT(40)
<1>13. \A d, e \in map' : d.key = e.key \/ d.val = e.val => d = e
  BY <1>5, <1>8
<1>14. destroyed' = [v \in 1..MaxVals |-> IF v <= vals' /\ v \notin {e.val : e \in map'} THEN 1 ELSE 0]
  <2>1. destroyed' = [destroyed EXCEPT ![old.val] = @ + 1]
    BY <1>1, <1>2
  <2>2. ASSUME NEW v \in 1..MaxVals
        PROVE  destroyed'[v] = IF v <= vals' /\ v \notin {e.val : e \in map'} THEN 1 ELSE 0
    <3>1. vals' = vals
      BY <1>1
    <3>2. v \in {e.val : e \in map'} <=> v \in {e.val : e \in map} /\ v # old.val
      BY <1>2, <1>8
    <3>4. old.val <= vals /\ old.val \in {e.val : e \in map}
      BY <1>2, <1>5
    <3>5. destroyed[v] = IF v <= vals /\ v \notin {e.val : e \in map} THEN 1 ELSE 0
      BY <1>5
    <3>6. destroyed'[v] = IF v = old.val THEN destroyed[v] + 1 ELSE destroyed[v]
      BY <1>5, <2>1
    <3>. QED  BY <3>1, <3>2, <3>4, <3>5, <3>6
  <2>3. destroyed' = [v \in 1..MaxVals |-> destroyed'[v]]
    BY <1>5, <2>1
  <2>. QED  BY <2>2, <2>3
<1>15. buckets' # <<>>
  <2>1. Len(buckets) # 0
    BY <1>2, <1>4, TableFacts
  <2>. QED  BY <1>10, <2>1, TableFacts
<1>16. /\ moved' = <<>> /\ NodesOf(moved') = {} /\ IsTableOf(moved', NodesOf(moved')) /\ moved' \in Tables
       /\ map' \ NodesOf(moved') = map'
  BY <1>1, <1>4, NoTable
<1>. QED  BY <1>1, <1>5, <1>10, <1>11, <1>12, <1>13, <1>14, <1>15, <1>16 DEF TableInv, Tables, Entries

(* Every node is freed, and with it the one value it holds. *)
LEMMA ClearTableKeeps ==
  ASSUME TableInv, hashtbl_clear
  PROVE  TableInv'
<1>1. /\ arriving = {} /\ size > 0
      /\ buckets' = NoNodes(Len(buckets)) /\ size' = 0 /\ map' = {}
      /\ destroyed' = [v \in 1..MaxVals |->
                        destroyed[v] + Cardinality({p \in Places(buckets) : NodeAt(buckets, p).val = v})]
      /\ UNCHANGED <<moved, arriving, threshold, vals>>
  BY DEF hashtbl_clear
<1>2. /\ moved = <<>> /\ buckets \in Tables /\ IsTableOf(buckets, map) /\ vals \in 0..MaxVals
      /\ map \in SUBSET Entries /\ size = Cardinality(map) /\ (size = 0 <=> map = {})
      /\ (buckets = <<>> => map = {})
  BY <1>1, IdleFacts
<1>3. /\ map \in SUBSET [key : Keys, val : 1..vals]
      /\ \A d, e \in map : d.key = e.key \/ d.val = e.val => d = e
      /\ destroyed = [v \in 1..MaxVals |-> IF v <= vals /\ v \notin {e.val : e \in map} THEN 1 ELSE 0]
  BY DEF TableInv
<1>4. buckets # <<>>
  BY <1>1, <1>2
<1>5. PICK n \in Nat : n = Len(buckets)
  BY <1>2, TableFacts
<1>6. buckets' \in Tables /\ IsTableOf(buckets', {})
  BY <1>1, <1>5, NoNodesFacts
<1>7. /\ NodesOf(buckets) = map
      /\ \A p, q \in Places(buckets) : NodeAt(buckets, p).key = NodeAt(buckets, q).key => p = q
      /\ \A p \in Places(buckets) : NodeAt(buckets, p) \in map
  BY <1>2, <1>4, NodesFacts
<1>8. ASSUME NEW v \in 1..MaxVals
      PROVE  destroyed'[v] = IF v <= vals' /\ v \notin {e.val : e \in map'} THEN 1 ELSE 0
  <2>1. PICK Q : Q = {p \in Places(buckets) : NodeAt(buckets, p).val = v}
    OBVIOUS
  <2>2. destroyed'[v] = destroyed[v] + Cardinality(Q)
    BY <1>1, <2>1
  <2>3. CASE v \in {e.val : e \in map}
    <3>1. PICK e \in map : e.val = v
      BY <2>3
    <3>2. PICK p \in Places(buckets) : NodeAt(buckets, p) = e
      BY <1>7 DEF NodesOf
    <3>3. ASSUME NEW q \in Q PROVE q = p
      <4>1. q \in Places(buckets) /\ NodeAt(buckets, q).val = e.val /\ NodeAt(buckets, q) \in map
        BY <1>7, <2>1, <3>1
      <4>2. NodeAt(buckets, q) = e
        BY <1>3, <4>1
      <4>. QED  BY <1>7, <3>2, <4>1, <4>2
    <3>4. Q = {p}
      BY <2>1, <3>1, <3>2, <3>3
    <3>5. Cardinality(Q) = 1
      BY <3>4, FS_Singleton
    <3>6. destroyed[v] = 0 /\ v <= vals /\ {x.val : x \in map'} = {}
      BY <1>1, <1>2, <1>3, <2>3
    <3>. QED  BY <1>1, <2>2, <3>5, <3>6
  <2>4. CASE v \notin {e.val : e \in map}
    <3>1. Q = {}
      BY <1>7, <2>1, <2>4
    <3>2. Cardinality(Q) = 0
      BY <3>1, FS_EmptySet
    <3>3. destroyed[v] = (IF v <= vals THEN 1 ELSE 0) /\ {x.val : x \in map'} = {}
      BY <1>1, <1>3, <2>4
    <3>. QED  BY <1>1, <2>2, <3>2, <3>3
  <2>. QED  BY <2>3, <2>4
<1>9. destroyed' = [v \in 1..MaxVals |-> IF v <= vals' /\ v \notin {e.val : e \in map'} THEN 1 ELSE 0]
  <2>1. destroyed' = [v \in 1..MaxVals |-> destroyed'[v]]
    BY <1>1
  <2>. QED  BY <1>8, <2>1
<1>10. IsFiniteSet(map') /\ size' = Cardinality(map')
  BY <1>1, FS_EmptySet
<1>11. /\ moved' = <<>> /\ NodesOf(moved') = {} /\ IsTableOf(moved', NodesOf(moved')) /\ moved' \in Tables
       /\ map' \ NodesOf(moved') = {} /\ map' = {} /\ arriving' = {} /\ vals' = vals
  BY <1>1, <1>2, NoTable
<1>. QED  BY <1>2, <1>6, <1>9, <1>10, <1>11 DEF TableInv, Tables, Entries

(* For every set of keys, hash function and sequence of calls the chains     *)
(* hold the entries, each in the chain of its hash, those a rehash has moved *)
(* in the new ones, and a value was released once if it is not stored        *)
(* (collection/hashtbl.c, set.c).                                            *)
THEOREM TableInvariant == TableSpec => []TableInv
<1>1. TableInv /\ [TableNext]_tableVars => TableInv'
  <2>. SUFFICES ASSUME TableInv, [TableNext]_tableVars PROVE TableInv'
    OBVIOUS
  <2>1. CASE UNCHANGED tableVars
    BY <2>1 DEF tableVars, TableInv, NodesOf, Places, NodeAt, IsTableOf, OnceEach
  <2>2. ASSUME NEW key \in Keys, hashtbl_insert(key) PROVE TableInv'
    BY <2>2, InsertKeeps
  <2>3. ASSUME NEW key \in Keys, hashtbl_update(key) PROVE TableInv'
    BY <2>3, UpdateKeeps
  <2>4. ASSUME NEW key \in Keys, hashtbl_remove(key) PROVE TableInv'
    BY <2>4, RemoveKeyKeeps
  <2>5. ASSUME NEW key \in Keys, set_insert(key) PROVE TableInv'
    BY <2>1, <2>2, <2>5 DEF set_insert
  <2>6. ASSUME NEW key \in Keys, set_remove(key) PROVE TableInv'
    BY <2>1, <2>4, <2>6 DEF set_remove
  <2>7. ASSUME NEW t \in Thresholds, hashtbl_setthreshold(t) PROVE TableInv'
    BY <2>7 DEF hashtbl_setthreshold, TableInv, NodesOf, Places, NodeAt, IsTableOf, OnceEach
  <2>. QED  BY <2>1, <2>2, <2>3, <2>4, <2>5, <2>6, <2>7, RehashNodeKeeps, RehashEndsKeeps,
               InsertEndsKeeps, ClearTableKeeps DEF TableNext
<1>. QED  BY <1>1, TableInitInv, PTL DEF TableSpec

(* At any time the nodes are the entries, and between two calls a look-up    *)
(* finds what was stored last.                                               *)
LEMMA TableInvSuffices ==
  ASSUME TableInv
  PROVE  TableIsMap
<1>1. PICK P : P = NodesOf(moved)
  OBVIOUS
<1>2. PICK M : M = map \ P
  OBVIOUS
<1>3. /\ buckets \in Tables /\ moved \in Tables /\ P \subseteq map
      /\ IsTableOf(moved, P) /\ IsTableOf(buckets, M) /\ IsFiniteSet(map) /\ size = Cardinality(map)
      /\ (buckets = <<>> => map = {})
      /\ \A d, e \in map : d.key = e.key \/ d.val = e.val => d = e
      /\ destroyed = [v \in 1..MaxVals |-> IF v <= vals /\ v \notin {e.val : e \in map} THEN 1 ELSE 0]
  BY <1>1, <1>2 DEF TableInv, Tables, Entries
<1>4. M \in SUBSET Entries /\ P \in SUBSET Entries /\ IsFiniteSet(M) /\ IsFiniteSet(P)
  <2>1. 1..vals \subseteq 1..MaxVals
    BY TableConstants DEF TableInv
  <2>2. map \in SUBSET Entries
    BY <2>1 DEF TableInv, Entries
  <2>. QED  BY <1>2, <1>3, <2>2, FS_Subset
<1>5. NodesOf(buckets) = M /\ Cardinality(Places(buckets)) = Cardinality(M)
  <2>1. CASE buckets = <<>>
    <3>1. M = {}
      BY <1>2, <1>3, <2>1
    <3>. QED  BY <2>1, <3>1, NoTable
  <2>2. CASE buckets # <<>>
    BY <1>3, <1>4, <2>2, NodesFacts, PlacesAreEntries
  <2>. QED  BY <2>1, <2>2
<1>6. Cardinality(Places(moved)) = Cardinality(P)
  <2>1. CASE moved = <<>>
    BY <1>1, <2>1, NoTable
  <2>2. CASE moved # <<>>
    BY <1>3, <1>4, <2>2, PlacesAreEntries
  <2>. QED  BY <2>1, <2>2
<1>7. Cardinality(map) = Cardinality(M) + Cardinality(P)
  <2>1. M \cap P = {} /\ M \cup P = map
    BY <1>2, <1>3
  <2>2. Cardinality(M \cup P) = Cardinality(M) + Cardinality(P) - Cardinality(M \cap P)
    BY <1>4, FS_Union
  <2>3. PICK m \in Nat, p \in Nat : m = Cardinality(M) /\ p = Cardinality(P)
    BY <1>4, FS_CardinalityType
  <2>4. PICK r : r = Cardinality(M \cap P) /\ r = 0
    BY <2>1, FS_EmptySet
  <2>5. Cardinality(map) = m + p - r
    BY <2>1, <2>2, <2>3, <2>4
  <2>6. m + p - r = m + p
    BY <2>4
  <2>. QED  BY <2>3, <2>5, <2>6
<1>8. ASSUME arriving = {}, NEW key \in Keys
      PROVE  LET found == {e \in map : e.key = key} IN
             IF found = {} THEN Findnode(key) = 0 ELSE {hashtbl_find(key)} = {e.val : e \in found}
  <2>1. CASE Findnode(key) = 0
    <3>1. {e \in map : e.key = key} = {}
      BY <1>8, <2>1, FindFacts
    <3>. QED  BY <2>1, <3>1
  <2>2. CASE Findnode(key) # 0
    <3>1. PICK old \in map : old.key = key /\ hashtbl_find(key) = old.val
      BY <1>8, <2>2, FindFacts
    <3>2. {e \in map : e.key = key} = {old}
      BY <1>3, <3>1
    <3>. QED  BY <3>1, <3>2
  <2>. QED  BY <2>1, <2>2
<1>9. NodesOf(buckets) \cup NodesOf(moved) = map
  BY <1>1, <1>2, <1>3, <1>5
<1>. QED  BY <1>3, <1>5, <1>6, <1>7, <1>8, <1>9 DEF TableIsMap

(* The table is a map, whatever the thresholds, and no value is lost or      *)
(* released twice.                                                           *)
THEOREM TablesAreMaps == TableSpec => []TableIsMap
<1>1. TableInv => TableIsMap
  BY TableInvSuffices
<1>. QED  BY <1>1, TableInvariant, PTL
=============================================================================
