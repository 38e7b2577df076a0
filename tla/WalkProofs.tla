----------------------------- MODULE WalkProofs -----------------------------
(***************************************************************************)
(* The two walks: over the commits of a history, and over the directories  *)
(* of the references.                                                      *)
(*                                                                         *)
(* For every set of histories: the walk yields each commit once, yields    *)
(* exactly the commits reachable from its root, and yields them in order   *)
(* of time and children first as far as the times agree with the history.  *)
(* The argument for the set is that visited is closed under parents but    *)
(* for the commits still in the queue; for the order, that every commit    *)
(* still to come is held back by one in the queue that is at least as new. *)
(*                                                                         *)
(* For every set of references and temporaries, and every sequence of      *)
(* changes to them: a listing is faithful.  ListInv is inductive; there is *)
(* one lemma for each action, ending in *Step.  That the names can be put  *)
(* in order follows from counting those before each.                       *)
(***************************************************************************)
EXTENDS Revwalk, RefList, SequenceTheorems, FiniteSetTheorems, WellFoundedInduction,
        TLAPS

(* A walker is blank, or holds part of the walk from its root. *)
WalkInv ==
  /\ visited = {} => Queued = {}
  /\ visited # {} =>
       /\ root \in visited
       /\ Queued \subseteq visited
       /\ Emitted \subseteq visited
       /\ visited \subseteq Reachable
       /\ \A c \in Emitted : ParentsOf(c) \subseteq visited
       /\ ~failed => visited \subseteq Queued \cup Emitted

(* What has been yielded is not older than what is in the queue. *)
QueueIsOlder ==
  NoSkew => \A c \in Emitted : \A d \in Queued : hist.time[c] >= hist.time[d]

Inv ==
  /\ TypeOK
  /\ EachOnce
  /\ WalkInv
  /\ WalkIsExact
  /\ QueueIsOlder
  /\ NewestFirst
  /\ ChildrenFirst

----------------------------------------------------------------------------
(* The history. *)

LEMMA HistFacts ==
  ASSUME TypeOK
  PROVE  /\ \A c \in Commits : hist.parents[c] \in Seq(Commits)
         /\ \A c \in Commits : hist.time[c] \in Int
         /\ hist.stored \subseteq Commits
BY HistoriesAssumption DEF TypeOK, History

LEMMA FollowedFacts ==
  ASSUME TypeOK, NEW c \in Commits
  PROVE  /\ Followed(c) \in Seq(Commits)
         /\ \A i \in 1..Len(Followed(c)) : Followed(c)[i] \in ParentsOf(c)
         /\ \A p \in ParentsOf(c) : \E i \in 1..Len(Followed(c)) : p = Followed(c)[i]
         /\ ParentsOf(c) \subseteq Commits
<1>. DEFINE ps == hist.parents[c]
<1>1. ps \in Seq(Commits) /\ Len(ps) \in Nat /\ \A i \in 1..Len(ps) : ps[i] \in Commits
  BY HistFacts
<1>2. mode \in {"all", "first"}
  BY DEF TypeOK
<1>3. Followed(c) = IF mode = "first" /\ ps # <<>> THEN <<Head(ps)>> ELSE ps
  BY DEF Followed
<1>4. ParentsOf(c) = {ps[i] : i \in IF mode = "all" THEN 1..Len(ps) ELSE {1} \cap 1..Len(ps)}
  BY DEF ParentsOf
<1>. HIDE DEF ps
<1>5. CASE mode = "first" /\ ps # <<>>
  <2>1. Len(ps) >= 1 /\ Head(ps) = ps[1]
    BY <1>1, <1>5, EmptySeq
  <2>2. Followed(c) = <<ps[1]>>
    BY <1>3, <1>5, <2>1
  <2>3. ParentsOf(c) = {ps[1]}
    BY <1>1, <1>4, <1>5, <2>1
  <2>. QED  BY <1>1, <2>1, <2>2, <2>3
<1>6. CASE mode = "first" /\ ps = <<>>
  <2>1. Followed(c) = ps /\ Len(ps) = 0 /\ ParentsOf(c) = {}
    BY <1>3, <1>4, <1>6
  <2>. QED  BY <1>1, <2>1
<1>7. CASE mode = "all"
  <2>1. Followed(c) = ps /\ ParentsOf(c) = {ps[i] : i \in 1..Len(ps)}
    BY <1>3, <1>4, <1>7
  <2>. QED  BY <1>1, <2>1
<1>. QED  BY <1>2, <1>5, <1>6, <1>7

LEMMA PushedFacts ==
  ASSUME TypeOK, NEW c \in Commits
  PROVE  /\ Pushed(c) \subseteq ParentsOf(c)
         /\ Pushed(c) \subseteq Commits
         /\ Pushed(c) \cap visited = {}
         /\ (\A i \in 1..Len(Followed(c)) : Passes(c, i))
              => ParentsOf(c) \subseteq visited \cup Pushed(c)
<1>1. /\ Passed(c) \subseteq ParentsOf(c)
  BY FollowedFacts DEF Passed
<1>2. ASSUME \A i \in 1..Len(Followed(c)) : Passes(c, i), NEW p \in ParentsOf(c)
      PROVE  p \in Passed(c)
  <2>1. PICK i \in 1..Len(Followed(c)) : p = Followed(c)[i]
    BY FollowedFacts
  <2>2. \A j \in 1..i : Passes(c, j)
    BY <1>2, FollowedFacts
  <2>. QED  BY <2>1, <2>2 DEF Passed
<1>. QED  BY <1>1, <1>2, FollowedFacts DEF Pushed

(* The reachable commits hold the root and the parents of their members, and *)
(* are within every set that does.                                           *)
LEMMA ReachableFacts ==
  ASSUME TypeOK
  PROVE  /\ root \in Commits => root \in Reachable
         /\ \A c \in Reachable : ParentsOf(c) \subseteq Reachable
         /\ \A S \in SUBSET Commits : root \in S /\ Closed(S) => Reachable \subseteq S
         /\ Reachable \subseteq Commits
<1>1. ASSUME NEW c \in Reachable, NEW p \in ParentsOf(c)
      PROVE  p \in Reachable
  <2>1. c \in Commits /\ p \in Commits
    BY FollowedFacts DEF Reachable
  <2>2. ASSUME NEW S \in SUBSET Commits, root \in S, Closed(S)
        PROVE  p \in S
    BY <2>2 DEF Reachable, Closed
  <2>. QED  BY <2>1, <2>2 DEF Reachable
<1>. QED  BY <1>1 DEF Reachable

(* What is reachable depends on the history, the mode and the root. *)
LEMMA SameHistory ==
  ASSUME UNCHANGED <<hist, mode>>
  PROVE  /\ \A c : ParentsOf(c)' = ParentsOf(c)
         /\ NoSkew' = NoSkew
         /\ ParentsOlder' = ParentsOlder
         /\ root' = root => Reachable' = Reachable
<1>1. \A c : ParentsOf(c)' = ParentsOf(c)
  BY DEF ParentsOf
<1>2. NoSkew' = NoSkew /\ ParentsOlder' = ParentsOlder
  BY <1>1 DEF NoSkew, ParentsOlder
<1>3. \A S : Closed(S)' = Closed(S)
  BY <1>1 DEF Closed
<1>4. root' = root => Reachable' = Reachable
  BY <1>3 DEF Reachable
<1>. QED  BY <1>1, <1>2, <1>4

----------------------------------------------------------------------------
(* The step that yields a commit. *)

(* The queue and the set of visited ids after the step. *)
LEMMA QueueAfter ==
  ASSUME Inv, NEW c \in Commits, NextCommit(c)
  PROVE  /\ c \in Queued /\ c \in visited /\ c \notin Emitted /\ root \in Commits
         /\ pq' \in [Commits -> Nat]
         /\ pq'[c] = 0
         /\ \A d \in Pushed(c) : pq'[d] = 1
         /\ \A d \in Commits : d # c /\ d \notin Pushed(c) => pq'[d] = pq[d]
         /\ Queued' = (Queued \ {c}) \cup Pushed(c)
         /\ visited' = visited \cup Pushed(c) /\ visited' \subseteq Commits
         /\ UNCHANGED <<hist, mode, root>>
         /\ TypeOK
<1>1. /\ TypeOK /\ c \in Queued /\ pq \in [Commits -> Nat] /\ visited \subseteq Commits
  BY DEF Inv, TypeOK, NextCommit, Newest
<1>2. /\ c \in visited /\ Queued \subseteq visited /\ root \in visited
  BY <1>1 DEF Inv, WalkInv
<1>3. pq[c] = 1 /\ c \notin Emitted
  BY <1>1 DEF Inv, EachOnce, Queued
<1>4. Pushed(c) \subseteq Commits /\ Pushed(c) \cap visited = {} /\ c \notin Pushed(c)
  BY <1>1, <1>2, PushedFacts
<1>5. \A d \in Pushed(c) : pq[d] = 0
  BY <1>1, <1>2, <1>4 DEF Queued
<1>6. /\ pq' = [d \in Commits |-> IF d = c THEN pq[d] - 1
                                  ELSE IF d \in Pushed(c) THEN pq[d] + 1
                                  ELSE pq[d]]
      /\ visited' = visited \cup Pushed(c)
      /\ UNCHANGED <<hist, mode, root>>
  BY DEF NextCommit
<1>7. /\ pq'[c] = 0
      /\ \A d \in Pushed(c) : pq'[d] = 1
      /\ \A d \in Commits : d # c /\ d \notin Pushed(c) => pq'[d] = pq[d]
  BY <1>1, <1>3, <1>4, <1>5, <1>6
<1>8. pq' \in [Commits -> Nat]
  BY <1>1, <1>3, <1>6
<1>9. Queued' = (Queued \ {c}) \cup Pushed(c)
  BY <1>4, <1>7 DEF Queued
<1>. QED  BY <1>1, <1>2, <1>3, <1>4, <1>6, <1>7, <1>8, <1>9

(* What has been yielded after it. *)
LEMMA EmittedAfter ==
  ASSUME TypeOK, NEW c \in Commits, NextCommit(c)
  PROVE  \/ /\ emitted' = Append(emitted, c) /\ failed' = failed
            /\ emitted' \in Seq(Commits)
            /\ Len(emitted') = Len(emitted) + 1 /\ Len(emitted) \in Nat
            /\ emitted'[Len(emitted) + 1] = c
            /\ \A i \in 1..Len(emitted) : emitted'[i] = emitted[i]
            /\ Emitted' = Emitted \cup {c}
            /\ ParentsOf(c) \subseteq visited'
         \/ emitted' = emitted /\ failed' = TRUE /\ Emitted' = Emitted
<1>1. CASE \A i \in 1..Len(Followed(c)) : Passes(c, i)
  <2>1. emitted' = Append(emitted, c) /\ failed' = failed /\ emitted \in Seq(Commits)
    BY <1>1 DEF NextCommit, TypeOK
  <2>2. /\ emitted' \in Seq(Commits)
        /\ Len(emitted') = Len(emitted) + 1 /\ Len(emitted) \in Nat
        /\ emitted'[Len(emitted) + 1] = c
        /\ \A i \in 1..Len(emitted) : emitted'[i] = emitted[i]
    BY <2>1
  <2>3. Emitted' \subseteq Emitted \cup {c}
    BY <2>2 DEF Emitted
  <2>4. \A i \in 1..Len(emitted) : i \in 1..Len(emitted') /\ emitted'[i] = emitted[i]
    BY <2>2
  <2>5. Emitted \cup {c} \subseteq Emitted'
    BY <2>2, <2>4 DEF Emitted
  <2>6. ParentsOf(c) \subseteq visited'
    BY <1>1, PushedFacts DEF NextCommit
  <2>. QED  BY <2>1, <2>2, <2>3, <2>5, <2>6
<1>2. CASE ~(\A i \in 1..Len(Followed(c)) : Passes(c, i))
  BY <1>2 DEF NextCommit, Emitted
<1>. QED  BY <1>1, <1>2

(* Every reachable commit has been yielded, or one in the queue is as new.   *)
LEMMA HeldBack ==
  ASSUME Inv, ParentsOlder, root \in Commits, visited # {}, ~failed,
         NEW d \in Reachable
  PROVE  d \in Emitted \/ \E q \in Queued : hist.time[q] >= hist.time[d]
<1>1. /\ TypeOK /\ root \in visited /\ visited \subseteq Queued \cup Emitted
      /\ Queued \subseteq Commits /\ Emitted \subseteq visited /\ visited \subseteq Commits
      /\ \A c \in Emitted : ParentsOf(c) \subseteq visited
  BY DEF Inv, WalkInv, TypeOK, Queued
<1>2. \A c \in Commits : hist.time[c] \in Int
  BY <1>1, HistFacts
<1>. DEFINE W == {c \in Commits : c \in Emitted \/ \E q \in Queued : hist.time[q] >= hist.time[c]}
<1>3. visited \subseteq W
  BY <1>1, <1>2
<1>4. ASSUME NEW c \in W, NEW p \in ParentsOf(c)
      PROVE  p \in W
  <2>1. p \in Commits
    BY <1>1, FollowedFacts
  <2>2. CASE c \in Emitted
    BY <1>1, <1>3, <2>2
  <2>3. CASE c \notin Emitted
    <3>1. PICK q \in Queued : hist.time[q] >= hist.time[c]
      BY <2>3
    <3>2. hist.time[c] > hist.time[p]
      BY DEF ParentsOlder
    <3>3. hist.time[q] >= hist.time[p]
      BY <1>1, <1>2, <2>1, <3>1, <3>2
    <3>. QED  BY <2>1, <3>3
  <2>. QED  BY <2>2, <2>3
<1>5. Closed(W)
  BY <1>4 DEF Closed
<1>6. Reachable \subseteq W
  <2>. HIDE DEF W
  <2>1. W \in SUBSET Commits
    BY DEF W
  <2>. QED  BY <1>1, <1>3, <1>5, <2>1, ReachableFacts
<1>. QED  BY <1>6

LEMMA NextCommitInv ==
  ASSUME Inv, NEW c \in Commits, NextCommit(c)
  PROVE  Inv'
<1>1. /\ c \in Queued /\ c \in visited /\ c \notin Emitted /\ root \in Commits
      /\ pq' \in [Commits -> Nat]
      /\ pq'[c] = 0
      /\ \A d \in Pushed(c) : pq'[d] = 1
      /\ \A d \in Commits : d # c /\ d \notin Pushed(c) => pq'[d] = pq[d]
      /\ Queued' = (Queued \ {c}) \cup Pushed(c)
      /\ visited' = visited \cup Pushed(c) /\ visited' \subseteq Commits
      /\ UNCHANGED <<hist, mode, root>>
      /\ TypeOK
  BY QueueAfter
<1>2. \/ /\ emitted' = Append(emitted, c) /\ failed' = failed
         /\ emitted' \in Seq(Commits)
         /\ Len(emitted') = Len(emitted) + 1 /\ Len(emitted) \in Nat
         /\ emitted'[Len(emitted) + 1] = c
         /\ \A i \in 1..Len(emitted) : emitted'[i] = emitted[i]
         /\ Emitted' = Emitted \cup {c}
         /\ ParentsOf(c) \subseteq visited'
      \/ emitted' = emitted /\ failed' = TRUE /\ Emitted' = Emitted
  BY <1>1, EmittedAfter
<1>3. /\ \A d : ParentsOf(d)' = ParentsOf(d)
      /\ NoSkew' = NoSkew /\ ParentsOlder' = ParentsOlder
      /\ Reachable' = Reachable
  BY <1>1, SameHistory
<1>4. /\ root \in visited /\ Queued \subseteq visited /\ Emitted \subseteq visited
      /\ visited \subseteq Reachable
      /\ \A d \in Emitted : ParentsOf(d) \subseteq visited
      /\ ~failed => visited \subseteq Queued \cup Emitted
      /\ visited # {}
  BY <1>1 DEF Inv, WalkInv
<1>5. /\ Pushed(c) \subseteq ParentsOf(c) /\ Pushed(c) \subseteq Commits
      /\ Pushed(c) \cap visited = {}
  BY <1>1, PushedFacts
<1>6. Reachable \subseteq Commits /\ ParentsOf(c) \subseteq Reachable
  BY <1>1, <1>4, ReachableFacts
<1>7. \A d \in Commits : hist.time[d] \in Int
  BY <1>1, HistFacts
<1>8. TypeOK'
  BY <1>1, <1>2 DEF TypeOK
<1>9. EachOnce'
  <2>1. \A i, j \in 1..Len(emitted') : emitted'[i] = emitted'[j] => i = j
    <3>1. \A i \in 1..Len(emitted) : emitted[i] # c
      BY <1>1 DEF Emitted
    <3>2. \A i, j \in 1..Len(emitted) : emitted[i] = emitted[j] => i = j
      BY DEF Inv, EachOnce
    <3>. QED  BY <1>2, <3>1, <3>2
  <2>2. ASSUME NEW d \in Commits
        PROVE  pq'[d] <= IF d \in Emitted' THEN 0 ELSE 1
    <3>1. CASE d = c
      BY <1>1, <3>1
    <3>2. CASE d \in Pushed(c)
      BY <1>1, <1>2, <1>4, <1>5, <3>2
    <3>3. CASE d # c /\ d \notin Pushed(c)
      <4>1. pq'[d] = pq[d] /\ (d \in Emitted' <=> d \in Emitted)
        BY <1>1, <1>2, <3>3
      <4>2. pq[d] <= IF d \in Emitted THEN 0 ELSE 1
        BY DEF Inv, EachOnce
      <4>. QED  BY <4>1, <4>2
    <3>. QED  BY <3>1, <3>2, <3>3
  <2>. QED  BY <2>1, <2>2 DEF EachOnce
<1>10. WalkInv'
  <2>1. Emitted' \subseteq visited' /\ \A d \in Emitted' : ParentsOf(d) \subseteq visited'
    BY <1>1, <1>2, <1>4
  <2>2. ~failed' => visited' \subseteq Queued' \cup Emitted'
    BY <1>1, <1>2, <1>4
  <2>3. visited' \subseteq Reachable
    BY <1>1, <1>4, <1>5, <1>6
  <2>. QED  BY <1>1, <1>3, <1>4, <2>1, <2>2, <2>3 DEF WalkInv
<1>11. WalkIsExact'
  <2>1. Emitted' \subseteq Reachable
    BY <1>1, <1>2, <1>4
  <2>2. ASSUME Queued' = {}, ~failed'
        PROVE  Emitted' = Reachable
    <3>1. Emitted' = visited' /\ root \in visited'
      BY <1>1, <1>2, <1>4, <2>2
    <3>2. Closed(visited')
      BY <1>1, <1>2, <1>4, <3>1 DEF Closed
    <3>3. Reachable \subseteq visited'
      BY <1>1, <3>1, <3>2, ReachableFacts
    <3>. QED  BY <2>1, <3>1, <3>3
  <2>. QED  BY <1>3, <2>1, <2>2 DEF WalkIsExact
<1>12. \A d \in Queued : hist.time[c] >= hist.time[d]
  BY DEF NextCommit, Newest
<1>13. QueueIsOlder'
  <2>. SUFFICES ASSUME NoSkew, NEW e \in Emitted', NEW d \in Queued'
                PROVE  hist.time[e] >= hist.time[d]
    BY <1>1, <1>3 DEF QueueIsOlder
  <2>1. e \in Commits /\ d \in Commits
    BY <1>1, <1>2, <1>4, <1>5, <1>6
  <2>2. hist.time[e] >= hist.time[c]
    BY <1>1, <1>2, <1>7, <2>1 DEF Inv, QueueIsOlder
  <2>3. hist.time[c] >= hist.time[d]
    BY <1>1, <1>5, <1>12 DEF NoSkew
  <2>. QED  BY <1>1, <1>7, <2>1, <2>2, <2>3
<1>14. NewestFirst'
  <2>. SUFFICES ASSUME NoSkew, NEW i \in 1..Len(emitted'), NEW j \in 1..Len(emitted'), i < j
                PROVE  hist.time[emitted'[i]] >= hist.time[emitted'[j]]
    BY <1>1, <1>3 DEF NewestFirst
  <2>1. CASE i \in 1..Len(emitted) /\ j \in 1..Len(emitted)
    BY <1>2, <2>1 DEF Inv, NewestFirst
  <2>2. CASE j = Len(emitted) + 1 /\ i \in 1..Len(emitted) /\ emitted'[j] = c
    <3>1. emitted'[i] \in Emitted
      BY <1>2, <2>2 DEF Emitted
    <3>. QED  BY <1>1, <2>2, <3>1 DEF Inv, QueueIsOlder
  <2>. QED  BY <1>2, <2>1, <2>2
<1>15. ChildrenFirst'
  <2>. SUFFICES ASSUME ParentsOlder, ~failed', NEW j \in 1..Len(emitted'),
                       NEW d \in Reachable, emitted'[j] \in ParentsOf(d)
                PROVE  \E i \in 1..(j - 1) : emitted'[i] = d
    BY <1>1, <1>3 DEF ChildrenFirst
  <2>1. /\ ~failed /\ Len(emitted') = Len(emitted) + 1 /\ Len(emitted) \in Nat
        /\ emitted'[Len(emitted) + 1] = c
        /\ \A i \in 1..Len(emitted) : emitted'[i] = emitted[i]
    BY <1>2
  <2>2. CASE j \in 1..Len(emitted)
    <3>1. PICK i \in 1..(j - 1) : emitted[i] = d
      BY <1>1, <2>1, <2>2, NoneIsNoCommit DEF Inv, ChildrenFirst
    <3>. QED  BY <2>1, <2>2, <3>1
  <2>3. CASE j = Len(emitted) + 1
    <3>1. c \in ParentsOf(d) /\ d \in Commits
      BY <1>6, <2>1, <2>3
    <3>2. hist.time[d] > hist.time[c]
      BY <3>1 DEF ParentsOlder
    <3>3. d \in Emitted
      <4>1. d \in Emitted \/ \E q \in Queued : hist.time[q] >= hist.time[d]
        BY <1>1, <1>4, <2>1, HeldBack
      <4>2. \A q \in Queued : q \in Commits /\ ~(hist.time[q] >= hist.time[d])
        BY <1>1, <1>4, <1>7, <1>12, <3>1, <3>2, SMTT(20) DEF Queued
      <4>. QED  BY <4>1, <4>2
    <3>4. PICK i \in 1..Len(emitted) : emitted[i] = d
      BY <3>3 DEF Emitted
    <3>. QED  BY <2>1, <2>3, <3>4
  <2>. QED  BY <2>1, <2>2, <2>3
<1>. QED  BY <1>8, <1>9, <1>10, <1>11, <1>13, <1>14, <1>15 DEF Inv

----------------------------------------------------------------------------
(* The other steps. *)

(* Nothing is yielded yet. *)
Fresh ==
  /\ Emitted = {}
  /\ QueueIsOlder /\ NewestFirst /\ ChildrenFirst
  /\ \A i, j \in 1..Len(emitted) : emitted[i] = emitted[j] => i = j

LEMMA FreshWalk == emitted = <<>> => Fresh
BY DEF Fresh, Emitted, QueueIsOlder, NewestFirst, ChildrenFirst

Blank ==
  /\ hist \in Histories /\ mode \in {"all", "first"} /\ pq = EmptyQueue
  /\ visited = {} /\ root = None /\ emitted = <<>> /\ failed = FALSE

LEMMA BlankWalker == Blank => Inv
<1>. SUFFICES ASSUME Blank PROVE Inv
  OBVIOUS
<1>1. Queued = {} /\ pq \in [Commits -> Nat] /\ \A c \in Commits : pq[c] = 0
  BY DEF Blank, Queued, EmptyQueue
<1>2. TypeOK
  <2>1. <<>> \in Seq(Commits)
    OBVIOUS
  <2>. QED  BY <1>1, <2>1 DEF Blank, TypeOK
<1>3. WalkInv /\ WalkIsExact
  BY <1>1 DEF Blank, WalkInv, WalkIsExact
<1>4. Fresh
  BY FreshWalk DEF Blank
<1>. QED  BY <1>1, <1>2, <1>3, <1>4 DEF Fresh, Inv, EachOnce

LEMMA PushInv ==
  ASSUME Inv, NEW c \in Commits, Push(c)
  PROVE  Inv'
<1>1. /\ Queued = {} /\ pq \in [Commits -> Nat]
      /\ pq' = [pq EXCEPT ![c] = @ + 1] /\ visited' = {c}
      /\ root' = c /\ emitted' = <<>> /\ failed' = FALSE
      /\ UNCHANGED <<hist, mode>>
  BY DEF Inv, TypeOK, Push
<1>2. \A d \in Commits : pq[d] = 0
  BY <1>1 DEF Queued
<1>3. \A d \in Commits : pq'[d] = IF d = c THEN 1 ELSE 0
  BY <1>1, <1>2
<1>4. TypeOK'
  <2>1. <<>> \in Seq(Commits)
    OBVIOUS
  <2>2. pq' \in [Commits -> Nat]
    BY <1>1
  <2>. QED  BY <1>1, <2>1, <2>2 DEF Inv, TypeOK
<1>5. Queued' = {c}
  BY <1>3 DEF Queued
<1>6. Fresh'
  <2>1. (emitted = <<>>)'
    BY <1>1
  <2>. QED  BY <2>1, FreshWalk, PTL
<1>7. EachOnce'
  BY <1>3, <1>6 DEF EachOnce, Fresh
<1>8. c \in Reachable'
  BY <1>1 DEF Reachable
<1>9. WalkInv' /\ WalkIsExact'
  BY <1>1, <1>5, <1>6, <1>8 DEF WalkInv, WalkIsExact, Fresh
<1>. QED  BY <1>4, <1>6, <1>7, <1>9 DEF Inv, Fresh

LEMMA DoneInv ==
  ASSUME Inv, Done
  PROVE  Inv'
<1>1. /\ Queued = {} /\ pq \in [Commits -> Nat]
      /\ pq' = EmptyQueue /\ visited' = {}
      /\ UNCHANGED <<hist, mode, root, emitted, failed>>
  BY DEF Inv, TypeOK, Done
<1>2. Queued' = {} /\ \A d \in Commits : pq'[d] = 0
  BY <1>1 DEF Queued, EmptyQueue
<1>3. TypeOK'
  BY <1>1 DEF Inv, TypeOK, EmptyQueue
<1>4. Emitted' = Emitted /\ NoSkew' = NoSkew /\ ParentsOlder' = ParentsOlder
      /\ Reachable' = Reachable /\ \A d : ParentsOf(d)' = ParentsOf(d)
  BY <1>1, SameHistory DEF Emitted
<1>5. EachOnce'
  BY <1>1, <1>2, <1>4 DEF Inv, EachOnce
<1>6. WalkInv' /\ WalkIsExact' /\ QueueIsOlder'
  BY <1>1, <1>2, <1>4 DEF Inv, WalkInv, WalkIsExact, QueueIsOlder
<1>7. NewestFirst' /\ ChildrenFirst'
  BY <1>1, <1>4 DEF Inv, NewestFirst, ChildrenFirst
<1>. QED  BY <1>3, <1>5, <1>6, <1>7 DEF Inv

----------------------------------------------------------------------------
(* The theorems. *)

LEMMA InductiveInvariant == Spec => []Inv
<1>1. Init => Inv
  BY BlankWalker DEF Init, Blank
<1>2. Inv /\ [Next]_vars => Inv'
  <2>. SUFFICES ASSUME Inv, [Next]_vars
                PROVE  Inv'
    OBVIOUS
  <2>1. ASSUME NEW c \in Commits, Push(c) PROVE Inv'
    BY <2>1, PushInv
  <2>2. CASE Done
    BY <2>2, DoneInv
  <2>3. ASSUME NEW c \in Commits, NextCommit(c) PROVE Inv'
    BY <2>3, NextCommitInv
  <2>4. CASE Reset \/ \E m \in {"all", "first"} : SetMode(m)
    <3>1. Blank'
      <4>1. CASE Reset
        BY <4>1 DEF Inv, TypeOK, Reset, ForgetWalk, Blank
      <4>2. ASSUME NEW m \in {"all", "first"}, SetMode(m)
            PROVE  pq' = EmptyQueue /\ UNCHANGED <<hist, visited>> /\ mode' = m
                   /\ ForgetWalk /\ visited = {}
        <5>1. \A d \in Commits : pq[d] = 0
          BY <4>2 DEF Inv, TypeOK, SetMode, Queued
        <5>. QED  BY <4>2, <5>1 DEF Inv, TypeOK, SetMode, EmptyQueue
      <4>. QED  BY <2>4, <4>1, <4>2 DEF Inv, TypeOK, ForgetWalk, Blank
    <3>. QED  BY <3>1, BlankWalker, PTL
  <2>5. CASE UNCHANGED vars
    <3>1. /\ UNCHANGED <<hist, mode, pq, visited, root, emitted, failed>>
          /\ Emitted' = Emitted /\ Queued' = Queued
      BY <2>5 DEF vars, Emitted, Queued
    <3>2. NoSkew' = NoSkew /\ ParentsOlder' = ParentsOlder
          /\ Reachable' = Reachable /\ \A d : ParentsOf(d)' = ParentsOf(d)
      BY <3>1, SameHistory
    <3>. QED  BY <3>1, <3>2 DEF Inv, TypeOK, EachOnce, WalkInv, WalkIsExact,
              QueueIsOlder, NewestFirst, ChildrenFirst
  <2>. QED  BY <2>1, <2>2, <2>3, <2>4, <2>5 DEF Next, NextStep
<1>. QED  BY <1>1, <1>2, PTL DEF Spec

(* The variables have their types; in particular the queue is never popped    *)
(* when it is empty.                                                          *)
THEOREM RevwalkTypeCorrect == Spec => []TypeOK
<1>1. Inv => TypeOK
  BY DEF Inv
<1>. QED  BY <1>1, InductiveInvariant, PTL

(* In every history a walk yields each commit once. *)
THEOREM YieldsEachOnce == Spec => []EachOnce
<1>1. Inv => EachOnce
  BY DEF Inv
<1>. QED  BY <1>1, InductiveInvariant, PTL

(* A walk yields the commits reachable from its root and no others, and if it *)
(* ends without failure all of them.                                          *)
THEOREM YieldsTheReachable == Spec => []WalkIsExact
<1>1. Inv => WalkIsExact
  BY DEF Inv
<1>. QED  BY <1>1, InductiveInvariant, PTL

(* Where no commit is older than its parents, the order is by time. *)
THEOREM YieldsNewestFirst == Spec => []NewestFirst
<1>1. Inv => NewestFirst
  BY DEF Inv
<1>. QED  BY <1>1, InductiveInvariant, PTL

(* Where every commit is newer than its parents, children come first. *)
THEOREM YieldsChildrenFirst == Spec => []ChildrenFirst
<1>1. Inv => ChildrenFirst
  BY DEF Inv
<1>. QED  BY <1>1, InductiveInvariant, PTL

----------------------------------------------------------------------------
(* Paths *)

PathType == Seq(PathNames)

LEMMA PathFacts ==
  ASSUME NEW p \in AllPaths
  PROVE  p \in PathType /\ Len(p) >= 2 /\ p[1] \in Kinds /\ p # <<>>
BY PathsAreBelowKinds DEF PathType

LEMMA PrefixFacts ==
  ASSUME NEW p \in PathType, NEW n \in 1..Len(p)
  PROVE  /\ SubSeq(p, 1, n) \in PathType
         /\ Len(SubSeq(p, 1, n)) = n
         /\ SubSeq(p, 1, n) # <<>>
         /\ \A i \in 1..n : SubSeq(p, 1, n)[i] = p[i]
         /\ n = Len(p) => SubSeq(p, 1, n) = p
BY DEF PathType

LEMMA PrefixOfPrefix ==
  ASSUME NEW p \in PathType, NEW n \in 1..Len(p), NEW m \in 1..n
  PROVE  SubSeq(SubSeq(p, 1, n), 1, m) = SubSeq(p, 1, m)
BY DEF PathType

(* The entry on the way from d to p is in d, and above p or p itself. *)
LEMMA TowardFacts ==
  ASSUME NEW p \in PathType, NEW d \in PathType, d # <<>>, Above(d, p)
  PROVE  /\ Toward(d, p) \in PathType /\ Toward(d, p) # <<>>
         /\ ParentDir(Toward(d, p)) = d
         /\ Toward(d, p) \in Ancestors(p) \cup {p}
<1>1. PICK n \in Nat : n = Len(d)
  BY DEF PathType
<1>2. n \in 1..Len(p) /\ n + 1 \in 1..Len(p) /\ SubSeq(p, 1, n) = d /\ Toward(d, p) = SubSeq(p, 1, n + 1)
  BY <1>1 DEF Above, Toward, PathType
<1>3. PICK t : t = SubSeq(p, 1, n + 1)
  OBVIOUS
<1>4. t \in PathType /\ Len(t) = n + 1 /\ t # <<>> /\ (n + 1 = Len(p) => t = p)
  BY <1>2, <1>3, PrefixFacts
<1>5. SubSeq(t, 1, n) = d
  BY <1>2, <1>3, PrefixOfPrefix
<1>6. ParentDir(t) = d
  BY <1>4, <1>5 DEF ParentDir, Front
<1>7. t \in Ancestors(p) \cup {p}
  <2>1. CASE n + 1 = Len(p)
    BY <1>4, <2>1
  <2>2. CASE n + 1 # Len(p)
    <3>1. n + 1 \in 1..(Len(p) - 1)
      BY <1>2, <2>2 DEF PathType
    <3>2. QED  BY <1>3, <3>1 DEF Ancestors
  <2>3. QED  BY <2>1, <2>2
<1>8. QED  BY <1>2, <1>3, <1>4, <1>6, <1>7

(* The entry toward p is p, or above it. *)
LEMMA TowardReaches ==
  ASSUME NEW p \in PathType, NEW d \in PathType, Above(d, p)
  PROVE  Toward(d, p) = p \/ Above(Toward(d, p), p)
<1>1. PICK n \in Nat : n = Len(d)
  BY DEF PathType
<1>2. n + 1 \in 1..Len(p) /\ Toward(d, p) = SubSeq(p, 1, n + 1)
  BY <1>1 DEF Above, Toward, PathType
<1>3. PICK t : t = SubSeq(p, 1, n + 1)
  OBVIOUS
<1>4. Len(t) = n + 1 /\ (n + 1 = Len(p) => t = p)
  BY <1>2, <1>3, PrefixFacts
<1>5. QED  BY <1>2, <1>3, <1>4 DEF Above, PathType

(* A path begins as its directory does. *)
LEMMA ParentBegins ==
  ASSUME NEW e \in PathType, e # <<>>, NEW d \in PathType, d # <<>>, ParentDir(e) = d
  PROVE  e[1] = d[1]
<1>1. PICK n \in Nat : n = Len(e)
  BY DEF PathType
<1>2. d = SubSeq(e, 1, n - 1) /\ n >= 1
  BY <1>1 DEF ParentDir, Front, PathType
<1>3. n # 1
  BY <1>2 DEF PathType
<1>4. n - 1 \in 1..Len(e) /\ 1 \in 1..(n - 1)
  BY <1>1, <1>2, <1>3
<1>5. QED  BY <1>2, <1>4, PrefixFacts

(* A path that is p or above it is the entry of its directory toward p. *)
LEMMA EntryIsToward ==
  ASSUME NEW p \in PathType, NEW e \in PathType, e # <<>>,
         NEW d \in PathType, d # <<>>, ParentDir(e) = d, e = p \/ Above(e, p)
  PROVE  Above(d, p) /\ Toward(d, p) = e
<1>1. PICK n \in Nat : n = Len(e)
  BY DEF PathType
<1>2. n \in 1..Len(p) /\ SubSeq(p, 1, n) = e
  BY <1>1, PrefixFacts DEF PathType, Above
<1>3. d = SubSeq(e, 1, n - 1)
  BY <1>1 DEF ParentDir, Front
<1>4. n - 1 \in 1..n
  <2>1. n # 1
    BY <1>3 DEF PathType
  <2>2. QED  BY <1>2, <2>1
<1>5. Len(d) = n - 1
  BY <1>1, <1>3, <1>4, PrefixFacts DEF PathType
<1>6. SubSeq(p, 1, n - 1) = d
  BY <1>2, <1>3, <1>4, PrefixOfPrefix
<1>7. QED  BY <1>2, <1>4, <1>5, <1>6 DEF Above, Toward, PathType

LEMMA AboveIsAncestor ==
  ASSUME NEW p \in PathType, NEW d \in PathType, d # <<>>, Above(d, p)
  PROVE  d \in Ancestors(p) /\ d[1] = p[1]
<1>1. PICK n \in Nat : n = Len(d)
  BY DEF PathType
<1>2. n \in 1..(Len(p) - 1) /\ n \in 1..Len(p) /\ d = SubSeq(p, 1, n)
  BY <1>1 DEF Above, PathType
<1>3. d[1] = p[1]
  BY <1>2, PrefixFacts
<1>4. QED  BY <1>2, <1>3 DEF Ancestors

(* The directory of a kind is above the references of that kind. *)
LEMMA KindIsAbove ==
  ASSUME NEW p \in AllPaths, NEW kind \in Kinds
  PROVE  /\ <<kind>> \in PathType /\ <<kind>> # <<>>
         /\ Above(<<kind>>, p) <=> p[1] = kind
<1>1. <<kind>> \in PathType /\ <<kind>> # <<>> /\ Len(<<kind>>) = 1 /\ <<kind>>[1] = kind
  <2>1. kind \in PathNames
    BY DEF PathNames
  <2>2. QED  BY <2>1 DEF PathType
<1>2. 1 \in 1..Len(p) /\ p \in PathType /\ 1 < Len(p)
  BY PathFacts DEF PathType
<1>3. PICK s : s = SubSeq(p, 1, 1)
  OBVIOUS
<1>4. s \in PathType /\ Len(s) = 1 /\ s[1] = p[1]
  BY <1>2, <1>3, PrefixFacts
<1>5. s = <<kind>> <=> p[1] = kind
  BY <1>1, <1>4 DEF PathType
<1>6. QED  BY <1>1, <1>2, <1>3, <1>5 DEF Above

----------------------------------------------------------------------------
(* Sorting *)

LEMMA RankFacts ==
  ASSUME NEW p \in AllPaths
  PROVE  /\ Rank(p) \in Nat
         /\ \A q \in AllPaths : Rank(q) = Rank(p) => q = p
<1>1. \A q \in AllPaths : Rank(q) \in DOMAIN PathOrder /\ PathOrder[Rank(q)] = q
  <2>1. TAKE q \in AllPaths
  <2>2. \E i \in DOMAIN PathOrder : PathOrder[i] = q
    BY OrderIsTotal DEF ToSet
  <2>3. QED  BY <2>2 DEF Rank
<1>2. DOMAIN PathOrder \subseteq Nat
  BY OrderIsTotal
<1>3. QED  BY <1>1, <1>2

(* A set of natural numbers has a least element. *)
LEMMA LeastNat ==
  ASSUME NEW S \in SUBSET Nat, S # {}
  PROVE  \E i \in S : \A j \in S : i <= j
<1>. DEFINE R == {ss \in Nat \X Nat : ss[1] < ss[2]}
<1>1. IsWellFoundedOn(R, Nat)
  BY NatLessThanWellFounded, Zenon DEF OpToRel
<1>2. \A m, n \in Nat : m < n => <<m, n>> \in R
  OBVIOUS
<1>. HIDE DEF R
<1>3. PICK n \in S : \A m \in S : ~(<<m, n>> \in R)
  BY <1>1, WFMin
<1>4. ASSUME NEW m \in S PROVE n <= m
  <2>1. m \in Nat /\ n \in Nat
    OBVIOUS
  <2>2. ~(m < n)
    BY <1>2, <1>3, <2>1
  <2>. QED  BY <2>1, <2>2
<1>. QED  BY <1>4

(* A finite set of indices has one with the greatest rank. *)
LEMMA GreatestRank ==
  ASSUME refs \in Seq(AllPaths), NEW J \in SUBSET DOMAIN refs, J # {}
  PROVE  \E j \in J : \A k \in J : Rank(refs[k]) <= Rank(refs[j])
<1>. DEFINE Top == Len(PathOrder)
            S == {Top - Rank(refs[j]) : j \in J}
<1>1. \A j \in J : Rank(refs[j]) \in 1..Top /\ Top \in Nat
  <2>1. TAKE j \in J
  <2>2. refs[j] \in AllPaths
    OBVIOUS
  <2>3. \E i \in DOMAIN PathOrder : PathOrder[i] = refs[j]
    BY <2>2, OrderIsTotal DEF ToSet
  <2>4. Rank(refs[j]) \in DOMAIN PathOrder
    BY <2>3 DEF Rank
  <2>5. QED  BY <2>4, OrderIsTotal
<1>. HIDE DEF Top
<1>2. S \in SUBSET Nat /\ S # {}
  BY <1>1
<1>3. PICK n \in S : \A m \in S : n <= m
  BY ONLY <1>2, LeastNat
<1>4. PICK j \in J : n = Top - Rank(refs[j])
  BY <1>3
<1>5. ASSUME NEW k \in J PROVE Rank(refs[k]) <= Rank(refs[j])
  <2>1. Top - Rank(refs[j]) <= Top - Rank(refs[k])
    BY <1>3, <1>4
  <2>2. QED  BY <1>1, <2>1
<1>6. QED  BY <1>5

LEMMA IntervalCount ==
  ASSUME NEW n \in Nat
  PROVE  IsFiniteSet(1..n) /\ Cardinality(1..n) = n
<1>1. 1 \in Int /\ n \in Int
  OBVIOUS
<1>2. IsFiniteSet(1..n) /\ Cardinality(1..n) = IF 1 > n THEN 0 ELSE n - 1 + 1
  BY <1>1, FS_Interval
<1>3. QED  BY <1>2

LEMMA Counts ==
  ASSUME refs \in Seq(AllPaths), NEW S \in SUBSET DOMAIN refs
  PROVE  /\ IsFiniteSet(S) /\ Cardinality(S) \in 0..Len(refs)
         /\ \A T \in SUBSET S : Cardinality(T) <= Cardinality(S)
         /\ S # {} => Cardinality(S) >= 1
<1>1. IsFiniteSet(1..Len(refs)) /\ Cardinality(1..Len(refs)) = Len(refs) /\ DOMAIN refs = 1..Len(refs)
  <2>1. Len(refs) \in Nat /\ DOMAIN refs = 1..Len(refs)
    OBVIOUS
  <2>2. Cardinality(1..Len(refs)) = Len(refs) /\ IsFiniteSet(1..Len(refs))
    BY <2>1, IntervalCount
  <2>3. QED  BY <2>1, <2>2
<1>2. IsFiniteSet(S) /\ Cardinality(S) <= Len(refs) /\ Cardinality(S) \in Nat
  BY <1>1, FS_Subset, FS_CardinalityType
<1>3. \A T \in SUBSET S : Cardinality(T) <= Cardinality(S)
  BY <1>2, FS_Subset
<1>4. S # {} => Cardinality(S) # 0
  BY <1>2, FS_EmptySet
<1>5. QED  BY <1>2, <1>3, <1>4

(* Those before p are not those of p; one of them is not behind another.     *)
LEMMA CountsFit ==
  ASSUME refs \in Seq(AllPaths), NEW p \in AllPaths
  PROVE  /\ NamesBefore(p) \in 0..Len(refs) /\ NamesUpTo(p) \in 0..Len(refs)
         /\ \A q \in AllPaths : Rank(q) < Rank(p) => NamesUpTo(q) <= NamesBefore(p)
         /\ p \in ToSet(refs) => NamesBefore(p) < NamesUpTo(p)
<1>. DEFINE Less(q) == {j \in DOMAIN refs : Rank(refs[j]) < Rank(q)}
            LessEq(q) == {j \in DOMAIN refs : Rank(refs[j]) <= Rank(q)}
<1>1. \A j \in DOMAIN refs : refs[j] \in AllPaths /\ Rank(refs[j]) \in Nat
  BY RankFacts
<1>2. NamesBefore(p) \in 0..Len(refs) /\ NamesUpTo(p) \in 0..Len(refs)
  BY Counts DEF NamesBefore, NamesUpTo
<1>3. ASSUME NEW q \in AllPaths, Rank(q) < Rank(p) PROVE NamesUpTo(q) <= NamesBefore(p)
  <2>1. LessEq(q) \subseteq Less(p)
    BY <1>1, <1>3, RankFacts
  <2>2. Less(p) \in SUBSET DOMAIN refs
    OBVIOUS
  <2>3. Cardinality(LessEq(q)) <= Cardinality(Less(p))
    BY <2>1, <2>2, Counts
  <2>4. QED  BY <2>3 DEF NamesBefore, NamesUpTo
<1>4. ASSUME p \in ToSet(refs) PROVE NamesBefore(p) < NamesUpTo(p)
  <2>1. PICK i \in DOMAIN refs : refs[i] = p
    BY <1>4 DEF ToSet
  <2>2. i \in LessEq(p) /\ i \notin Less(p) /\ Less(p) \subseteq LessEq(p) \ {i}
    BY <1>1, <2>1, RankFacts
  <2>3. LessEq(p) \in SUBSET DOMAIN refs /\ LessEq(p) \ {i} \in SUBSET DOMAIN refs
    OBVIOUS
  <2>4. Cardinality(Less(p)) <= Cardinality(LessEq(p) \ {i})
    BY <2>2, <2>3, Counts
  <2>5. IsFiniteSet(LessEq(p)) /\ Cardinality(LessEq(p)) \in Nat
    BY <2>3, Counts
  <2>6. Cardinality(LessEq(p) \ {i}) = Cardinality(LessEq(p)) - 1
    BY <2>2, <2>5, FS_RemoveElement
  <2>7. Less(p) \in SUBSET DOMAIN refs
    OBVIOUS
  <2>8. Cardinality(Less(p)) \in Nat
    BY <2>7, Counts
  <2>9. QED  BY <2>4, <2>5, <2>6, <2>8 DEF NamesBefore, NamesUpTo
<1>5. QED  BY <1>2, <1>3, <1>4

(* There is an i-th name. *)
LEMMA NamesAreInPlace ==
  ASSUME refs \in Seq(AllPaths), NEW i \in DOMAIN refs
  PROVE  \E p \in ToSet(refs) : NamesBefore(p) < i /\ i <= NamesUpTo(p)
<1>. DEFINE Far == {j \in DOMAIN refs : i <= NamesUpTo(refs[j])}
            S == {Rank(refs[j]) : j \in Far}
<1>1. \A j \in DOMAIN refs : /\ refs[j] \in AllPaths /\ refs[j] \in ToSet(refs) /\ Rank(refs[j]) \in Nat
                             /\ NamesUpTo(refs[j]) \in 0..Len(refs)
                             /\ NamesBefore(refs[j]) \in 0..Len(refs)
  BY RankFacts, CountsFit DEF ToSet
<1>2. S \in SUBSET Nat /\ S # {}
  <2>1. DOMAIN refs \in SUBSET DOMAIN refs /\ DOMAIN refs # {}
    OBVIOUS
  <2>2. PICK j \in DOMAIN refs : \A k \in DOMAIN refs : Rank(refs[k]) <= Rank(refs[j])
    BY <2>1, GreatestRank
  <2>3. {k \in DOMAIN refs : Rank(refs[k]) <= Rank(refs[j])} = 1..Len(refs)
    BY <2>2
  <2>4. NamesUpTo(refs[j]) = Len(refs)
    <3>1. Cardinality(1..Len(refs)) = Len(refs)
      <4>1. PICK n \in Nat : n = Len(refs)
        OBVIOUS
      <4>2. Cardinality(1..n) = n
        BY IntervalCount
      <4>3. QED  BY <4>1, <4>2
    <3>2. QED  BY <2>3, <3>1 DEF NamesUpTo
  <2>5. j \in Far
    BY <2>4
  <2>6. QED  BY <1>1, <2>5
<1>3. PICK n \in S : \A m \in S : n <= m
  BY ONLY <1>2, LeastNat
<1>4. PICK j \in Far : n = Rank(refs[j])
  BY <1>3
<1>5. NamesBefore(refs[j]) < i
  <2>. DEFINE J == {k \in DOMAIN refs : Rank(refs[k]) < Rank(refs[j])}
  <2>1. CASE J = {}
    <3>1. NamesBefore(refs[j]) = 0
      BY <2>1, FS_EmptySet DEF NamesBefore
    <3>2. QED  BY <3>1
  <2>2. CASE J # {}
    <3>1. PICK k \in J : \A l \in J : Rank(refs[l]) <= Rank(refs[k])
      <4>1. J \in SUBSET DOMAIN refs
        OBVIOUS
      <4>. HIDE DEF J
      <4>2. QED  BY <2>2, <4>1, GreatestRank
    <3>2. J = {l \in DOMAIN refs : Rank(refs[l]) <= Rank(refs[k])}
      <4>1. \A l \in J : l \in DOMAIN refs /\ Rank(refs[l]) <= Rank(refs[k])
        BY <3>1
      <4>2. ASSUME NEW l \in DOMAIN refs, Rank(refs[l]) <= Rank(refs[k]) PROVE l \in J
        <5>1. Rank(refs[k]) < Rank(refs[j]) /\ k \in DOMAIN refs
          BY <3>1
        <5>2. Rank(refs[l]) \in Nat /\ Rank(refs[k]) \in Nat /\ Rank(refs[j]) \in Nat
          BY <1>1, <5>1
        <5>3. Rank(refs[l]) < Rank(refs[j])
          BY ONLY <4>2, <5>1, <5>2
        <5>4. QED  BY <5>3
      <4>3. QED  BY <4>1, <4>2
    <3>3. NamesBefore(refs[j]) = NamesUpTo(refs[k])
      BY <3>2 DEF NamesBefore, NamesUpTo
    <3>4. k \notin Far
      <4>1. SUFFICES ASSUME k \in Far PROVE FALSE
        OBVIOUS
      <4>2. Rank(refs[j]) <= Rank(refs[k])
        BY <1>3, <1>4, <4>1
      <4>3. QED  BY <1>1, <3>1, <4>2
    <3>5. QED  BY <1>1, <3>1, <3>3, <3>4, SMTT(20)
  <2>3. QED  BY <2>1, <2>2
<1>6. QED  BY <1>1, <1>4, <1>5

(* Sorting keeps the names, each as often as it was there if that was once,  *)
(* and puts them in order.                                                   *)
LEMMA SortedFacts ==
  ASSUME refs \in Seq(AllPaths),
         NEW s, s = SortedRefs
  PROVE  /\ s \in Seq(AllPaths) /\ Len(s) = Len(refs) /\ ToSet(s) = ToSet(refs)
         /\ \A i, j \in DOMAIN s : i < j => Rank(s[i]) <= Rank(s[j])
         /\ \A p \in AllPaths :
              (\A i, j \in DOMAIN refs : refs[i] = p /\ refs[j] = p => i = j)
                => \A i, j \in DOMAIN s : s[i] = p /\ s[j] = p => i = j
<1>1. \A p \in ToSet(refs) : /\ p \in AllPaths /\ Rank(p) \in Nat
                             /\ NamesBefore(p) \in 0..Len(refs) /\ NamesUpTo(p) \in 0..Len(refs)
                             /\ NamesBefore(p) < NamesUpTo(p)
                             /\ \A q \in AllPaths : Rank(q) < Rank(p) => NamesUpTo(q) <= NamesBefore(p)
                             /\ \A q \in AllPaths : Rank(q) = Rank(p) => q = p
  <2>1. TAKE p \in ToSet(refs)
  <2>2. p \in AllPaths
    BY DEF ToSet
  <2>3. QED  BY <2>2, CountsFit, RankFacts
<1>2. DOMAIN s = DOMAIN refs /\ DOMAIN refs = 1..Len(refs)
  BY DEF SortedRefs
<1>3. \A i \in DOMAIN refs : s[i] \in ToSet(refs) /\ NamesBefore(s[i]) < i /\ i <= NamesUpTo(s[i])
  <2>1. TAKE i \in DOMAIN refs
  <2>2. \E p \in ToSet(refs) : NamesBefore(p) < i /\ i <= NamesUpTo(p)
    BY NamesAreInPlace
  <2>3. s[i] = CHOOSE p \in ToSet(refs) : NamesBefore(p) < i /\ i <= NamesUpTo(p)
    BY DEF SortedRefs
  <2>4. QED  BY <2>2, <2>3
<1>4. s \in Seq(AllPaths) /\ Len(s) = Len(refs)
  <2>1. s \in [1..Len(refs) -> AllPaths]
    BY <1>1, <1>2, <1>3 DEF SortedRefs
  <2>2. Len(refs) \in Nat
    OBVIOUS
  <2>3. QED  BY <2>1, <2>2
<1>5. \A i, j \in DOMAIN s : i < j => Rank(s[i]) <= Rank(s[j])
  <2>. TAKE i, j \in DOMAIN s
  <2>1. s[i] \in ToSet(refs) /\ s[j] \in ToSet(refs)
    BY <1>2, <1>3
  <2>2. /\ Rank(s[i]) \in Nat /\ Rank(s[j]) \in Nat
        /\ NamesBefore(s[i]) \in 0..Len(refs) /\ NamesUpTo(s[j]) \in 0..Len(refs)
    BY <1>1, <2>1
  <2>3. ASSUME i < j, Rank(s[j]) < Rank(s[i]) PROVE FALSE
    <3>1. NamesUpTo(s[j]) <= NamesBefore(s[i])
      BY <1>1, <2>1, <2>3
    <3>2. NamesBefore(s[i]) < i /\ j <= NamesUpTo(s[j])
      BY <1>2, <1>3
    <3>3. i \in Nat /\ j \in Nat
      BY <1>2
    <3>4. QED  BY <2>2, <2>3, <3>1, <3>2, <3>3
  <2>4. QED  BY <2>2, <2>3
<1>6. ToSet(s) = ToSet(refs)
  <2>1. \A p \in ToSet(s) : p \in ToSet(refs)
    BY <1>2, <1>3 DEF ToSet
  <2>2. ASSUME NEW p \in ToSet(refs) PROVE p \in ToSet(s)
    <3>1. PICK i \in Nat : i = NamesBefore(p) + 1
      BY <1>1
    <3>2. PICK u \in 0..Len(refs) : u = NamesUpTo(p)
      BY <1>1
    <3>3. i <= u
      BY <1>1, <3>1, <3>2
    <3>4. i \in DOMAIN refs
      BY <1>1, <1>2, <3>1, <3>2, <3>3
    <3>5. s[i] \in ToSet(refs) /\ NamesBefore(s[i]) < i /\ i <= NamesUpTo(s[i])
      BY <1>3, <3>4
    <3>6. ~(Rank(s[i]) < Rank(p))
      <4>1. SUFFICES ASSUME Rank(s[i]) < Rank(p) PROVE FALSE
        OBVIOUS
      <4>2. NamesUpTo(s[i]) <= NamesBefore(p)
        BY <1>1, <3>5, <4>1
      <4>3. QED  BY <1>1, <3>1, <3>5, <4>2
    <3>7. ~(Rank(p) < Rank(s[i]))
      <4>1. SUFFICES ASSUME Rank(p) < Rank(s[i]) PROVE FALSE
        OBVIOUS
      <4>2. NamesUpTo(p) <= NamesBefore(s[i])
        BY <1>1, <3>5, <4>1
      <4>3. QED  BY <1>1, <3>2, <3>3, <3>5, <4>2
    <3>8. s[i] = p
      BY <1>1, <3>5, <3>6, <3>7
    <3>9. QED  BY <1>2, <3>4, <3>8 DEF ToSet
  <2>3. QED  BY <2>1, <2>2
<1>7. ASSUME NEW p \in AllPaths, \A i, j \in DOMAIN refs : refs[i] = p /\ refs[j] = p => i = j,
             NEW i \in DOMAIN s, NEW j \in DOMAIN s, s[i] = p, s[j] = p
      PROVE  i = j
  <2>1. p \in ToSet(refs)
    BY <1>2, <1>3, <1>7
  <2>2. PICK k \in DOMAIN refs : refs[k] = p
    BY <2>1 DEF ToSet
  <2>. DEFINE Less == {l \in DOMAIN refs : Rank(refs[l]) < Rank(p)}
              LessEq == {l \in DOMAIN refs : Rank(refs[l]) <= Rank(p)}
  <2>3. \A l \in DOMAIN refs : Rank(refs[l]) \in Nat /\ (Rank(refs[l]) = Rank(p) => l = k)
    <3>1. TAKE l \in DOMAIN refs
    <3>2. refs[l] \in ToSet(refs)
      BY DEF ToSet
    <3>3. Rank(refs[l]) \in Nat /\ (Rank(refs[l]) = Rank(p) => refs[l] = p)
      BY <1>1, <3>2
    <3>4. QED  BY <1>7, <2>2, <3>3
  <2>4. LessEq = Less \cup {k} /\ k \notin Less
    BY <1>1, <2>1, <2>2, <2>3
  <2>5. IsFiniteSet(Less) /\ Cardinality(Less) \in Nat
    <3>1. Less \in SUBSET DOMAIN refs
      OBVIOUS
    <3>. HIDE DEF Less
    <3>2. QED  BY <3>1, Counts
  <2>6. Cardinality(LessEq) = Cardinality(Less) + 1
    <3>. HIDE DEF Less, LessEq
    <3>1. QED  BY <2>4, <2>5, FS_AddElement
  <2>7. NamesUpTo(p) = NamesBefore(p) + 1
    BY <2>6 DEF NamesBefore, NamesUpTo
  <2>8. /\ NamesBefore(p) < i /\ i <= NamesUpTo(p) /\ NamesBefore(p) < j /\ j <= NamesUpTo(p)
        /\ NamesBefore(p) \in Nat /\ i \in Nat /\ j \in Nat
    BY <1>1, <1>2, <1>3, <1>7, <2>1
  <2>9. QED  BY <2>7, <2>8
<1>8. ASSUME NEW p \in AllPaths, \A i, j \in DOMAIN refs : refs[i] = p /\ refs[j] = p => i = j
      PROVE  \A i, j \in DOMAIN s : s[i] = p /\ s[j] = p => i = j
  <2>1. TAKE i, j \in DOMAIN s
  <2>2. HAVE s[i] = p /\ s[j] = p
  <2>3. QED  BY <1>7, <1>8, <2>2
<1>9. QED  BY <1>4, <1>5, <1>6, <1>8, Zenon

----------------------------------------------------------------------------
(* The walk *)

LEMMA FrameFacts ==
  ASSUME ListTypeOK, NEW i \in DOMAIN stack
  PROVE  /\ stack[i].dir \in dirs /\ stack[i].dir \in PathType /\ stack[i].dir # <<>>
         /\ stack[i].due \subseteq files \cup dirs /\ stack[i].got \subseteq files \cup dirs
<1>. DEFINE Frames == [dir : dirs, due : SUBSET (files \cup dirs), got : SUBSET (files \cup dirs)]
<1>1. stack \in Seq(Frames)
  BY DEF ListTypeOK
<1>2. stack[i] \in Frames
  <2>. HIDE DEF Frames
  <2>1. QED  BY <1>1
<1>3. QED  BY <1>2 DEF ListTypeOK, PathType

(* What is on the way to a reference that is there, is there. *)
LEMMA WayFacts ==
  ASSUME ListTypeOK, FilesAreInDirs, NEW p \in always, NEW d \in dirs, Above(d, p)
  PROVE  /\ Toward(d, p) \in Children(d) /\ Toward(d, p) # <<>>
         /\ Toward(d, p) = p \/ Toward(d, p) \in dirs
         /\ d[1] = p[1]
<1>1. p \in AllPaths /\ p \in files /\ Ancestors(p) \subseteq dirs /\ d \in PathType /\ d # <<>>
  BY DEF ListTypeOK, FilesAreInDirs, PathType
<1>2. p \in PathType
  BY <1>1, PathFacts
<1>3. /\ Toward(d, p) # <<>> /\ ParentDir(Toward(d, p)) = d
      /\ Toward(d, p) \in Ancestors(p) \cup {p}
  BY <1>1, <1>2, TowardFacts
<1>4. d[1] = p[1]
  BY <1>1, <1>2, AboveIsAncestor
<1>5. QED  BY <1>1, <1>3, <1>4 DEF Children

LEMMA InHandFacts ==
  ASSUME ListTypeOK, FilesAreInDirs, FramesFit, NEW p \in always, InHand(p)
  PROVE  /\ stack # <<>> /\ Len(stack) \in DOMAIN stack
         /\ Above(stack[Len(stack)].dir, p) /\ Toward(stack[Len(stack)].dir, p) = entry
         /\ \/ entry = p /\ entry \in files /\ entry \notin dirs
            \/ Above(entry, p) /\ entry \in dirs /\ entry \notin files
<1>1. /\ entry # <<>> /\ stack # <<>> /\ ParentDir(entry) = stack[Len(stack)].dir
      /\ entry \in PathType /\ (entry = p \/ Above(entry, p))
  BY DEF InHand, FramesFit, Last, ListTypeOK, PathType
<1>2. Len(stack) \in DOMAIN stack
  BY <1>1 DEF ListTypeOK
<1>3. stack[Len(stack)].dir \in PathType /\ stack[Len(stack)].dir # <<>>
  BY <1>2, FrameFacts
<1>4. p \in AllPaths /\ p \in files /\ Ancestors(p) \subseteq dirs /\ files \cap dirs = {}
  BY DEF ListTypeOK, FilesAreInDirs
<1>5. p \in PathType
  BY <1>4, PathFacts
<1>6. Above(stack[Len(stack)].dir, p) /\ Toward(stack[Len(stack)].dir, p) = entry
  BY <1>1, <1>3, <1>5, EntryIsToward
<1>7. Above(entry, p) => entry \in Ancestors(p)
  BY <1>1, <1>5, AboveIsAncestor
<1>8. QED  BY <1>1, <1>2, <1>4, <1>6, <1>7

(* The prefix of a frame is not among those to be walked. *)
LEMMA FramePrefix ==
  ASSUME ListTypeOK, FilesAreInDirs, FramesFit, NEW p \in always, NEW i \in DOMAIN stack,
         Above(stack[i].dir, p)
  PROVE  p[1] \in ToSet(prefixes) /\ p[1] \notin ToSet(todo)
BY FrameFacts, WayFacts DEF FramesFit

Unseen == UNCHANGED <<files, dirs, always, ever, removed, changes>>

LEMMA StartListStep ==
  ASSUME ListWalkInv, NEW flags \in Flags, StartList(flags)
  PROVE  ListWalkInv'
<1>1. /\ todo = <<>> /\ stack = <<>> /\ refs = <<>> /\ prefixes = <<>> /\ entry = <<>>
      /\ listing' = "walking" /\ todo' = flags /\ prefixes' = flags
      /\ always' = files /\ ever' = files /\ removed' = FALSE
      /\ UNCHANGED <<files, dirs, stack, entry, refs, shown, changes>>
  BY DEF ListWalkInv, FramesFit, StartList
<1>2. flags \in Seq(Kinds) /\ IsInjective(flags)
  <2>1. \/ flags = <<"heads">> \/ flags = <<"tags">> \/ flags = <<"heads", "tags">>
        \/ flags = <<"heads", "tags", "remotes">>
    BY DEF Flags
  <2>2. PICK h, t, r : h = "heads" /\ t = "tags" /\ r = "remotes"
    OBVIOUS
  <2>3. h \in Kinds /\ t \in Kinds /\ r \in Kinds /\ h # t /\ t # r /\ h # r
    BY <2>2 DEF Kinds
  <2>4. flags = <<h>> \/ flags = <<t>> \/ flags = <<h, t>> \/ flags = <<h, t, r>>
    BY <2>1, <2>2
  <2>5. flags \in Seq(Kinds)
    <3>1. <<h>> \in Seq(Kinds) /\ <<t>> \in Seq(Kinds)
      BY <2>3
    <3>2. <<h, t>> \in Seq(Kinds)
      BY <2>3
    <3>3. <<h, t, r>> \in Seq(Kinds)
      BY <2>3
    <3>4. QED  BY <2>4, <3>1, <3>2, <3>3, Zenon
  <2>6. CASE flags = <<h>> \/ flags = <<t>>
    <3>1. DOMAIN flags = 1..1
      BY <2>6
    <3>2. QED  BY <2>5, <3>1 DEF IsInjective
  <2>7. CASE flags = <<h, t>>
    <3>1. DOMAIN flags = 1..2 /\ flags[1] = h /\ flags[2] = t
      BY <2>7
    <3>2. QED  BY <2>3, <2>5, <3>1 DEF IsInjective
  <2>8. CASE flags = <<h, t, r>>
    <3>1. DOMAIN flags = 1..3 /\ flags[1] = h /\ flags[2] = t /\ flags[3] = r
      BY <2>8
    <3>2. QED  BY <2>3, <2>5, <3>1 DEF IsInjective
  <2>9. QED  BY <2>4, <2>6, <2>7, <2>8
<1>3. ListTypeOK' /\ FilesAreInDirs'
  BY <1>1, <1>2 DEF ListWalkInv, ListTypeOK, FilesAreInDirs
<1>4. FramesFit'
  BY <1>1, <1>2 DEF ListWalkInv, FramesFit
<1>5. (\A p \in always : IsReached(p) /\ IsReachedOnce(p))'
  BY <1>1 DEF IsReached, IsReachedOnce, InHand, IsReturned, ToSet
<1>6. NamesWereThere' /\ FailsIfRemoved'
  BY <1>1 DEF NamesWereThere, FailsIfRemoved
<1>7. QED  BY <1>3, <1>4, <1>5, <1>6 DEF ListWalkInv

(* A directory that is there is opened. *)
LEMMA PushFacts ==
  ASSUME ListTypeOK, NEW d \in dirs, Opendir(d)
  PROVE  LET frame == [dir |-> d, due |-> Children(d), got |-> {}] IN
         /\ listing' = listing /\ Len(stack') = Len(stack) + 1
         /\ DOMAIN stack' = DOMAIN stack \cup {Len(stack) + 1}
         /\ stack'[Len(stack) + 1] = frame
         /\ \A i \in DOMAIN stack : stack'[i] = stack[i] /\ i < Len(stack) + 1
         /\ stack' \in Seq([dir : dirs, due : SUBSET (files \cup dirs), got : SUBSET (files \cup dirs)])
<1>. DEFINE frame == [dir |-> d, due |-> Children(d), got |-> {}]
            Frames == [dir : dirs, due : SUBSET (files \cup dirs), got : SUBSET (files \cup dirs)]
<1>1. stack \in Seq(Frames) /\ frame \in Frames
  BY DEF ListTypeOK, Children
<1>2. stack' = Append(stack, frame) /\ listing' = listing
  BY DEF Opendir
<1>. HIDE DEF frame, Frames
<1>3. /\ Len(stack') = Len(stack) + 1 /\ stack' \in Seq(Frames)
      /\ stack'[Len(stack) + 1] = frame
      /\ DOMAIN stack' = DOMAIN stack \cup {Len(stack) + 1}
      /\ \A i \in DOMAIN stack : stack'[i] = stack[i] /\ i < Len(stack) + 1
  BY <1>1, <1>2
<1>4. QED  BY <1>2, <1>3 DEF frame, Frames

(* What changes nothing but the place of the walk keeps what was collected.  *)
LEMMA QuietWalk ==
  ASSUME ListWalkInv, Unseen, UNCHANGED <<refs, shown, prefixes>>, listing' = "walking",
         listing # "none"
  PROVE  NamesWereThere' /\ FilesAreInDirs' /\ (entry' = entry \/ entry' = <<>> \/ entry' \in files \cup dirs => FailsIfRemoved')
<1>1. NamesWereThere'
  BY DEF ListWalkInv, NamesWereThere, Unseen
<1>2. FilesAreInDirs'
  BY DEF ListWalkInv, FilesAreInDirs, Unseen
<1>3. ASSUME entry' = entry \/ entry' = <<>> \/ entry' \in files \cup dirs PROVE FailsIfRemoved'
  BY <1>3 DEF ListWalkInv, FailsIfRemoved, Unseen
<1>4. QED  BY <1>1, <1>2, <1>3

LEMMA OpenPrefixStep ==
  ASSUME ListWalkInv, OpenPrefix
  PROVE  ListWalkInv'
<1>. DEFINE kind == Head(todo)
            d == <<kind>>
<1>1. /\ ListTypeOK /\ FilesAreInDirs /\ FramesFit /\ listing = "walking" /\ stack = <<>> /\ todo # <<>>
      /\ entry = <<>> /\ kind \in Kinds /\ d \in dirs /\ todo' = Tail(todo) /\ Opendir(d)
      /\ Unseen /\ UNCHANGED <<entry, refs, shown, prefixes>>
  BY DEF ListWalkInv, FramesFit, OpenPrefix, Unseen, ListTypeOK, FilesAreInDirs
<1>2. /\ todo' \in Seq(Kinds) /\ IsInjective(todo') /\ ToSet(todo') \subseteq ToSet(todo)
      /\ kind \in ToSet(todo) /\ kind \notin ToSet(todo')
  <2>1. todo \in Seq(Kinds) /\ IsInjective(todo)
    BY <1>1 DEF ListTypeOK, FramesFit
  <2>2. PICK n \in Nat : n = Len(todo)
    BY <2>1
  <2>3. /\ DOMAIN todo = 1..n /\ DOMAIN todo' = 1..(n - 1) /\ n > 0 /\ kind = todo[1]
        /\ \A i \in 1..(n - 1) : todo'[i] = todo[i + 1]
        /\ todo' \in Seq(Kinds)
    BY <1>1, <2>1, <2>2
  <2>4. IsInjective(todo')
    <3>1. \A i, j \in 1..(n - 1) : todo[i + 1] = todo[j + 1] => i + 1 = j + 1
      BY <2>1, <2>3, SMTT(20) DEF IsInjective
    <3>2. QED  BY <2>3, <3>1 DEF IsInjective
  <2>5. ToSet(todo') \subseteq ToSet(todo) /\ kind \in ToSet(todo)
    BY <2>3 DEF ToSet
  <2>6. kind \notin ToSet(todo')
    <3>1. \A i \in 1..(n - 1) : todo[i + 1] # todo[1]
      BY <2>1, <2>3 DEF IsInjective
    <3>2. QED  BY <2>3, <3>1 DEF ToSet
  <2>7. QED  BY <2>3, <2>4, <2>5, <2>6
<1>. HIDE DEF kind
<1>3. /\ listing' = listing /\ DOMAIN stack' = {1}
      /\ stack'[1] = [dir |-> d, due |-> Children(d), got |-> {}]
      /\ stack' \in Seq([dir : dirs, due : SUBSET (files \cup dirs), got : SUBSET (files \cup dirs)])
  <2>1. Len(stack) = 0 /\ DOMAIN stack = {}
    BY <1>1
  <2>. HIDE DEF d
  <2>2. PICK frame : frame = [dir |-> d, due |-> Children(d), got |-> {}]
    OBVIOUS
  <2>3. /\ listing' = listing
        /\ DOMAIN stack' = DOMAIN stack \cup {Len(stack) + 1}
        /\ stack'[Len(stack) + 1] = frame
        /\ stack' \in Seq([dir : dirs, due : SUBSET (files \cup dirs), got : SUBSET (files \cup dirs)])
    BY <1>1, <2>2, PushFacts
  <2>4. Len(stack) + 1 = 1
    BY <2>1
  <2>5. DOMAIN stack' = {1}
    BY <2>1, <2>3, <2>4
  <2>6. QED  BY <2>2, <2>3, <2>4, <2>5
<1>4. ListTypeOK'
  BY <1>1, <1>2, <1>3 DEF ListTypeOK, Unseen
<1>5. NamesWereThere' /\ FilesAreInDirs' /\ FailsIfRemoved'
  BY <1>1, <1>3, QuietWalk
<1>6. FramesFit'
  <2>1. \A i \in DOMAIN stack' : stack'[i].dir[1] \in ToSet(prefixes') \ ToSet(todo')
    BY <1>1, <1>2, <1>3 DEF FramesFit
  <2>2. \A i \in DOMAIN stack' : \A e \in stack'[i].due : e # <<>> /\ ParentDir(e) = stack'[i].dir
    BY <1>3 DEF Children
  <2>3. QED  BY <1>1, <1>2, <1>3, <2>1, <2>2 DEF FramesFit
<1>7. ASSUME NEW p \in always PROVE IsReached(p)' /\ IsReachedOnce(p)'
  <2>1. p \in AllPaths /\ IsReached(p) /\ IsReachedOnce(p)
    BY <1>1 DEF ListWalkInv, ListTypeOK
  <2>2. Above(d, p) <=> p[1] = kind
    BY <1>1, <2>1, KindIsAbove
  <2>3. ~InHand(p) /\ ~InHand(p)' /\ ~Ahead(p)
    BY <1>1 DEF InHand, Ahead
  <2>4. IsReached(p)'
    <3>1. CASE p[1] = kind
      <4>1. Toward(d, p) \in Children(d)
        BY <1>1, <2>2, <3>1, WayFacts
      <4>2. Ahead(p)'
        <5>1. 1 \in DOMAIN stack' /\ stack'[1].dir = d /\ stack'[1].due = Children(d) /\ stack'[1].got = {}
          BY <1>3
        <5>2. Above(stack'[1].dir, p) /\ Toward(stack'[1].dir, p) \in stack'[1].due \ stack'[1].got
          BY <2>2, <3>1, <4>1, <5>1
        <5>3. QED  BY <5>1, <5>2 DEF Ahead, Above, Toward
      <4>3. QED  BY <4>2 DEF IsReached
    <3>2. CASE p[1] # kind
      <4>1. p[1] \in ToSet(todo) => p[1] \in ToSet(todo')
        <5>1. \A x \in ToSet(todo) : x = kind \/ x \in ToSet(todo')
          <6>1. todo \in Seq(Kinds) /\ kind = todo[1]
            BY <1>1 DEF ListTypeOK, kind
          <6>2. PICK n \in Nat : n = Len(todo)
            BY <6>1
          <6>3. \A i \in 1..n : i = 1 \/ (i - 1 \in DOMAIN todo' /\ todo'[i - 1] = todo[i])
            BY <1>1, <6>1, <6>2
          <6>4. QED  BY <6>1, <6>2, <6>3 DEF ToSet
        <5>2. QED  BY <3>2, <5>1
      <4>2. QED  BY <1>1, <2>1, <2>3, <4>1 DEF IsReached
    <3>3. QED  BY <3>1, <3>2
  <2>5. IsReachedOnce(p)'
    <3>1. ASSUME p \in ToSet(refs)
          PROVE  p[1] \notin ToSet(todo') /\ IsReturned(p, 1)'
      <4>1. p[1] \notin ToSet(todo)
        BY <2>1, <3>1 DEF IsReachedOnce
      <4>2. ~Above(d, p)
        BY <1>2, <2>2, <4>1
      <4>3. QED  BY <1>2, <1>3, <4>1, <4>2 DEF IsReturned, Above
    <3>2. \A i, j \in DOMAIN stack' : ~(i < j)
      BY <1>3
    <3>3. QED  BY <1>1, <1>3, <2>1, <2>3, <3>1, <3>2 DEF IsReachedOnce
  <2>6. QED  BY <2>4, <2>5
<1>8. QED  BY <1>1, <1>4, <1>5, <1>6, <1>7 DEF ListWalkInv, Unseen

LEMMA ReaddirStep ==
  ASSUME ListWalkInv, Readdir
  PROVE  ListWalkInv'
<1>. DEFINE n == Len(stack)
            Frames == [dir : dirs, due : SUBSET (files \cup dirs), got : SUBSET (files \cup dirs)]
<1>1. /\ ListTypeOK /\ FilesAreInDirs /\ FramesFit /\ listing = "walking" /\ stack # <<>> /\ entry = <<>>
      /\ Unseen /\ UNCHANGED <<listing, todo, refs, shown, prefixes>>
  BY DEF ListWalkInv, Readdir, Unseen
<1>2. stack \in Seq(Frames) /\ n \in DOMAIN stack /\ n \in Nat /\ DOMAIN stack = 1..n
  <2>1. stack \in Seq(Frames)
    BY <1>1 DEF ListTypeOK
  <2>. HIDE DEF Frames
  <2>2. QED  BY <1>1, <2>1
<1>3. PICK e \in (Children(stack[n].dir) \cup stack[n].due) \ stack[n].got :
        entry' = e /\ stack' = [stack EXCEPT ![n].got = @ \cup {e}]
  BY DEF Readdir, Last
<1>. HIDE DEF n
<1>4. e \in files \cup dirs /\ e # <<>> /\ ParentDir(e) = stack[n].dir /\ e \notin stack[n].got
      /\ e \in PathType
  <2>1. e \in files \cup dirs /\ e # <<>> /\ ParentDir(e) = stack[n].dir
    BY <1>1, <1>2, <1>3, FrameFacts DEF FramesFit, Children
  <2>2. e \in PathType
    BY <1>1, <2>1, PathFacts DEF ListTypeOK, PathType
  <2>3. QED  BY <1>3, <2>1, <2>2
<1>5. /\ DOMAIN stack' = DOMAIN stack
      /\ \A i \in DOMAIN stack : /\ stack'[i].dir = stack[i].dir /\ stack'[i].due = stack[i].due
                                 /\ stack[i].got \subseteq stack'[i].got
      /\ stack'[n].got = stack[n].got \cup {e}
      /\ \A i \in DOMAIN stack : i # n => stack'[i] = stack[i]
      /\ stack' \in Seq(Frames)
  <2>1. PICK top \in Frames : top = stack[n]
    <3>. HIDE DEF Frames
    <3>1. QED  BY <1>2
  <2>2. PICK new : new = [top EXCEPT !.got = @ \cup {e}]
    OBVIOUS
  <2>3. new \in Frames /\ new.dir = top.dir /\ new.due = top.due /\ new.got = top.got \cup {e}
    BY <1>4, <2>1, <2>2
  <2>4. stack' = [stack EXCEPT ![n] = new]
    BY <1>3, <2>1, <2>2
  <2>. HIDE DEF Frames
  <2>5. /\ stack' \in Seq(Frames) /\ DOMAIN stack' = DOMAIN stack /\ stack'[n] = new
        /\ \A i \in DOMAIN stack : i # n => stack'[i] = stack[i]
    BY <1>2, <2>3, <2>4
  <2>6. QED  BY <2>1, <2>3, <2>5
<1>6. ListTypeOK'
  BY <1>1, <1>4, <1>3, <1>5 DEF ListTypeOK, Unseen, PathType
<1>7. NamesWereThere' /\ FilesAreInDirs' /\ FailsIfRemoved'
  BY <1>1, <1>3, <1>4, QuietWalk
<1>8. FramesFit'
  <2>1. ParentDir(entry') = Last(stack').dir /\ stack' # <<>>
    <3>1. Len(stack') = n /\ stack'[n].dir = stack[n].dir
      BY <1>2, <1>5
    <3>2. QED  BY <1>2, <1>3, <1>4, <1>5, <3>1 DEF Last
  <2>2. QED  BY <1>1, <1>5, <2>1 DEF FramesFit
<1>9. ASSUME NEW p \in always PROVE IsReached(p)' /\ IsReachedOnce(p)'
  <2>1. p \in AllPaths /\ p \in PathType /\ IsReached(p) /\ IsReachedOnce(p)
    BY <1>1, PathFacts DEF ListWalkInv, ListTypeOK
  <2>2. InHand(p)' => Above(stack[n].dir, p) /\ Toward(stack[n].dir, p) = e
    <3>1. stack[n].dir \in PathType /\ stack[n].dir # <<>>
      BY <1>1, <1>2, FrameFacts
    <3>2. InHand(p)' => e = p \/ Above(e, p)
      BY <1>3 DEF InHand, Above
    <3>3. QED  BY <1>4, <2>1, <3>1, <3>2, EntryIsToward
  <2>3. \A i \in DOMAIN stack : IsReturned(p, i) => IsReturned(p, i)'
    BY <1>5 DEF IsReturned, Above, Toward
  <2>4. ~InHand(p)
    BY <1>1 DEF InHand
  <2>5. IsReached(p)'
    <3>1. ASSUME Ahead(p) PROVE InHand(p)' \/ Ahead(p)'
      <4>1. PICK i \in DOMAIN stack :
              Above(stack[i].dir, p) /\ Toward(stack[i].dir, p) \in stack[i].due \ stack[i].got
        BY <3>1 DEF Ahead
      <4>2. CASE i = n /\ Toward(stack[n].dir, p) = e
        <5>1. e = p \/ Above(e, p)
          <6>1. stack[n].dir \in PathType
            BY <1>1, <1>2, FrameFacts
          <6>2. QED  BY <2>1, <4>1, <4>2, <6>1, TowardReaches
        <5>2. QED  BY <1>3, <1>4, <5>1 DEF InHand, Above
      <4>3. CASE ~(i = n /\ Toward(stack[n].dir, p) = e)
        <5>1. Toward(stack[i].dir, p) \notin stack'[i].got
          BY <1>5, <4>1, <4>3
        <5>2. i \in DOMAIN stack' /\ Above(stack'[i].dir, p)
              /\ Toward(stack'[i].dir, p) \in stack'[i].due \ stack'[i].got
          BY <1>5, <4>1, <5>1
        <5>3. QED  BY <5>2 DEF Ahead, Above, Toward
      <4>4. QED  BY <4>2, <4>3
    <3>2. QED  BY <1>1, <2>1, <2>4, <3>1 DEF IsReached
  <2>6. IsReachedOnce(p)'
    <3>1. ASSUME p \in ToSet(refs)
          PROVE  p[1] \notin ToSet(todo) /\ ~InHand(p)' /\ \A i \in DOMAIN stack : IsReturned(p, i)'
      <4>1. p[1] \notin ToSet(todo) /\ \A i \in DOMAIN stack : IsReturned(p, i)
        BY <2>1, <3>1 DEF IsReachedOnce
      <4>2. ~InHand(p)'
        BY <1>2, <1>4, <2>2, <4>1 DEF IsReturned
      <4>3. QED  BY <2>3, <4>1, <4>2
    <3>2. ASSUME InHand(p)' PROVE \A i \in DOMAIN stack : IsReturned(p, i)'
      <4>1. TAKE i \in DOMAIN stack
      <4>2. CASE i = n
        BY <1>5, <2>2, <3>2, <4>2 DEF IsReturned, Above, Toward
      <4>3. CASE i # n
        <5>1. i < n /\ Above(stack[n].dir, p)
          BY <1>2, <2>2, <3>2, <4>3
        <5>2. IsReturned(p, i)
          BY <1>2, <2>1, <5>1 DEF IsReachedOnce
        <5>3. QED  BY <2>3, <5>2
      <4>4. QED  BY <4>2, <4>3
    <3>3. \A i, j \in DOMAIN stack' : i < j /\ Above(stack'[j].dir, p) => IsReturned(p, i)'
      BY <1>5, <2>1, <2>3 DEF IsReachedOnce
    <3>4. QED  BY <1>1, <1>5, <2>1, <3>1, <3>2, <3>3 DEF IsReachedOnce, Above
  <2>7. QED  BY <2>5, <2>6
<1>10. QED  BY <1>1, <1>6, <1>7, <1>8, <1>9 DEF ListWalkInv, Unseen

LEMMA ReaddirEndsStep ==
  ASSUME ListWalkInv, ReaddirEnds
  PROVE  ListWalkInv'
<1>. DEFINE n == Len(stack)
            Frames == [dir : dirs, due : SUBSET (files \cup dirs), got : SUBSET (files \cup dirs)]
<1>1. /\ ListTypeOK /\ FilesAreInDirs /\ FramesFit /\ listing = "walking" /\ stack # <<>> /\ entry = <<>>
      /\ Last(stack).due \subseteq Last(stack).got /\ stack' = Front(stack)
      /\ Unseen /\ UNCHANGED <<listing, todo, entry, refs, shown, prefixes>>
  BY DEF ListWalkInv, ReaddirEnds, Unseen
<1>2. /\ stack \in Seq(Frames) /\ n \in Nat /\ DOMAIN stack = 1..n /\ n \in DOMAIN stack
      /\ stack' \in Seq(Frames) /\ DOMAIN stack' = 1..(n - 1)
      /\ \A i \in 1..(n - 1) : stack'[i] = stack[i]
  <2>1. stack \in Seq(Frames)
    BY <1>1 DEF ListTypeOK
  <2>. HIDE DEF Frames
  <2>2. QED  BY <1>1, <2>1 DEF Front
<1>3. stack[n].due \subseteq stack[n].got
  BY <1>1 DEF Last
<1>. HIDE DEF n
<1>4. ListTypeOK'
  BY <1>1, <1>2 DEF ListTypeOK, Unseen
<1>5. NamesWereThere' /\ FilesAreInDirs' /\ FailsIfRemoved'
  BY <1>1, QuietWalk
<1>6. \A i \in DOMAIN stack' : i \in DOMAIN stack /\ i # n /\ stack'[i] = stack[i]
  BY <1>2
<1>7. FramesFit'
  BY <1>1, <1>6 DEF FramesFit
<1>8. ASSUME NEW p \in always PROVE IsReached(p)' /\ IsReachedOnce(p)'
  <2>1. IsReached(p) /\ IsReachedOnce(p)
    BY DEF ListWalkInv
  <2>2. ~InHand(p) /\ ~InHand(p)'
    BY <1>1 DEF InHand
  <2>3. ASSUME Ahead(p) PROVE Ahead(p)'
    <3>1. PICK i \in DOMAIN stack :
            Above(stack[i].dir, p) /\ Toward(stack[i].dir, p) \in stack[i].due \ stack[i].got
      BY <2>3 DEF Ahead
    <3>2. i # n
      BY <1>3, <3>1
    <3>3. i \in DOMAIN stack' /\ stack'[i] = stack[i]
      BY <1>2, <3>1, <3>2
    <3>4. QED  BY <3>1, <3>3 DEF Ahead, Above, Toward
  <2>4. \A i \in DOMAIN stack' : IsReturned(p, i) => IsReturned(p, i)'
    BY <1>6 DEF IsReturned, Above, Toward
  <2>5. IsReached(p)'
    BY <1>1, <2>1, <2>2, <2>3 DEF IsReached
  <2>6. IsReachedOnce(p)'
    <3>1. \A i, j \in DOMAIN stack' : i < j /\ Above(stack'[j].dir, p) => IsReturned(p, i)'
      BY <1>6, <2>1, <2>4 DEF IsReachedOnce
    <3>2. QED  BY <1>1, <1>6, <2>1, <2>2, <2>4, <3>1 DEF IsReachedOnce, Above
  <2>7. QED  BY <2>5, <2>6
<1>9. QED  BY <1>1, <1>4, <1>5, <1>7, <1>8 DEF ListWalkInv, Unseen

(* stat of a directory: what was in hand is ahead. *)
LEMMA StatDirStep ==
  ASSUME ListWalkInv, Stat, entry \in dirs
  PROVE  ListWalkInv'
<1>. DEFINE n == Len(stack)
            Frames == [dir : dirs, due : SUBSET (files \cup dirs), got : SUBSET (files \cup dirs)]
<1>1. /\ ListTypeOK /\ FilesAreInDirs /\ FramesFit /\ listing = "walking" /\ entry # <<>> /\ entry' = <<>>
      /\ Opendir(entry) /\ Unseen /\ UNCHANGED <<todo, refs, shown, prefixes>>
  BY DEF ListWalkInv, Stat, Unseen, FilesAreInDirs
<1>2. PICK frame : frame = [dir |-> entry, due |-> Children(entry), got |-> {}]
  OBVIOUS
<1>3. /\ listing' = listing /\ Len(stack') = n + 1
      /\ DOMAIN stack' = DOMAIN stack \cup {n + 1}
      /\ stack'[n + 1] = frame
      /\ \A i \in DOMAIN stack : stack'[i] = stack[i] /\ i < n + 1
      /\ stack' \in Seq(Frames)
  BY <1>1, <1>2, PushFacts
<1>4. stack # <<>> /\ n \in DOMAIN stack /\ ParentDir(entry) = stack[n].dir /\ n \in Nat
  BY <1>1 DEF FramesFit, Last, ListTypeOK
<1>. HIDE DEF n
<1>5. ListTypeOK'
  BY <1>1, <1>3 DEF ListTypeOK, Unseen
<1>6. NamesWereThere' /\ FilesAreInDirs' /\ FailsIfRemoved'
  BY <1>1, <1>3, QuietWalk
<1>7. entry[1] = stack[n].dir[1]
  <2>1. entry \in PathType /\ stack[n].dir \in PathType /\ stack[n].dir # <<>>
    BY <1>1, <1>4, FrameFacts DEF ListTypeOK, PathType
  <2>2. QED  BY <1>1, <1>4, <2>1, ParentBegins
<1>8. FramesFit'
  <2>1. \A i \in DOMAIN stack' : stack'[i].dir[1] \in ToSet(prefixes') \ ToSet(todo')
    BY <1>1, <1>2, <1>3, <1>4, <1>7 DEF FramesFit
  <2>2. \A i \in DOMAIN stack' : \A e \in stack'[i].due : e # <<>> /\ ParentDir(e) = stack'[i].dir
    BY <1>1, <1>2, <1>3 DEF FramesFit, Children
  <2>3. QED  BY <1>1, <1>3, <2>1, <2>2 DEF FramesFit
<1>9. ASSUME NEW p \in always PROVE IsReached(p)' /\ IsReachedOnce(p)'
  <2>1. p \in AllPaths /\ p \in files /\ IsReached(p) /\ IsReachedOnce(p)
    BY <1>1 DEF ListWalkInv, ListTypeOK
  <2>2. ~InHand(p)'
    BY <1>1 DEF InHand
  <2>3. InHand(p) <=> Above(entry, p)
    BY <1>1, <2>1 DEF InHand, FilesAreInDirs
  <2>4. ASSUME InHand(p) PROVE Ahead(p)'
    <3>1. Toward(entry, p) \in Children(entry)
      BY <1>1, <2>3, <2>4, WayFacts
    <3>2. n + 1 \in DOMAIN stack' /\ Above(stack'[n + 1].dir, p)
          /\ Toward(stack'[n + 1].dir, p) \in stack'[n + 1].due \ stack'[n + 1].got
      BY <1>2, <1>3, <2>3, <2>4, <3>1
    <3>3. QED  BY <3>2 DEF Ahead, Above, Toward
  <2>5. ASSUME Ahead(p) PROVE Ahead(p)'
    <3>1. PICK i \in DOMAIN stack :
            Above(stack[i].dir, p) /\ Toward(stack[i].dir, p) \in stack[i].due \ stack[i].got
      BY <2>5 DEF Ahead
    <3>2. i \in DOMAIN stack' /\ stack'[i] = stack[i]
      BY <1>3, <3>1
    <3>3. QED  BY <3>1, <3>2 DEF Ahead, Above, Toward
  <2>6. IsReached(p)'
    BY <1>1, <2>1, <2>4, <2>5 DEF IsReached
  <2>7. \A i \in DOMAIN stack : IsReturned(p, i) => IsReturned(p, i)'
    BY <1>3 DEF IsReturned, Above, Toward
  <2>8. ASSUME ~InHand(p), NEW i \in DOMAIN stack', i = n + 1 PROVE IsReturned(p, i)'
    <3>1. stack'[i].dir = entry
      BY <1>2, <1>3, <2>8
    <3>2. ~Above(stack'[i].dir, p)
      BY <2>3, <2>8, <3>1
    <3>3. QED  BY <3>2 DEF IsReturned, Above
  <2>9. IsReachedOnce(p)'
    <3>1. ASSUME p \in ToSet(refs)
          PROVE  p[1] \notin ToSet(todo) /\ \A i \in DOMAIN stack' : IsReturned(p, i)'
      <4>1. p[1] \notin ToSet(todo) /\ ~InHand(p) /\ \A i \in DOMAIN stack : IsReturned(p, i)
        BY <2>1, <3>1 DEF IsReachedOnce
      <4>2. \A i \in DOMAIN stack' : i \in DOMAIN stack \/ i = n + 1
        BY <1>3
      <4>3. QED  BY <2>7, <2>8, <4>1, <4>2
    <3>2. ASSUME NEW i \in DOMAIN stack', NEW j \in DOMAIN stack', i < j, Above(stack'[j].dir, p)
          PROVE  IsReturned(p, i)'
      <4>1. CASE j = n + 1
        <5>1. i \in DOMAIN stack /\ InHand(p)
          BY <1>2, <1>3, <1>4, <2>3, <3>2, <4>1
        <5>2. QED  BY <2>1, <2>7, <5>1 DEF IsReachedOnce
      <4>2. CASE j # n + 1
        <5>1. i \in DOMAIN stack /\ j \in DOMAIN stack /\ Above(stack[j].dir, p)
          BY <1>3, <1>4, <3>2, <4>2 DEF ListTypeOK
        <5>2. QED  BY <2>1, <2>7, <3>2, <5>1 DEF IsReachedOnce
      <4>3. QED  BY <4>1, <4>2
    <3>3. QED  BY <1>1, <2>1, <2>2, <3>1, <3>2 DEF IsReachedOnce, Above
  <2>10. QED  BY <2>6, <2>9
<1>10. QED  BY <1>1, <1>5, <1>6, <1>8, <1>9 DEF ListWalkInv, Unseen

(* stat of a file: it is collected. *)
LEMMA StatFileStep ==
  ASSUME ListWalkInv, Stat, entry \in files
  PROVE  ListWalkInv'
<1>1. /\ ListTypeOK /\ FilesAreInDirs /\ FramesFit /\ NamesWereThere /\ FailsIfRemoved
      /\ listing = "walking" /\ entry # <<>> /\ entry' = <<>>
      /\ refs' = Append(refs, entry) /\ UNCHANGED <<listing, stack>>
      /\ Unseen /\ UNCHANGED <<todo, shown, prefixes>>
  BY DEF ListWalkInv, Stat, Unseen, FilesAreInDirs
<1>2. PICK m \in Nat : m = Len(refs)
  BY <1>1 DEF ListTypeOK
<1>3. /\ DOMAIN refs = 1..m /\ DOMAIN refs' = 1..(m + 1) /\ Len(refs') = m + 1 /\ refs'[m + 1] = entry
      /\ (\A i \in 1..m : refs'[i] = refs[i]) /\ refs' \in Seq(AllPaths)
  BY <1>1, <1>2 DEF ListTypeOK
<1>4. ListTypeOK'
  BY <1>1, <1>2, <1>3 DEF ListTypeOK, Unseen
<1>5. FilesAreInDirs' /\ FramesFit' /\ FailsIfRemoved'
  BY <1>1 DEF FilesAreInDirs, FramesFit, FailsIfRemoved, Unseen
<1>6. entry \in ever /\ entry[1] \in ToSet(prefixes)
  <2>1. stack # <<>> /\ Len(stack) \in DOMAIN stack /\ ParentDir(entry) = stack[Len(stack)].dir
    BY <1>1 DEF FramesFit, Last, ListTypeOK
  <2>2. entry[1] = stack[Len(stack)].dir[1]
    BY <1>1, <2>1, FrameFacts, ParentBegins DEF ListTypeOK, PathType
  <2>3. QED  BY <1>1, <2>1, <2>2 DEF FramesFit, ListTypeOK
<1>7. NamesWereThere'
  <2>1. \A i \in DOMAIN refs' : refs'[i] \in ever' /\ refs'[i][1] \in ToSet(prefixes')
    <3>1. \A i \in 1..m : refs'[i] \in ever /\ refs'[i][1] \in ToSet(prefixes)
      BY <1>1, <1>3 DEF NamesWereThere
    <3>2. \A i \in 1..(m + 1) : i \in 1..m \/ i = m + 1
      BY <1>2
    <3>3. QED  BY <1>1, <1>3, <1>6, <3>1, <3>2 DEF Unseen
  <2>2. QED  BY <1>1, <2>1 DEF NamesWereThere
<1>8. ASSUME NEW p \in always PROVE IsReached(p)' /\ IsReachedOnce(p)'
  <2>1. p \in files /\ IsReached(p) /\ IsReachedOnce(p)
    BY <1>1 DEF ListWalkInv, ListTypeOK
  <2>2. ~InHand(p)'
    BY <1>1 DEF InHand
  <2>3. InHand(p) <=> entry = p
    <3>1. InHand(p) => entry = p
      BY <1>1, InHandFacts DEF FilesAreInDirs
    <3>2. QED  BY <1>1, <3>1 DEF InHand
  <2>4. p \in ToSet(refs') <=> p \in ToSet(refs) \/ entry = p
    BY <1>2, <1>3 DEF ToSet
  <2>5. Ahead(p) = Ahead(p)' /\ \A i \in DOMAIN stack : IsReturned(p, i) = IsReturned(p, i)'
    BY <1>1 DEF Ahead, IsReturned
  <2>6. IsReached(p)'
    BY <1>1, <2>1, <2>3, <2>4, <2>5 DEF IsReached
  <2>7. ASSUME p \in ToSet(refs')
        PROVE  p[1] \notin ToSet(todo) /\ \A i \in DOMAIN stack : IsReturned(p, i)
    <3>1. CASE p \in ToSet(refs)
      BY <2>1, <3>1 DEF IsReachedOnce
    <3>2. CASE entry = p
      <4>1. Len(stack) \in DOMAIN stack /\ Above(stack[Len(stack)].dir, p)
        BY <1>1, <2>3, <3>2, InHandFacts
      <4>2. p[1] \notin ToSet(todo)
        BY <1>1, <4>1, FramePrefix
      <4>3. QED  BY <2>1, <2>3, <3>2, <4>2 DEF IsReachedOnce
    <3>3. QED  BY <2>4, <2>7, <3>1, <3>2
  <2>8. ASSUME NEW i \in DOMAIN refs', NEW j \in DOMAIN refs', refs'[i] = p, refs'[j] = p
        PROVE  i = j
    <3>1. \A k \in 1..m : refs[k] = p => entry # p
      BY <1>3, <2>1, <2>3 DEF IsReachedOnce, ToSet
    <3>2. (i \in 1..m /\ j \in 1..m) \/ (i = m + 1 /\ j = m + 1)
      BY <1>2, <1>3, <2>8, <3>1
    <3>3. CASE i \in 1..m /\ j \in 1..m
      BY <1>3, <2>1, <2>8, <3>3 DEF IsReachedOnce
    <3>4. QED  BY <3>2, <3>3
  <2>9. IsReachedOnce(p)'
    <3>1. \A i, j \in DOMAIN stack : i < j /\ Above(stack[j].dir, p) => IsReturned(p, i)
      BY <2>1 DEF IsReachedOnce
    <3>2. \A i, j \in DOMAIN stack' : i < j /\ Above(stack'[j].dir, p) => IsReturned(p, i)'
      BY <1>1, <2>5, <3>1
    <3>3. QED  BY <1>1, <2>2, <2>5, <2>7, <2>8, <3>2 DEF IsReachedOnce, Above
  <2>10. QED  BY <2>6, <2>9
<1>9. QED  BY <1>1, <1>4, <1>5, <1>7, <1>8 DEF ListWalkInv, Unseen

(* stat of what is gone. *)
LEMMA StatGoneStep ==
  ASSUME ListWalkInv, Stat, entry \notin files \cup dirs
  PROVE  ListWalkInv'
<1>1. /\ ListTypeOK /\ FilesAreInDirs /\ FramesFit /\ NamesWereThere /\ FailsIfRemoved
      /\ listing = "walking" /\ entry # <<>> /\ entry' = <<>> /\ listing' = "failed"
      /\ Unseen /\ UNCHANGED <<refs, stack, todo, shown, prefixes>>
  BY DEF ListWalkInv, Stat, Unseen
<1>2. ListTypeOK' /\ FilesAreInDirs' /\ FramesFit'
  <2>1. ListTypeOK'
    BY <1>1 DEF ListTypeOK, Unseen
  <2>2. QED  BY <1>1, <2>1 DEF FilesAreInDirs, FramesFit, Unseen
<1>3. NamesWereThere' /\ FailsIfRemoved'
  BY <1>1 DEF NamesWereThere, FailsIfRemoved, Unseen
<1>4. ASSUME NEW p \in always PROVE IsReached(p)' /\ IsReachedOnce(p)'
  <2>1. IsReached(p) /\ IsReachedOnce(p) /\ ~InHand(p)'
    BY <1>1 DEF ListWalkInv, InHand
  <2>2. ~InHand(p)
    BY <1>1, InHandFacts
  <2>3. Ahead(p) = Ahead(p)' /\ \A i \in DOMAIN stack : IsReturned(p, i) = IsReturned(p, i)'
    BY <1>1 DEF Ahead, IsReturned
  <2>4. IsReached(p)'
    BY <1>1, <2>1, <2>2, <2>3 DEF IsReached
  <2>5. IsReachedOnce(p)'
    BY <1>1, <2>1, <2>2, <2>3 DEF IsReachedOnce
  <2>6. QED  BY <2>4, <2>5
<1>5. QED  BY <1>1, <1>2, <1>3, <1>4 DEF ListWalkInv, Unseen

LEMMA StatStep ==
  ASSUME ListWalkInv, Stat
  PROVE  ListWalkInv'
BY StatDirStep, StatFileStep, StatGoneStep

LEMMA SortRefsStep ==
  ASSUME ListWalkInv, SortRefs
  PROVE  ListWalkInv'
<1>1. /\ ListTypeOK /\ FilesAreInDirs /\ FramesFit /\ NamesWereThere /\ FailsIfRemoved
      /\ listing = "walking" /\ stack = <<>> /\ todo = <<>> /\ entry = <<>> /\ listing' = "done"
      /\ Unseen /\ UNCHANGED <<stack, todo, entry, shown, prefixes>>
  BY DEF ListWalkInv, SortRefs, Unseen, FramesFit
<1>2. PICK s : s = SortedRefs
  OBVIOUS
<1>3. refs' = s
  BY <1>2 DEF SortRefs
<1>4. refs \in Seq(AllPaths)
  BY <1>1 DEF ListTypeOK
<1>5. /\ s \in Seq(AllPaths) /\ Len(s) = Len(refs) /\ ToSet(s) = ToSet(refs)
      /\ \A i, j \in DOMAIN s : i < j => Rank(s[i]) <= Rank(s[j])
      /\ \A p \in AllPaths :
           (\A i, j \in DOMAIN refs : refs[i] = p /\ refs[j] = p => i = j)
             => \A i, j \in DOMAIN s : s[i] = p /\ s[j] = p => i = j
  BY <1>2, <1>4, SortedFacts
<1>6. ListTypeOK' /\ FilesAreInDirs' /\ FramesFit'
  <2>1. ListTypeOK'
    BY <1>1, <1>3, <1>5 DEF ListTypeOK, Unseen
  <2>2. QED  BY <1>1, <2>1 DEF FilesAreInDirs, FramesFit, Unseen
<1>7. NamesWereThere' /\ FailsIfRemoved'
  <2>1. \A x \in ToSet(refs) : x \in ever /\ x[1] \in ToSet(prefixes)
    BY <1>1 DEF NamesWereThere, ToSet
  <2>2. \A i \in DOMAIN s : s[i] \in ToSet(refs)
    BY <1>5 DEF ToSet
  <2>3. QED  BY <1>1, <1>3, <1>5, <2>1, <2>2 DEF NamesWereThere, FailsIfRemoved, Unseen
<1>8. ASSUME NEW p \in always PROVE IsReached(p)' /\ IsReachedOnce(p)'
  <2>1. p \in AllPaths /\ IsReached(p) /\ IsReachedOnce(p)
    BY <1>1 DEF ListWalkInv, ListTypeOK
  <2>2. ~InHand(p)' /\ ~Ahead(p)' /\ ~InHand(p) /\ ~Ahead(p) /\ DOMAIN stack = {}
    BY <1>1 DEF InHand, Ahead
  <2>3. IsReached(p)'
    BY <1>1, <1>3, <1>5, <2>1, <2>2 DEF IsReached
  <2>4. \A i, j \in DOMAIN s : s[i] = p /\ s[j] = p => i = j
    <3>1. \A i, j \in DOMAIN refs : refs[i] = p /\ refs[j] = p => i = j
      BY <2>1 DEF IsReachedOnce
    <3>2. QED  BY <1>5, <2>1, <3>1
  <2>5. IsReachedOnce(p)'
    BY <1>1, <1>3, <1>5, <2>1, <2>2, <2>4 DEF IsReachedOnce
  <2>6. QED  BY <2>3, <2>5
<1>9. QED  BY <1>1, <1>6, <1>7, <1>8 DEF ListWalkInv, Unseen

LEMMA ShowRefStep ==
  ASSUME ListWalkInv, ShowRef
  PROVE  ListWalkInv'
<1>1. /\ ListTypeOK /\ FilesAreInDirs /\ FramesFit /\ NamesWereThere /\ FailsIfRemoved
      /\ listing = "done" /\ listing' \in {"done", "shown", "died"}
      /\ Unseen /\ UNCHANGED <<refs, stack, todo, entry, prefixes>>
  BY DEF ListWalkInv, ShowRef, Unseen
<1>2. shown' \in 0..Len(refs)
  <2>1. shown \in 0..Len(refs) /\ refs \in Seq(AllPaths)
    BY <1>1 DEF ListTypeOK
  <2>2. shown' = shown \/ (shown # Len(refs) /\ shown' = shown + 1)
    BY DEF ShowRef
  <2>3. QED  BY <2>1, <2>2
<1>3. ListTypeOK' /\ FilesAreInDirs' /\ FramesFit'
  <2>1. ListTypeOK'
    BY <1>1, <1>2 DEF ListTypeOK, Unseen
  <2>2. QED  BY <1>1, <2>1 DEF FilesAreInDirs, FramesFit, Unseen
<1>4. NamesWereThere' /\ FailsIfRemoved'
  BY <1>1, <1>2 DEF NamesWereThere, FailsIfRemoved, Unseen
<1>5. ASSUME NEW p \in always PROVE IsReached(p)' /\ IsReachedOnce(p)'
  BY <1>1, <1>5 DEF ListWalkInv, IsReached, IsReachedOnce, InHand, Ahead, IsReturned
<1>6. QED  BY <1>1, <1>3, <1>4, <1>5 DEF ListWalkInv, Unseen

----------------------------------------------------------------------------
(* The writer *)

(* What leaves no file in the place of a directory keeps the listing.        *)
LEMMA ChangeStep ==
  ASSUME ListWalkInv, NEW nextFiles, NEW nextDirs, NEW resolving,
         Change(nextFiles, nextDirs, resolving),
         nextFiles \subseteq AllPaths, dirs \subseteq nextDirs, nextFiles \cap nextDirs = {},
         \A f \in nextFiles : Ancestors(f) \subseteq nextDirs,
         \A d \in nextDirs : d \in PathType /\ d # <<>>
  PROVE  ListWalkInv'
<1>. DEFINE gone == files \ nextFiles
            Frames == [dir : dirs, due : SUBSET (files \cup dirs), got : SUBSET (files \cup dirs)]
            NextFrames == [dir : nextDirs, due : SUBSET (nextFiles \cup nextDirs),
                           got : SUBSET (nextFiles \cup nextDirs)]
<1>1. /\ ListTypeOK /\ FilesAreInDirs /\ FramesFit /\ NamesWereThere /\ FailsIfRemoved
      /\ files' = nextFiles /\ dirs' = nextDirs /\ always' = always \cap nextFiles
      /\ ever' = ever \cup nextFiles /\ removed' = (removed \/ ~(files \subseteq nextFiles))
      /\ changes' = changes + 1 /\ UNCHANGED <<listing, todo, entry, refs, shown, prefixes>>
  BY DEF ListWalkInv, Change
<1>2. /\ DOMAIN stack' = DOMAIN stack /\ (stack' = <<>> <=> stack = <<>>) /\ Len(stack') = Len(stack)
      /\ \A i \in DOMAIN stack : /\ stack'[i].dir = stack[i].dir
                                 /\ stack'[i].due = stack[i].due \ gone
                                 /\ stack'[i].got = stack[i].got \ gone
      /\ stack' \in Seq(NextFrames)
  <2>1. stack \in Seq(Frames)
    BY <1>1 DEF ListTypeOK
  <2>2. PICK n \in Nat : n = Len(stack)
    BY <2>1
  <2>3. DOMAIN stack = 1..n /\ (stack = <<>> <=> n = 0)
    <3>. HIDE DEF Frames
    <3>1. QED  BY <2>1, <2>2
  <2>4. stack' = [i \in 1..n |-> [stack[i] EXCEPT !.due = @ \ gone, !.got = @ \ gone]]
    BY <2>3 DEF Change
  <2>5. ASSUME NEW i \in 1..n
        PROVE  /\ stack'[i] \in NextFrames /\ stack'[i].dir = stack[i].dir
               /\ stack'[i].due = stack[i].due \ gone /\ stack'[i].got = stack[i].got \ gone
    <3>1. PICK frame \in Frames : frame = stack[i]
      <4>. HIDE DEF Frames
      <4>1. QED  BY <2>1, <2>3
    <3>2. PICK new : new = [frame EXCEPT !.due = @ \ gone, !.got = @ \ gone]
      OBVIOUS
    <3>3. /\ new = [dir |-> frame.dir, due |-> frame.due \ gone, got |-> frame.got \ gone]
          /\ frame.dir \in dirs /\ frame.due \subseteq files \cup dirs /\ frame.got \subseteq files \cup dirs
      BY <3>1, <3>2
    <3>4. stack'[i] = new
      BY <2>4, <3>1, <3>2
    <3>5. new \in NextFrames
      BY <3>3
    <3>6. QED  BY <3>1, <3>3, <3>4, <3>5
  <2>. HIDE DEF gone, NextFrames
  <2>6. stack' \in Seq(NextFrames) /\ DOMAIN stack' = 1..n /\ Len(stack') = n
    <3>1. stack' \in [1..n -> NextFrames]
      BY <2>4, <2>5
    <3>2. QED  BY <2>2, <3>1
  <2>7. stack' = <<>> <=> n = 0
    BY <2>6
  <2>8. QED  BY <2>2, <2>3, <2>5, <2>6, <2>7
<1>3. ListTypeOK'
  <2>1. /\ files' \subseteq AllPaths /\ always' \subseteq files' /\ files' \subseteq ever' /\ ever' \subseteq AllPaths
        /\ \A d \in dirs' : d \in Seq(PathNames) /\ d # <<>>
    BY <1>1 DEF ListTypeOK, PathType
  <2>2. removed' \in BOOLEAN /\ changes' \in Nat
    BY <1>1 DEF ListTypeOK
  <2>3. QED  BY <1>1, <1>2, <2>1, <2>2 DEF ListTypeOK
<1>4. FilesAreInDirs'
  BY <1>1 DEF FilesAreInDirs, Ancestors
<1>5. FramesFit'
  BY <1>1, <1>2 DEF FramesFit, Last
<1>6. NamesWereThere'
  BY <1>1 DEF NamesWereThere
<1>7. FailsIfRemoved'
  <2>1. ~removed' => files \subseteq nextFiles /\ ~removed
    BY <1>1 DEF ListTypeOK
  <2>2. QED  BY <1>1, <2>1 DEF FailsIfRemoved
<1>8. ASSUME NEW p \in always' PROVE IsReached(p)' /\ IsReachedOnce(p)'
  <2>1. p \in always /\ p \in files /\ p \in nextFiles /\ IsReached(p) /\ IsReachedOnce(p)
    BY <1>1 DEF ListWalkInv, ListTypeOK
  <2>2. InHand(p)' = InHand(p)
    BY <1>1 DEF InHand, Above
  <2>3. \A i \in DOMAIN stack : Above(stack[i].dir, p) => Toward(stack[i].dir, p) \notin gone
    <3>1. TAKE i \in DOMAIN stack
    <3>2. HAVE Above(stack[i].dir, p)
    <3>3. Toward(stack[i].dir, p) = p \/ Toward(stack[i].dir, p) \in dirs
      BY <1>1, <2>1, <3>2, FrameFacts, WayFacts
    <3>4. QED  BY <1>1, <2>1, <3>3 DEF FilesAreInDirs
  <2>4. ASSUME Ahead(p) PROVE Ahead(p)'
    <3>1. PICK i \in DOMAIN stack :
            Above(stack[i].dir, p) /\ Toward(stack[i].dir, p) \in stack[i].due \ stack[i].got
      BY <2>4 DEF Ahead
    <3>2. i \in DOMAIN stack' /\ Above(stack'[i].dir, p)
          /\ Toward(stack'[i].dir, p) \in stack'[i].due \ stack'[i].got
      BY <1>2, <2>3, <3>1
    <3>3. QED  BY <3>2 DEF Ahead, Above, Toward
  <2>5. \A i \in DOMAIN stack : IsReturned(p, i) => IsReturned(p, i)'
    BY <1>2, <2>3 DEF IsReturned, Above, Toward
  <2>6. IsReached(p)'
    BY <1>1, <2>1, <2>2, <2>4 DEF IsReached
  <2>7. IsReachedOnce(p)'
    <3>1. \A i, j \in DOMAIN stack' : i < j /\ Above(stack'[j].dir, p) => IsReturned(p, i)'
      BY <1>2, <2>1, <2>5 DEF IsReachedOnce
    <3>2. QED  BY <1>1, <1>2, <2>1, <2>2, <2>5, <3>1 DEF IsReachedOnce, Above
  <2>8. QED  BY <2>6, <2>7
<1>9. QED  BY <1>1, <1>3, <1>4, <1>5, <1>6, <1>7, <1>8 DEF ListWalkInv

LEMMA AncestorFacts ==
  ASSUME ListTypeOK, NEW p \in RefPaths
  PROVE  /\ p \in AllPaths /\ TmpPath[p] \in AllPaths
         /\ Ancestors(TmpPath[p]) = Ancestors(p)
         /\ \A d \in Ancestors(p) : d \in PathType /\ d # <<>>
         /\ TmpPath[p] \notin Ancestors(p) /\ p \notin Ancestors(p)
<1>1. p \in AllPaths /\ TmpPath[p] \in AllPaths
  BY DEF AllPaths
<1>2. PICK m \in Nat, n \in Nat : m = Len(p) /\ n = Len(TmpPath[p]) /\ m >= 2 /\ n >= 2
  BY <1>1, PathFacts DEF PathType
<1>3. PICK t \in PathType : t = TmpPath[p]
  BY <1>1, PathFacts
<1>4. p \in PathType
  BY <1>1, PathFacts
<1>5. SubSeq(p, 1, m - 1) = SubSeq(t, 1, n - 1)
  BY <1>2, <1>3, TmpIsBeside DEF ParentDir, Front
<1>6. m = n
  <2>1. m - 1 \in 1..Len(p) /\ n - 1 \in 1..Len(t)
    BY <1>2, <1>3
  <2>2. Len(SubSeq(p, 1, m - 1)) = m - 1 /\ Len(SubSeq(t, 1, n - 1)) = n - 1
    BY <1>3, <1>4, <2>1, PrefixFacts
  <2>3. QED  BY <1>2, <1>5, <2>2
<1>7. \A i \in 1..(m - 1) : SubSeq(p, 1, i) = SubSeq(t, 1, i)
  <2>1. TAKE i \in 1..(m - 1)
  <2>2. m - 1 \in 1..Len(p) /\ m - 1 \in 1..Len(t)
    BY <1>2, <1>3, <1>6
  <2>3. /\ SubSeq(SubSeq(p, 1, m - 1), 1, i) = SubSeq(p, 1, i)
        /\ SubSeq(SubSeq(t, 1, m - 1), 1, i) = SubSeq(t, 1, i)
    BY <1>3, <1>4, <2>2, PrefixOfPrefix
  <2>4. QED  BY <1>5, <1>6, <2>3
<1>8. Ancestors(t) = Ancestors(p)
  BY <1>2, <1>3, <1>6, <1>7 DEF Ancestors
<1>9. ASSUME NEW d \in Ancestors(p) PROVE d \in PathType /\ d # <<>> /\ Len(d) < m
  <2>1. PICK i \in 1..(m - 1) : d = SubSeq(p, 1, i)
    BY <1>2 DEF Ancestors
  <2>2. i \in 1..Len(p) /\ i < m
    BY <1>2, <2>1
  <2>3. SubSeq(p, 1, i) \in PathType /\ SubSeq(p, 1, i) # <<>> /\ Len(SubSeq(p, 1, i)) = i
    BY <1>4, <2>2, PrefixFacts
  <2>4. QED  BY <2>1, <2>2, <2>3
<1>10. TmpPath[p] \notin Ancestors(p) /\ p \notin Ancestors(p)
  <2>1. \A d \in Ancestors(p) : Len(d) < m
    BY <1>9
  <2>2. ~(Len(p) < m) /\ ~(Len(TmpPath[p]) < m)
    BY <1>2, <1>6
  <2>3. QED  BY <2>1, <2>2
<1>11. QED  BY <1>1, <1>3, <1>8, <1>9, <1>10

LEMMA WriterStep ==
  ASSUME ListWalkInv, NEW p \in RefPaths, OpenTmp(p) \/ RenameTmp(p) \/ Delete(p)
  PROVE  ListWalkInv'
<1>1. /\ ListTypeOK /\ FilesAreInDirs /\ files \subseteq AllPaths /\ files \cap dirs = {}
      /\ (\A f \in files : Ancestors(f) \subseteq dirs) /\ \A d \in dirs : d \in PathType /\ d # <<>>
  BY DEF ListWalkInv, ListTypeOK, FilesAreInDirs, PathType
<1>2. /\ p \in AllPaths /\ TmpPath[p] \in AllPaths
      /\ Ancestors(TmpPath[p]) = Ancestors(p)
      /\ \A d \in Ancestors(p) : d \in PathType /\ d # <<>>
      /\ TmpPath[p] \notin Ancestors(p) /\ p \notin Ancestors(p)
  BY <1>1, AncestorFacts
<1>3. CASE OpenTmp(p)
  <2>1. /\ Ancestors(p) \cap files = {} /\ TmpPath[p] \notin files \cup dirs
        /\ Change(files \cup {TmpPath[p]}, dirs \cup Ancestors(p), ids)
    BY <1>3 DEF OpenTmp
  <2>2. (files \cup {TmpPath[p]}) \cap (dirs \cup Ancestors(p)) = {}
    BY <1>1, <1>2, <2>1
  <2>3. \A f \in files \cup {TmpPath[p]} : Ancestors(f) \subseteq dirs \cup Ancestors(p)
    BY <1>1, <1>2
  <2>4. \A d \in dirs \cup Ancestors(p) : d \in PathType /\ d # <<>>
    BY <1>1, <1>2
  <2>5. files \cup {TmpPath[p]} \subseteq AllPaths
    BY <1>1, <1>2
  <2>6. QED  BY <2>1, <2>2, <2>3, <2>4, <2>5, ChangeStep
<1>4. CASE RenameTmp(p)
  <2>1. /\ TmpPath[p] \in files
        /\ Change((files \ {TmpPath[p]}) \cup ({p} \ dirs), dirs,
                  (ids \ {TmpPath[p], p}) \cup (IF TmpPath[p] \in ids THEN {p} \ dirs ELSE {}))
    BY <1>4 DEF RenameTmp
  <2>2. ((files \ {TmpPath[p]}) \cup ({p} \ dirs)) \cap dirs = {}
    BY <1>1
  <2>3. \A f \in (files \ {TmpPath[p]}) \cup ({p} \ dirs) : Ancestors(f) \subseteq dirs
    BY <1>1, <1>2, <2>1
  <2>4. (files \ {TmpPath[p]}) \cup ({p} \ dirs) \subseteq AllPaths
    BY <1>1, <1>2
  <2>5. QED  BY <1>1, <2>1, <2>2, <2>3, <2>4, ChangeStep
<1>5. CASE Delete(p)
  <2>1. Change(files \ {p}, dirs, ids \ {p})
    BY <1>5 DEF Delete
  <2>2. (files \ {p}) \cap dirs = {} /\ files \ {p} \subseteq AllPaths
    BY <1>1
  <2>3. \A f \in files \ {p} : Ancestors(f) \subseteq dirs
    BY <1>1
  <2>4. QED  BY <1>1, <2>1, <2>2, <2>3, ChangeStep
<1>6. QED  BY <1>3, <1>4, <1>5

(* A write adds no file and takes none. *)
LEMMA WriteTmpStep ==
  ASSUME ListWalkInv, NEW p \in RefPaths, WriteTmp(p)
  PROVE  ListWalkInv'
<1>1. /\ Unseen /\ UNCHANGED walkVars
  BY DEF WriteTmp, Unseen
<1>2. ListTypeOK' /\ FilesAreInDirs' /\ FramesFit' /\ NamesWereThere' /\ FailsIfRemoved'
  BY <1>1 DEF ListWalkInv, Unseen, walkVars, ListTypeOK, FilesAreInDirs, FramesFit, NamesWereThere, FailsIfRemoved
<1>3. ASSUME NEW q \in always PROVE IsReached(q)' /\ IsReachedOnce(q)'
  BY <1>1, <1>3 DEF ListWalkInv, walkVars, IsReached, IsReachedOnce, InHand, Ahead, IsReturned
<1>4. QED  BY <1>1, <1>2, <1>3 DEF ListWalkInv, Unseen

----------------------------------------------------------------------------

LEMMA WalkInvInit ==
  ASSUME ListInit
  PROVE  ListWalkInv
<1>1. /\ files \in FirstPaths /\ always = files /\ ever = files /\ removed = FALSE
      /\ dirs = {<<kind>> : kind \in Kinds} \cup UNION {Ancestors(p) : p \in files}
      /\ listing = "none" /\ todo = <<>> /\ stack = <<>> /\ entry = <<>> /\ refs = <<>> /\ shown = 0
      /\ prefixes = <<>> /\ changes = 0
  BY DEF ListInit
<1>2. files \subseteq AllPaths /\ \A f, g \in files : f \notin Ancestors(g)
  <2>1. files \subseteq AllPaths
    BY <1>1 DEF AllPaths
  <2>2. \A g \in files : Ancestors(g) \cap files = {}
    BY <1>1, FirstPathsFit
  <2>3. QED  BY <2>1, <2>2
<1>3. ASSUME NEW d \in dirs PROVE d \in PathType /\ d # <<>> /\ d \notin files
  <2>1. CASE d \in {<<kind>> : kind \in Kinds}
    <3>1. PICK kind \in Kinds : d = <<kind>>
      BY <2>1
    <3>2. d \in PathType /\ d # <<>> /\ Len(d) = 1
      <4>1. kind \in PathNames
        BY DEF PathNames
      <4>2. QED  BY <3>1, <4>1 DEF PathType
    <3>3. d \notin files
      <4>1. \A f \in files : Len(f) >= 2
        BY <1>2, PathFacts
      <4>2. ~(Len(d) >= 2)
        BY <3>2
      <4>3. QED  BY <4>1, <4>2
    <3>4. QED  BY <3>2, <3>3
  <2>2. CASE d \notin {<<kind>> : kind \in Kinds}
    <3>1. PICK p \in files : d \in Ancestors(p)
      BY <1>1, <2>2
    <3>2. PICK i \in 1..(Len(p) - 1) : d = SubSeq(p, 1, i)
      BY <3>1 DEF Ancestors
    <3>3. p \in PathType
      BY <1>2, PathFacts
    <3>4. i \in 1..Len(p)
      BY <3>2, <3>3 DEF PathType
    <3>5. d \in PathType /\ d # <<>>
      BY <3>2, <3>3, <3>4, PrefixFacts
    <3>6. QED  BY <1>2, <3>1, <3>5
  <2>3. QED  BY <2>1, <2>2
<1>4. ListTypeOK
  <2>1. stack \in Seq([dir : dirs, due : SUBSET (files \cup dirs), got : SUBSET (files \cup dirs)])
    <3>. DEFINE Frames == [dir : dirs, due : SUBSET (files \cup dirs), got : SUBSET (files \cup dirs)]
    <3>. HIDE DEF Frames
    <3>1. stack \in Seq(Frames)
      BY <1>1
    <3>2. QED  BY <3>1 DEF Frames
  <2>2. todo \in Seq(Kinds) /\ prefixes \in Seq(Kinds) /\ entry \in Seq(PathNames) /\ refs \in Seq(AllPaths)
    BY <1>1
  <2>3. shown \in 0..Len(refs) /\ changes \in Nat
    BY <1>1
  <2>4. QED  BY <1>1, <1>2, <1>3, <2>1, <2>2, <2>3 DEF ListTypeOK, PathType
<1>5. FilesAreInDirs
  BY <1>1, <1>2, <1>3 DEF FilesAreInDirs
<1>6. FramesFit
  BY <1>1 DEF FramesFit, IsInjective, ToSet
<1>7. ASSUME NEW p \in always PROVE IsReached(p) /\ IsReachedOnce(p)
  BY <1>1 DEF IsReached, IsReachedOnce, InHand, ToSet
<1>8. NamesWereThere /\ FailsIfRemoved
  BY <1>1 DEF NamesWereThere, FailsIfRemoved
<1>9. QED  BY <1>4, <1>5, <1>6, <1>7, <1>8 DEF ListWalkInv

LEMMA WalkInvNext ==
  ASSUME ListWalkInv, [ListNext]_listVars
  PROVE  ListWalkInv'
<1>1. CASE \E flags \in Flags : StartList(flags)
  BY <1>1, StartListStep
<1>2. CASE OpenPrefix
  BY <1>2, OpenPrefixStep
<1>3. CASE Readdir
  BY <1>3, ReaddirStep
<1>4. CASE ReaddirEnds
  BY <1>4, ReaddirEndsStep
<1>5. CASE Stat
  BY <1>5, StatStep
<1>6. CASE SortRefs
  BY <1>6, SortRefsStep
<1>7. CASE ShowRef
  BY <1>7, ShowRefStep
<1>8. CASE \E p \in RefPaths : OpenTmp(p) \/ RenameTmp(p) \/ Delete(p)
  BY <1>8, WriterStep
<1>9. CASE \E p \in RefPaths : WriteTmp(p)
  BY <1>9, WriteTmpStep
<1>10. CASE UNCHANGED listVars
  <2>1. ListTypeOK' /\ FilesAreInDirs' /\ FramesFit' /\ NamesWereThere' /\ FailsIfRemoved'
    BY <1>10 DEF ListWalkInv, listVars, ListTypeOK, FilesAreInDirs, FramesFit, NamesWereThere, FailsIfRemoved
  <2>2. ASSUME NEW p \in always PROVE IsReached(p)' /\ IsReachedOnce(p)'
    BY <1>10, <2>2 DEF ListWalkInv, listVars, IsReached, IsReachedOnce, InHand, Ahead, IsReturned
  <2>3. QED  BY <1>10, <2>1, <2>2 DEF ListWalkInv, listVars
<1>11. QED
  BY <1>1, <1>2, <1>3, <1>4, <1>5, <1>6, <1>7, <1>8, <1>9, <1>10 DEF ListNext

(* Only a change, and the start of a listing, touch what is kept of the      *)
(* files that do not resolve.                                                *)
LEMMA ChangeUnresolved ==
  ASSUME ListInv, NEW nextFiles, NEW nextDirs, NEW resolving, Change(nextFiles, nextDirs, resolving),
         resolving \subseteq nextFiles
  PROVE  DiesAtUnresolved'
<1>1. PICK links \in SUBSET (Symbolic \cap nextFiles) : ids' = (resolving \ Symbolic) \cup links
  BY DEF Change
<1>2. ids' \subseteq files'
  BY <1>1 DEF Change
<1>3. ever' \subseteq ids' \cup unresolved'
  <2>1. ever' = ever \cup nextFiles /\ unresolved' = unresolved \cup ((files \cup nextFiles) \ ids')
    BY DEF Change
  <2>2. ever \subseteq files \cup unresolved
    BY DEF ListInv, DiesAtUnresolved
  <2>3. QED  BY <2>1, <2>2
<1>4. listing' # "died"
  BY DEF Change, Ends
<1>5. QED  BY <1>2, <1>3, <1>4 DEF DiesAtUnresolved

LEMMA UnresolvedNext ==
  ASSUME ListInv, [ListNext]_listVars
  PROVE  DiesAtUnresolved'
<1>1. /\ ids \subseteq files /\ ever \subseteq ids \cup unresolved
      /\ (listing = "died" => shown < Len(refs) /\ refs[shown + 1] \in unresolved)
  BY DEF ListInv, DiesAtUnresolved
<1>2. ASSUME NEW flags \in Flags, StartList(flags) PROVE DiesAtUnresolved'
  BY <1>1, <1>2 DEF StartList, DiesAtUnresolved
<1>3. CASE OpenPrefix \/ Stat
  <2>1. UNCHANGED <<files, ids, ever, unresolved>> /\ listing = "walking"
    BY <1>3 DEF OpenPrefix, Stat
  <2>2. listing' # "died"
    BY <1>3 DEF OpenPrefix, Stat, Opendir
  <2>3. QED  BY <1>1, <2>1, <2>2 DEF DiesAtUnresolved
<1>4. CASE Readdir \/ ReaddirEnds \/ SortRefs
  <2>1. UNCHANGED <<files, ids, ever, unresolved>> /\ listing' # "died"
    BY <1>4 DEF Readdir, ReaddirEnds, SortRefs
  <2>2. QED  BY <1>1, <2>1 DEF DiesAtUnresolved
<1>5. CASE ShowRef
  <2>1. /\ UNCHANGED <<files, ids, ever, unresolved, refs>> /\ listing = "done"
        /\ shown \in 0..Len(refs) /\ refs \in Seq(AllPaths)
    BY <1>5 DEF ShowRef, ListInv, ListWalkInv, ListTypeOK
  <2>2. CASE shown = Len(refs) \/ refs[shown + 1] \in ids
    <3>1. listing' # "died"
      BY <1>5, <2>1, <2>2 DEF ShowRef
    <3>2. QED  BY <1>1, <2>1, <3>1 DEF DiesAtUnresolved
  <2>3. CASE shown # Len(refs) /\ refs[shown + 1] \notin ids
    <3>1. shown' = shown /\ shown < Len(refs) /\ shown + 1 \in DOMAIN refs
      BY <1>5, <2>1, <2>3 DEF ShowRef
    <3>2. refs[shown + 1] \in ever
      BY <3>1 DEF ListInv, ListWalkInv, NamesWereThere
    <3>3. QED  BY <1>1, <2>1, <2>3, <3>1, <3>2 DEF DiesAtUnresolved
  <2>4. QED  BY <2>2, <2>3
<1>6. ASSUME NEW p \in RefPaths, OpenTmp(p) PROVE DiesAtUnresolved'
  <2>1. Change(files \cup {TmpPath[p]}, dirs \cup Ancestors(p), ids)
    BY <1>6 DEF OpenTmp
  <2>2. ids \subseteq files \cup {TmpPath[p]}
    BY <1>1
  <2>3. QED  BY <2>1, <2>2, ChangeUnresolved
<1>7. ASSUME NEW p \in RefPaths, WriteTmp(p) PROVE DiesAtUnresolved'
  <2>1. /\ ids' = ids \cup {TmpPath[p]} /\ TmpPath[p] \in files
        /\ UNCHANGED <<files, ever, unresolved, listing, refs, shown>>
    BY <1>7 DEF WriteTmp, walkVars
  <2>2. QED  BY <1>1, <2>1 DEF DiesAtUnresolved
<1>8. ASSUME NEW p \in RefPaths, RenameTmp(p) PROVE DiesAtUnresolved'
  <2>. DEFINE nextFiles == (files \ {TmpPath[p]}) \cup ({p} \ dirs)
              resolving == (ids \ {TmpPath[p], p}) \cup (IF TmpPath[p] \in ids THEN {p} \ dirs ELSE {})
  <2>1. Change(nextFiles, dirs, resolving)
    BY <1>8 DEF RenameTmp
  <2>2. resolving \subseteq nextFiles
    BY <1>1
  <2>. HIDE DEF nextFiles, resolving
  <2>3. QED  BY <2>1, <2>2, ChangeUnresolved
<1>9. ASSUME NEW p \in RefPaths, Delete(p) PROVE DiesAtUnresolved'
  <2>1. Change(files \ {p}, dirs, ids \ {p})
    BY <1>9 DEF Delete
  <2>2. ids \ {p} \subseteq files \ {p}
    BY <1>1
  <2>3. QED  BY <2>1, <2>2, ChangeUnresolved
<1>10. CASE UNCHANGED listVars
  BY <1>1, <1>10 DEF listVars, DiesAtUnresolved
<1>11. QED
  BY <1>2, <1>3, <1>4, <1>5, <1>6, <1>7, <1>8, <1>9, <1>10 DEF ListNext

(* Where a listing stands to each reference that is there throughout, as it  *)
(* walks the directories under refs, and show-ref to those that resolve.     *)
THEOREM ListInvariant == ListSpec => []ListInv
<1>1. ListInit => ListInv
  <2>1. ListInit => DiesAtUnresolved
    BY DEF ListInit, DiesAtUnresolved
  <2>2. QED  BY <2>1, WalkInvInit DEF ListInv
<1>2. ListInv /\ [ListNext]_listVars => ListInv'
  BY WalkInvNext, UnresolvedNext DEF ListInv
<1>3. QED  BY <1>1, <1>2, PTL DEF ListSpec

(* The names of one kind differ behind it. *)
LEMMA ShortNamesDiffer ==
  ASSUME NEW p \in AllPaths, NEW q \in AllPaths, p[1] = q[1], Tail(p) = Tail(q)
  PROVE  p = q
<1>1. p \in PathType /\ q \in PathType /\ p # <<>> /\ q # <<>>
  BY PathFacts
<1>2. PICK m \in Nat, n \in Nat : m = Len(p) /\ n = Len(q) /\ m > 0 /\ n > 0
  BY <1>1 DEF PathType
<1>3. m = n
  <2>1. Len(Tail(p)) = m - 1 /\ Len(Tail(q)) = n - 1
    BY <1>1, <1>2 DEF PathType
  <2>2. QED  BY <1>2, <2>1
<1>4. \A i \in 1..(m - 1) : p[i + 1] = q[i + 1]
  <2>1. TAKE i \in 1..(m - 1)
  <2>2. Tail(p)[i] = p[i + 1] /\ Tail(q)[i] = q[i + 1]
    BY <1>1, <1>2, <1>3 DEF PathType
  <2>3. QED  BY <2>2
<1>5. \A i \in 1..m : p[i] = q[i]
  <2>1. TAKE i \in 1..m
  <2>2. CASE i # 1
    <3>1. i - 1 \in 1..(m - 1) /\ (i - 1) + 1 = i
      BY <1>2, <2>2
    <3>2. QED  BY <1>4, <3>1
  <2>3. QED  BY <2>2
<1>6. QED  BY <1>1, <1>2, <1>3, <1>5 DEF PathType

(* A listing has every reference that is there throughout once and in order, *)
(* fails only if a file disappeared, and show-ref dies only at a name that   *)
(* was gone or did not resolve since (qgit_reference_list, show-ref.c:73).   *)
THEOREM ListingsAreFaithful == ListSpec => []ListingIsFaithful
<1>1. ASSUME ListInv PROVE ListingIsFaithful
  <2>1. /\ ListTypeOK /\ FilesAreInDirs /\ FramesFit /\ NamesWereThere /\ FailsIfRemoved
        /\ \A p \in always : IsReached(p) /\ IsReachedOnce(p)
    BY <1>1 DEF ListInv, ListWalkInv
  <2>2. ASSUME listing \in {"done", "shown", "died"}
        PROVE  /\ Walked(always) \subseteq ToSet(refs)
               /\ ToSet(refs) \subseteq Walked(ever)
    <3>1. todo = <<>> /\ stack = <<>> /\ entry = <<>>
      BY <2>1, <2>2 DEF FramesFit
    <3>2. ASSUME NEW p \in Walked(always) PROVE p \in ToSet(refs)
      <4>1. p \in always /\ p[1] \in ToSet(prefixes)
        BY DEF Walked, ToSet
      <4>2. ~InHand(p) /\ ~Ahead(p) /\ p[1] \notin ToSet(todo)
        BY <3>1 DEF InHand, Ahead, ToSet
      <4>3. QED  BY <2>1, <4>1, <4>2 DEF IsReached
    <3>3. ToSet(refs) \subseteq Walked(ever)
      BY <2>1 DEF NamesWereThere, Walked, ToSet
    <3>4. QED  BY <3>2, <3>3
  <2>3. ASSUME listing \in {"done", "shown", "died"},
               NEW i \in DOMAIN refs, NEW j \in DOMAIN refs, i < j
        PROVE  /\ Rank(refs[i]) <= Rank(refs[j])
               /\ refs[i] = refs[j] => refs[i] \notin always
               /\ Len(prefixes) = 1 /\ ShortNames[i] = ShortNames[j] => refs[i] = refs[j]
    <3>1. Rank(refs[i]) <= Rank(refs[j])
      BY <2>1, <2>3 DEF NamesWereThere
    <3>2. refs[i] = refs[j] => refs[i] \notin always
      <4>1. i \in Nat /\ j \in Nat
        BY <2>1 DEF ListTypeOK
      <4>2. i # j
        BY <2>3, <4>1
      <4>3. QED  BY <2>1, <4>2 DEF IsReachedOnce
    <3>3. ASSUME Len(prefixes) = 1, ShortNames[i] = ShortNames[j] PROVE refs[i] = refs[j]
      <4>1. refs[i] \in AllPaths /\ refs[j] \in AllPaths
        BY <2>1 DEF ListTypeOK
      <4>2. \A x, y \in ToSet(prefixes) : x = y
        <5>1. DOMAIN prefixes = {1}
          BY <2>1, <3>3 DEF ListTypeOK
        <5>2. QED  BY <5>1 DEF ToSet
      <4>3. refs[i][1] = refs[j][1]
        BY <2>1, <4>2 DEF NamesWereThere
      <4>4. Tail(refs[i]) = Tail(refs[j])
        BY <3>3 DEF ShortNames
      <4>5. QED  BY <4>1, <4>3, <4>4, ShortNamesDiffer
    <3>4. QED  BY <3>1, <3>2, <3>3
  <2>4. QED  BY <1>1, <2>1, <2>2, <2>3 DEF ListingIsFaithful, FailsIfRemoved, ListInv, DiesAtUnresolved
<1>2. QED  BY <1>1, ListInvariant, PTL
=============================================================================
