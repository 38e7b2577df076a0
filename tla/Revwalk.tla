------------------------------ MODULE Revwalk -------------------------------
(***************************************************************************)
(* The revision walk of src/src/libqgit/revwalk.  The heap is the priority *)
(* queue it implements (PQueue, Heap), here a count for each commit: that  *)
(* no commit is in it twice is for the set of visited ids to ensure.  Any  *)
(* of the newest commits may be popped.  The history is chosen at the      *)
(* start and not changed; some of its commits may not be stored.           *)
(***************************************************************************)
EXTENDS Integers, Sequences

CONSTANTS Commits,    \* commit ids
          Histories,  \* histories to walk in
          None        \* no walk has begun

History == [parents : [Commits -> Seq(Commits)],
            time : [Commits -> Int],
            stored : SUBSET Commits]

ASSUME HistoriesAssumption == Histories \subseteq History
ASSUME NoneIsNoCommit == None \notin Commits

VARIABLES hist,     \* the history
          mode,     \* which parents are followed
          pq,       \* how often a commit is in the priority queue
          visited,  \* ids that have been pushed
          root,     \* start of the present or last walk
          emitted,  \* what that walk has yielded
          failed    \* a step of that walk has failed

vars == <<hist, mode, pq, visited, root, emitted, failed>>

TypeOK ==
  /\ hist \in Histories
  /\ mode \in {"all", "first"}
  /\ pq \in [Commits -> Nat]
  /\ visited \subseteq Commits
  /\ root \in Commits \cup {None}
  /\ emitted \in Seq(Commits)
  /\ failed \in BOOLEAN

EmptyQueue == [c \in Commits |-> 0]

Queued == {c \in Commits : pq[c] > 0}

(* Mutants: the comparison is swapped; there is no comparison. *)
Oldest(S) == {c \in S : \A d \in S : hist.time[c] <= hist.time[d]}
Unordered(S) == S

(* The commits that pq_commit_cmp_time puts before no other. *)
Newest(S) == {c \in S : \A d \in S : hist.time[c] >= hist.time[d]}

Init ==
  /\ hist \in Histories
  /\ mode = "all"
  /\ pq = EmptyQueue
  /\ visited = {}
  /\ root = None
  /\ emitted = <<>>
  /\ failed = FALSE

ForgetWalk == root' = None /\ emitted' = <<>> /\ failed' = FALSE

(* qgit_revwalk_push; on a walker that is not blank, or for an id that is    *)
(* not stored, nothing happens.                                              *)
Push(c) ==
  /\ Queued = {} /\ visited = {}
  /\ c \in hist.stored
  /\ pq' = [pq EXCEPT ![c] = @ + 1]
  /\ visited' = {c}
  /\ root' = c /\ emitted' = <<>> /\ failed' = FALSE
  /\ UNCHANGED <<hist, mode>>

(* The parents that the loop of next_commit goes through. *)
Followed(c) ==
  LET ps == hist.parents[c]
  IN IF mode = "first" /\ ps # <<>> THEN <<Head(ps)>> ELSE ps

(* The loop gets past a parent that is visited already or can be read. *)
Passes(c, i) == Followed(c)[i] \in visited \cup hist.stored

(* The parents up to the first one that cannot be read. *)
Passed(c) ==
  {Followed(c)[i] : i \in {k \in 1..Len(Followed(c)) : \A j \in 1..k : Passes(c, j)}}

(* Mutants: visited parents are pushed again; the last one is left out. *)
PushedWithVisited(c) == Passed(c)
PushedButLast(c) ==
  (Passed(c) \cap {Followed(c)[i] : i \in 1..(Len(Followed(c)) - 1)}) \ visited

(* The parents that the loop pushes. *)
Pushed(c) == Passed(c) \ visited

(* next_commit: when a parent cannot be read, the commit that was popped is  *)
(* lost and the parents before it stay pushed.                               *)
NextCommit(c) ==
  /\ c \in Newest(Queued)
  /\ pq' = [d \in Commits |-> IF d = c THEN pq[d] - 1
                              ELSE IF d \in Pushed(c) THEN pq[d] + 1
                              ELSE pq[d]]
  /\ visited' = visited \cup Pushed(c)
  /\ IF \A i \in 1..Len(Followed(c)) : Passes(c, i)
     THEN emitted' = Append(emitted, c) /\ failed' = failed
     ELSE failed' = TRUE /\ emitted' = emitted
  /\ UNCHANGED <<hist, mode, root>>

(* Mutant: the walker is not reset at the end. *)
DoneWithoutReset ==
  /\ Queued = {}
  /\ UNCHANGED vars

(* qgit_revwalk_next on an empty queue *)
Done ==
  /\ Queued = {}
  /\ pq' = EmptyQueue
  /\ visited' = {}
  /\ UNCHANGED <<hist, mode, root, emitted, failed>>

(* qgit_revwalk_next *)
NextStep == Done \/ \E c \in Commits : NextCommit(c)

(* qgit_revwalk_reset, and qgit_revwalk_set_sort, which only resets *)
Reset ==
  /\ pq' = EmptyQueue
  /\ visited' = {}
  /\ ForgetWalk
  /\ UNCHANGED <<hist, mode>>

(* qgit_revwalk_set_mode, to be called before the walk starts *)
SetMode(m) ==
  /\ Queued = {} /\ visited = {}
  /\ mode' = m
  /\ ForgetWalk
  /\ UNCHANGED <<hist, pq, visited>>

Next ==
  \/ \E c \in Commits : Push(c)
  \/ NextStep
  \/ Reset
  \/ \E m \in {"all", "first"} : SetMode(m)

Spec == Init /\ [][Next]_vars

(* The caller asks for the next commit until there is none, as log does. *)
FairSpec == Spec /\ WF_vars(NextStep)

----------------------------------------------------------------------------
(* What the walk is about, by the definition of ancestors. *)
ParentsOf(c) ==
  {hist.parents[c][i] : i \in IF mode = "all" THEN 1..Len(hist.parents[c])
                              ELSE {1} \cap 1..Len(hist.parents[c])}

Closed(S) == \A c \in S : ParentsOf(c) \subseteq S

(* The least set that holds the root and the parents of its members. *)
Reachable ==
  {c \in Commits : \A S \in SUBSET Commits : root \in S /\ Closed(S) => c \in S}

(* No commit is newer, or none as new, as a child of it. *)
NoSkew ==
  \A c \in Commits : \A p \in ParentsOf(c) : hist.time[c] >= hist.time[p]
ParentsOlder ==
  \A c \in Commits : \A p \in ParentsOf(c) : hist.time[c] > hist.time[p]

Emitted == {emitted[i] : i \in 1..Len(emitted)}

(* No commit is yielded twice, nor is it in the queue when it has been       *)
(* yielded, along however many paths it is reached (revwalk_next.c).         *)
EachOnce ==
  /\ \A i, j \in 1..Len(emitted) : emitted[i] = emitted[j] => i = j
  /\ \A c \in Commits : pq[c] <= IF c \in Emitted THEN 0 ELSE 1

(* The walk yields ancestors of its root and nothing else, and a walk that   *)
(* ends without having failed has yielded all of them.                       *)
WalkIsExact ==
  root # None =>
    /\ Emitted \subseteq Reachable
    /\ Queued = {} /\ ~failed => Emitted = Reachable

(* The order of qgit_revwalk_sort_mode, "descending committer timestamp",    *)
(* where clocks agree with the history.                                      *)
NewestFirst ==
  NoSkew =>
    \A i, j \in 1..Len(emitted) :
      i < j => hist.time[emitted[i]] >= hist.time[emitted[j]]

(* Where parents are older than their children, no commit is yielded before  *)
(* all of its children that the walk reaches, unless a step has failed.      *)
ChildrenFirst ==
  ParentsOlder /\ root # None /\ ~failed =>
    \A j \in 1..Len(emitted) : \A d \in Reachable :
      emitted[j] \in ParentsOf(d) => \E i \in 1..(j - 1) : emitted[i] = d

(* A walk ends, and leaves a blank walker. *)
WalkEnds == visited # {} ~> (visited = {} /\ Queued = {})
=============================================================================
