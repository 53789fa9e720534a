------------------------------ MODULE Schedule ------------------------------
(***************************************************************************)
(* par_map_largest_first (crates/core/src/driver/unpack/schedule.rs): the   *)
(* map every per-module phase of an unpack runs through.  Items are sorted   *)
(* largest first, every free worker of the Rayon pool takes the next one,    *)
(* and the collected results are sorted back into input order.               *)
(***************************************************************************)
EXTENDS Naturals, FiniteSets

CONSTANTS
  N,         (* number of items                                          *)
  Workers,   (* threads of the Rayon pool                                *)
  Sizes,     (* the sizes an item may have                               *)
  Values,    (* what mapping an item may return                          *)
  Mapped,    (* the result of the pure function `map` on each item       *)
  Idle,      (* a worker with no item                                    *)
  Pending    (* the call has not returned                                *)

Items == 1..N

ASSUME ScheduleAssumption ==
  /\ N \in Nat
  /\ Workers # {}
  /\ Sizes \subseteq Nat
  /\ Mapped \in [Items -> Values]
  /\ Idle \notin Items
  /\ Pending \notin [Items -> Values]

VARIABLES
  size,      (* size(&item) of each item, fixed by the input              *)
  queue,     (* the items of `ordered` par_bridge has not handed out      *)
  running,   (* the item each worker maps                                 *)
  results,   (* the collected (index, result) pairs                       *)
  out        (* what the call returned                                    *)

vars == <<size, queue, running, results, out>>

(* The order of ordered.sort_by: descending size, ties by input index. *)
Before(i, j) == size[i] > size[j] \/ (size[i] = size[j] /\ i <= j)

(* Mutant of AtFront: `ordered` is bridged without having been sorted. *)
UnsortedFront(i) == i \in queue

(* The items `ordered` starts with: what par_bridge hands out next. *)
AtFront(i) == i \in queue /\ \A j \in queue : Before(i, j)

(* sort_unstable_by_key on the index, then the results alone. *)
InInputOrder(pairs) ==
  [i \in {p[1] : p \in pairs} |-> (CHOOSE p \in pairs : p[1] = i)[2]]

Busy == {w \in Workers : running[w] # Idle}

(* Mutant of Init: the items are enumerated from zero. *)
InitFromZero ==
  /\ size \in [Items -> Sizes]
  /\ queue = Items \cup {0}
  /\ running = [w \in Workers |-> Idle]
  /\ results = {}
  /\ out = Pending

Init ==
  /\ size \in [Items -> Sizes]
  /\ queue = Items
  /\ running = [w \in Workers |-> Idle]
  /\ results = {}
  /\ out = Pending

(* Mutant of Take: the bridge never hands out its last item. *)
TakeAllButLast(w) ==
  /\ running[w] = Idle
  /\ \E i \in Items :
       /\ AtFront(i)
       /\ queue # {i}
       /\ running' = [running EXCEPT ![w] = i]
       /\ queue' = queue \ {i}
  /\ UNCHANGED <<size, results, out>>

(* A free worker pulls the next item out of the bridge. *)
Take(w) ==
  /\ running[w] = Idle
  /\ \E i \in Items :
       /\ AtFront(i)
       /\ running' = [running EXCEPT ![w] = i]
       /\ queue' = queue \ {i}
  /\ UNCHANGED <<size, results, out>>

(* The worker's `map` returns and its pair joins the collected vector. *)
Finish(w) ==
  /\ running[w] # Idle
  /\ results' = results \cup {<<running[w], Mapped[running[w]]>>}
  /\ running' = [running EXCEPT ![w] = Idle]
  /\ UNCHANGED <<size, queue, out>>

(* Mutant of Collect: the call returns once the bridge is empty. *)
CollectEarly ==
  /\ out = Pending
  /\ queue = {}
  /\ out' = InInputOrder(results)
  /\ UNCHANGED <<size, queue, running, results>>

(* collect() has joined every worker; the caller gets the sorted results. *)
Collect ==
  /\ out = Pending
  /\ queue = {}
  /\ Busy = {}
  /\ out' = InInputOrder(results)
  /\ UNCHANGED <<size, queue, running, results>>

Next == (\E w \in Workers : Take(w) \/ Finish(w)) \/ Collect

(* Rayon's workers never stop while the bridge has items or a closure runs,  *)
(* and `map` terminates: each worker's next step is weakly fair.             *)
Fairness ==
  /\ \A w \in Workers : WF_vars(Take(w) \/ Finish(w))
  /\ WF_vars(Collect)

Spec == Init /\ [][Next]_vars

FairSpec == Spec /\ Fairness

-----------------------------------------------------------------------------
(* The items some worker holds and the items already mapped. *)
Held == {running[w] : w \in Busy}
Done == {p[1] : p \in results}

TypeOK ==
  /\ size \in [Items -> Sizes]
  /\ queue \subseteq Items
  /\ running \in [Workers -> Items \cup {Idle}]
  /\ results \subseteq Items \X Values
  /\ out \in [Items -> Values] \cup {Pending}

(* No item is lost and none is mapped twice: at every moment each item is in *)
(* exactly one of the queue, one worker's hands, and the results, whichever  *)
(* workers raced for it.                                                     *)
EachItemOnce ==
  /\ queue \cup Held \cup Done = Items
  /\ queue \cap Held = {}
  /\ queue \cap Done = {}
  /\ Held \cap Done = {}
  /\ \A v, w \in Busy : running[v] = running[w] => v = w

(* Largest first: an item no worker has started is never larger than one     *)
(* some worker has, however the workers interleave (schedule.rs: "every free *)
(* worker takes the largest remaining item").                                *)
LargestFirst == \A i \in queue, j \in Held \cup Done : Before(j, i)

(* Every result the call holds is that of its own item, and what the caller  *)
(* gets does not depend on the schedule: result i is map(item i).            *)
OutputIgnoresSchedule ==
  /\ \A p \in results : p[2] = Mapped[p[1]]
  /\ out # Pending => out = Mapped

(* The call returns. *)
Returns == <>(out # Pending)

(* The call keeps the promise of a parallel map. *)
Promise == INSTANCE ParMap
  WITH Result <- LAMBDA mapped, i : mapped[i], input <- Mapped,
       results <- InInputOrder(results)

ImplementsParMap == Promise!Spec
=============================================================================
