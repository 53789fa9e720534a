--------------------------- MODULE ScheduleProofs ---------------------------
(***************************************************************************)
(* The largest-first map is correct for every number of items, every pool    *)
(* and every assignment of sizes.                                            *)
(***************************************************************************)
EXTENDS Schedule, TLAPS

(* Looking a pair up by index in a set that holds only pairs <<i, Mapped[i]>> *)
(* gives Mapped back.                                                         *)
LEMMA LookupPairs ==
  ASSUME NEW S, S \subseteq {<<i, Mapped[i]>> : i \in Items}
  PROVE  /\ {p[1] : p \in S} \subseteq Items
         /\ InInputOrder(S) = [i \in {p[1] : p \in S} |-> Mapped[i]]
<1>1. ASSUME NEW i \in {p[1] : p \in S}
      PROVE  (CHOOSE p \in S : p[1] = i)[2] = Mapped[i]
  <2>1. PICK p \in S : p[1] = i
    BY <1>1
  <2>2. ASSUME NEW q \in S, q[1] = i
        PROVE  q[2] = Mapped[i]
    BY <2>2
  <2>3. QED
    BY <2>1, <2>2
<1>2. {p[1] : p \in S} \subseteq Items
  OBVIOUS
<1>3. QED
  BY <1>1, <1>2 DEF InInputOrder

(* The results hold pairs of an item with its own value, so their indices     *)
(* and their lookup behave.                                                   *)
Paired == results \subseteq {<<i, Mapped[i]>> : i \in Items}

(* The call has not returned while an item waits or is being mapped. *)
ReturnsLast == out # Pending => queue = {} /\ Busy = {}

IInv ==
  /\ TypeOK
  /\ Paired
  /\ EachItemOnce
  /\ LargestFirst
  /\ OutputIgnoresSchedule
  /\ ReturnsLast

LEMMA InitIInv == Init => IInv
<1> SUFFICES ASSUME Init PROVE IInv
  OBVIOUS
<1>1. Held = {} /\ Done = {} /\ Busy = {}
  BY DEF Init, Held, Done, Busy
<1>2. QED
  BY <1>1, ScheduleAssumption
     DEF Init, IInv, TypeOK, Paired, EachItemOnce, LargestFirst, OutputIgnoresSchedule,
         ReturnsLast

(* Taking an item moves it from the queue into one worker's hands. *)
LEMMA TakeMoves ==
  ASSUME TypeOK, NEW w \in Workers, Take(w)
  PROVE  \E i \in queue :
           /\ AtFront(i)
           /\ queue' = queue \ {i}
           /\ running' = [running EXCEPT ![w] = i]
           /\ Busy' = Busy \cup {w}
           /\ w \notin Busy
           /\ Held' = Held \cup {i}
           /\ Done' = Done
<1>1. PICK i \in Items : /\ AtFront(i)
                         /\ running' = [running EXCEPT ![w] = i]
                         /\ queue' = queue \ {i}
  BY DEF Take
<1>2. i # Idle /\ running[w] = Idle /\ i \in queue
  BY <1>1, ScheduleAssumption DEF Take, AtFront
<1>3. Busy' = Busy \cup {w} /\ w \notin Busy
  BY <1>1, <1>2 DEF Busy, TypeOK
<1>4. \A v \in Busy : running'[v] = running[v]
  BY <1>1, <1>3 DEF Busy, TypeOK
<1>5. running'[w] = i
  BY <1>1 DEF TypeOK
<1>6. Held' = Held \cup {i}
  BY <1>3, <1>4, <1>5 DEF Held
<1>7. Done' = Done
  BY DEF Take, Done
<1>8. QED
  BY <1>1, <1>2, <1>3, <1>6, <1>7

(* Finishing moves the worker's item from its hands into the results. *)
LEMMA FinishMoves ==
  ASSUME TypeOK, EachItemOnce, NEW w \in Workers, Finish(w)
  PROVE  /\ running[w] \in Held /\ running[w] \in Items
         /\ Busy' = Busy \ {w}
         /\ Held' = Held \ {running[w]}
         /\ Done' = Done \cup {running[w]}
<1>1. w \in Busy /\ running[w] \in Items
  BY DEF Finish, Busy, TypeOK
<1>2. Busy' = Busy \ {w}
  BY DEF Finish, Busy, TypeOK
<1>3. \A v \in Busy \ {w} : running'[v] = running[v] /\ running[v] # running[w]
  BY <1>1 DEF Finish, Busy, TypeOK, EachItemOnce
<1>4. Held' = Held \ {running[w]}
  BY <1>1, <1>2, <1>3 DEF Held
<1>5. Done' = Done \cup {running[w]}
  <2> DEFINE t == <<running[w], Mapped[running[w]]>>
  <2>1. results' = results \cup {t}
    BY DEF Finish
  <2>2. t[1] = running[w]
    OBVIOUS
  <2> HIDE DEF t
  <2>3. ASSUME NEW S PROVE {p[1] : p \in S \cup {t}} = {p[1] : p \in S} \cup {t[1]}
    OBVIOUS
  <2>4. QED
    BY <2>1, <2>2, <2>3 DEF Done
<1>6. QED
  BY <1>1, <1>2, <1>4, <1>5 DEF Held

LEMMA StepIInv == IInv /\ [Next]_vars => IInv'
<1> SUFFICES ASSUME IInv, [Next]_vars PROVE IInv'
  OBVIOUS
<1> USE DEF IInv
<1>1. ASSUME NEW w \in Workers, Take(w)
      PROVE  IInv'
  <2>1. PICK i \in queue : /\ AtFront(i)
                           /\ queue' = queue \ {i}
                           /\ running' = [running EXCEPT ![w] = i]
                           /\ Busy' = Busy \cup {w}
                           /\ w \notin Busy
                           /\ Held' = Held \cup {i}
                           /\ Done' = Done
    BY <1>1, TakeMoves
  <2>2. UNCHANGED <<size, results, out>>
    BY <1>1 DEF Take
  <2>3. TypeOK'
    BY <2>1, <2>2 DEF TypeOK
  <2>4. Paired' /\ OutputIgnoresSchedule'
    BY <2>2 DEF Paired, OutputIgnoresSchedule
  <2>5. EachItemOnce'
    <3>1. \A v \in Busy : running[v] # i /\ running'[v] = running[v]
      BY <2>1 DEF EachItemOnce, Held, Busy, TypeOK
    <3>2. running'[w] = i
      BY <2>1 DEF TypeOK
    <3>3. \A u, v \in Busy' : running'[u] = running'[v] => u = v
      BY <2>1, <3>1, <3>2 DEF EachItemOnce
    <3>4. /\ queue' \cup Held' \cup Done' = Items
          /\ queue' \cap Held' = {}
          /\ queue' \cap Done' = {}
          /\ Held' \cap Done' = {}
      BY <2>1 DEF EachItemOnce
    <3>5. QED
      BY <3>3, <3>4 DEF EachItemOnce
  <2>6. LargestFirst'
    BY <2>1, <2>2 DEF LargestFirst, AtFront, Before
  <2>7. ReturnsLast'
    BY <2>1, <2>2 DEF ReturnsLast
  <2>8. QED
    BY <2>3, <2>4, <2>5, <2>6, <2>7
<1>2. ASSUME NEW w \in Workers, Finish(w)
      PROVE  IInv'
  <2>1. /\ running[w] \in Held /\ running[w] \in Items
        /\ Busy' = Busy \ {w}
        /\ Held' = Held \ {running[w]}
        /\ Done' = Done \cup {running[w]}
    BY <1>2, FinishMoves
  <2>2. /\ UNCHANGED <<size, queue, out>>
        /\ results' = results \cup {<<running[w], Mapped[running[w]]>>}
        /\ running' = [running EXCEPT ![w] = Idle]
    BY <1>2 DEF Finish
  <2>3. Mapped[running[w]] \in Values
    BY <2>1, ScheduleAssumption
  <2>4. TypeOK'
    BY <2>1, <2>2, <2>3 DEF TypeOK
  <2>5. Paired' /\ OutputIgnoresSchedule'
    BY <2>1, <2>2 DEF Paired, OutputIgnoresSchedule
  <2>6. EachItemOnce'
    <3>1. \A u \in Busy' : running'[u] = running[u] /\ u \in Busy
      BY <2>1, <2>2 DEF Busy, TypeOK
    <3>2. QED
      BY <2>1, <2>2, <3>1 DEF EachItemOnce
  <2>7. LargestFirst'
    BY <2>1, <2>2 DEF LargestFirst, Before
  <2>8. ReturnsLast'
    BY <1>2, <2>2 DEF ReturnsLast, Finish, Busy
  <2>9. QED
    BY <2>4, <2>5, <2>6, <2>7, <2>8
<1>3. ASSUME Collect
      PROVE  IInv'
  <2>1. UNCHANGED <<size, queue, running, results>> /\ out' = InInputOrder(results)
    BY <1>3 DEF Collect
  <2>2. Done = Items
    BY <1>3 DEF Collect, EachItemOnce, Held
  <2>3. out' = Mapped
    BY <2>1, <2>2, LookupPairs, ScheduleAssumption DEF Paired, Done
  <2>4. out' \in [Items -> Values]
    BY <2>3, ScheduleAssumption
  <2>5. TypeOK' /\ Paired' /\ OutputIgnoresSchedule'
    BY <2>1, <2>3, <2>4 DEF TypeOK, Paired, OutputIgnoresSchedule
  <2>6. EachItemOnce' /\ LargestFirst'
    BY <2>1 DEF EachItemOnce, LargestFirst, Before, Busy, Held, Done
  <2>7. ReturnsLast'
    BY <1>3, <2>1 DEF Collect, ReturnsLast, Busy
  <2>8. QED
    BY <2>5, <2>6, <2>7
<1>4. CASE UNCHANGED vars
  BY <1>4 DEF vars, TypeOK, Paired, EachItemOnce, LargestFirst, OutputIgnoresSchedule,
              ReturnsLast, Before, Busy, Held, Done
<1>5. QED
  BY <1>1, <1>2, <1>3, <1>4 DEF Next

(* The inductive invariant holds of every schedule. *)
THEOREM ScheduleInvariant == Spec => []IInv
<1>1. QED
  BY InitIInv, StepIInv, PTL DEF Spec

(* The variables keep their types. *)
THEOREM ScheduleTypeCorrect == Spec => []TypeOK
<1>1. IInv => TypeOK
  BY DEF IInv
<1>2. QED
  BY <1>1, ScheduleInvariant, PTL

(* par_map_largest_first loses no item and maps none twice. *)
THEOREM ItemsMappedOnce == Spec => []EachItemOnce
<1>1. IInv => EachItemOnce
  BY DEF IInv
<1>2. QED
  BY <1>1, ScheduleInvariant, PTL

(* No worker starts an item while a larger one waits. *)
THEOREM LargestTakenFirst == Spec => []LargestFirst
<1>1. IInv => LargestFirst
  BY DEF IInv
<1>2. QED
  BY <1>1, ScheduleInvariant, PTL

(* Output order and content never depend on scheduling (schedule.rs, comment  *)
(* of par_map_largest_first).                                                 *)
THEOREM ScheduleIndependence == Spec => []OutputIgnoresSchedule
<1>1. IInv => OutputIgnoresSchedule
  BY DEF IInv
<1>2. QED
  BY <1>1, ScheduleInvariant, PTL

(* Every step of the pool is a step of the abstract parallel map, or none. *)
THEOREM ScheduleImplementsParMap == Spec => ImplementsParMap
<1>1. Init => Promise!Init
  <2> SUFFICES ASSUME Init PROVE Promise!Init
    OBVIOUS
  <2>1. InInputOrder(results) = [i \in {} |-> Pending]
    BY DEF Init, InInputOrder
  <2>2. QED
    BY <2>1 DEF Init, Promise!Init
<1>2. IInv /\ IInv' /\ [Next]_vars => [Promise!Next]_(Promise!vars)
  <2> SUFFICES ASSUME IInv, IInv', [Next]_vars
               PROVE  [Promise!Next]_(Promise!vars)
    OBVIOUS
  <2> USE DEF Promise!vars
  <2>1. CASE \E w \in Workers : Take(w)
    BY <2>1 DEF Take
  <2>2. ASSUME NEW w \in Workers, Finish(w)
        PROVE  Promise!Next
    <3> DEFINE i == running[w]
    <3>1. i \in Held /\ i \in Items /\ Done' = Done \cup {i} /\ out' = out
      BY <2>2, FinishMoves DEF IInv, Finish
    <3>2. i \notin Done
      BY <3>1 DEF IInv, EachItemOnce
    <3>3. /\ InInputOrder(results) = [j \in Done |-> Mapped[j]]
          /\ InInputOrder(results') = [j \in Done \cup {i} |-> Mapped[j]]
      BY <3>1, LookupPairs DEF IInv, Paired, Done
    <3>4. out = Pending
      <4>1. w \in Busy
        BY <2>2 DEF Finish, Busy
      <4>2. QED
        BY <4>1 DEF IInv, ReturnsLast
    <3>5. Promise!Map(i)
      BY <3>1, <3>2, <3>3, <3>4 DEF Promise!Map, Promise!Items, Items
    <3>6. QED
      BY <3>5, <3>1 DEF Promise!Next, Promise!Items, Items
  <2>3. CASE Collect
    <3>1. Done = Items
      BY <2>3 DEF Collect, IInv, EachItemOnce, Held
    <3>2. DOMAIN InInputOrder(results) = Items
      BY <3>1 DEF InInputOrder, Done
    <3>3. QED
      BY <2>3, <3>2 DEF Collect, Promise!Next, Promise!Return, Promise!Items, Items
  <2>4. CASE UNCHANGED vars
    BY <2>4 DEF vars
  <2>5. QED
    BY <2>1, <2>2, <2>3, <2>4 DEF Next
<1>3. QED
  BY <1>1, <1>2, ScheduleInvariant, PTL DEF Spec, ImplementsParMap, Promise!Spec
=============================================================================
