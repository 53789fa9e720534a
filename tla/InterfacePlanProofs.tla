------------------------- MODULE InterfacePlanProofs -------------------------
(***************************************************************************)
(* Theorems about InterfacePlan, for every set of plan inputs and modules of  *)
(* any number.  The inductive invariant relates the state of both loops to    *)
(* the closures InterfacePlanOps defines: the walk stays within what its      *)
(* start reaches and leaves no edge behind, and the worklist stays within     *)
(* Reached, so that either ends exactly at its closure.                      *)
(***************************************************************************)
EXTENDS InterfacePlan, TLAPS

(* The writes handled so far, the one in the worklist included. *)
Taken == p.writes \ todo

(* Those whose worklist is empty. *)
Handled == Taken \ {edge}

StateInv ==
  /\ p \in Inputs
  /\ stage \in {"chains", "writes", "done"}
  /\ todo \subseteq p.writes
  /\ edge \in Taken \cup {None}
  /\ seen \subseteq Passthroughs(p)
  /\ stage = "chains" => edge = None /\ todo = p.writes
  /\ stage = "done" => edge = None /\ todo = {}
  /\ stage # "chains" => start = None /\ DOMAIN ends = Passthroughs(p)

(* Every set that holds m and follows the chains holds n too. *)
Leads(m, n) ==
  \A S \in SUBSET Passthroughs(p) :
    m \in S /\ (\A h \in p.through :
                  h[1] \in S /\ h[2] \in Passthroughs(p) => h[2] \in S)
      => n \in S

EndExact(m) ==
  IF ends[m] = None THEN Ends(p, m) = {} ELSE Ends(p, m) = {ends[m]}

ChainInv ==
  /\ DOMAIN ends \subseteq Passthroughs(p)
  /\ \A m \in DOMAIN ends : EndExact(m)
  /\ start \in Passthroughs(p) \cup {None}
  /\ start # None =>
       /\ current \in Passthroughs(p)
       /\ start \in seen \cup {current}
       /\ Leads(start, current)
       /\ \A e \in p.through :
            e[1] \in seen => e[2] \in Passthroughs(p) /\ e[2] \in seen \cup {current}

(* Some write that has been gone through so far lands on m. *)
Landed(m) ==
  \/ \E w \in Handled : m \in Reached(p, w[2])
  \/ edge # None /\ m \in visited

LandedKept(m) ==
  \/ \E w \in Handled : /\ m \in Reached(p, w[2])
                        /\ m \notin p.whole \/ ~LandsOnValue(p, w)
  \/ edge # None /\ m \in visited /\ (m \notin p.whole \/ ~LandsOnValue(p, edge))

WorkInv ==
  /\ visited \subseteq reached
  /\ reached \subseteq p.mods
  /\ edge # None =>
       /\ edge[2] \in reached
       /\ reached \subseteq Reached(p, edge[2])
       /\ \A e \in p.returns : e[1] \in visited => e[2] \in reached

MarkInv ==
  /\ DOMAIN written = {m \in p.open : Landed(m)}
  /\ kept = {m \in p.open : LandedKept(m)}

OrderInv ==
  /\ \A w \in Taken : \A v \in todo : w[1] <= v[1]
  /\ edge # None => \A w \in Taken : w[1] <= edge[1]
  /\ \A m \in DOMAIN written :
       /\ \E w \in Taken : written[m] = w[1] /\ m \in Reached(p, w[2])
       /\ \A w \in Taken : m \in Reached(p, w[2]) => written[m] <= w[1]

Inv == StateInv /\ ChainInv /\ WorkInv /\ MarkInv /\ OrderInv

-----------------------------------------------------------------------------
(* What the assumption says of one input. *)
LEMMA InputFacts ==
  ASSUME NEW q \in Inputs
  PROVE  /\ q.mods \subseteq Nat
         /\ q.open \subseteq q.mods
         /\ q.writes \subseteq q.mods \X q.mods \X BOOLEAN
         /\ q.returns \subseteq q.open \X q.mods
         /\ None \notin q.mods \cup q.outside
         /\ None \notin q.writes
         /\ \A e \in q.through :
              /\ e[1] \in q.open \ q.whole
              /\ e[2] \in q.mods => e \in q.returns
              /\ \A f \in q.through : f[1] = e[1] => f = e
  BY InputsAssumption

LEMMA PassthroughFacts ==
  ASSUME NEW q \in Inputs
  PROVE  /\ Passthroughs(q) \subseteq q.open
         /\ None \notin Passthroughs(q)
         /\ \A e \in q.through : e[1] \in Passthroughs(q)
         /\ \A m \in Passthroughs(q) : \E e \in q.through : e[1] = m
  BY InputFacts DEF Passthroughs

LEMMA WriteFacts ==
  ASSUME NEW q \in Inputs, NEW w \in q.writes
  PROVE  w[1] \in Nat /\ w[1] \in q.mods /\ w[2] \in q.mods /\ w # None
<1>1. w \in q.mods \X q.mods \X BOOLEAN
  BY InputFacts
<1>2. q.mods \subseteq Nat /\ None \notin q.writes
  BY InputFacts
<1> QED BY <1>1, <1>2

-----------------------------------------------------------------------------
(* Reached is the least set of modules that holds the provider and follows    *)
(* `returns`.                                                                *)
LEMMA ReachedStart ==
  ASSUME NEW q, NEW m \in q.mods
  PROVE  m \in Reached(q, m)
  BY DEF Reached

LEMMA ReachedStep ==
  ASSUME NEW q \in Inputs, NEW s, NEW e \in q.returns, e[1] \in Reached(q, s)
  PROVE  e[2] \in Reached(q, s)
<1>1. e[2] \in q.mods
  BY InputFacts
<1> QED BY <1>1 DEF Reached, Closed

LEMMA ReachedLeast ==
  ASSUME NEW q, NEW s, NEW S \in SUBSET q.mods, s \in S, Closed(S, q.returns)
  PROVE  Reached(q, s) \subseteq S
  BY DEF Reached

-----------------------------------------------------------------------------
LEMMA InitInv == Init => Inv
<1> SUFFICES ASSUME Init PROVE Inv
  OBVIOUS
<1>1. StateInv
  BY DEF Init, StateInv, Taken
<1>2. ChainInv
  BY DEF Init, ChainInv
<1>3. WorkInv
  BY DEF Init, WorkInv
<1>4. MarkInv
  BY DEF Init, MarkInv, Landed, LandedKept, Handled, Taken
<1>5. OrderInv
  BY DEF Init, OrderInv, Taken
<1> QED BY <1>1, <1>2, <1>3, <1>4, <1>5 DEF Inv

-----------------------------------------------------------------------------
LEMMA StateStep ==
  ASSUME Inv, [Next]_vars
  PROVE  StateInv'
<1> USE DEF Inv, StateInv, Taken
<1> None \notin p.writes
  BY InputFacts
<1>1. ASSUME NEW m \in p.mods, StartChain(m) PROVE StateInv'
  BY <1>1 DEF StartChain, writeVars
<1>2. ASSUME NEW m \in p.mods, VisitProvider(m) PROVE StateInv'
  BY <1>2 DEF VisitProvider, chainVars
<1>3. CASE FollowChain
  <2>1. current \in Passthroughs(p) /\ start \in Passthroughs(p) /\ stage = "chains"
    BY <1>3 DEF FollowChain, ChainInv
  <2>2. seen' \subseteq Passthroughs(p)
    BY <1>3, <2>1 DEF FollowChain, Advance, EndChain
  <2> QED BY <1>3, <2>1, <2>2 DEF FollowChain, writeVars
<1>4. CASE ChainsDone
  BY <1>4 DEF ChainsDone, chainVars, writeVars
<1>5. ASSUME NEW w \in todo, StartWrite(w) PROVE StateInv'
  BY <1>5 DEF StartWrite, chainVars
<1>6. CASE EndWrite
  BY <1>6 DEF EndWrite, chainVars
<1>7. CASE WritesDone
  BY <1>7 DEF WritesDone, chainVars, writeVars
<1>8. CASE UNCHANGED vars
  BY <1>8 DEF vars
<1> QED BY <1>1, <1>2, <1>3, <1>4, <1>5, <1>6, <1>7, <1>8 DEF Next

(* The cycle check: what the walk has seen is then closed, so no edge leads   *)
(* out of it.                                                                *)
LEMMA CycleHasNoEnd ==
  ASSUME StateInv, ChainInv, start # None, current \in seen
  PROVE  Ends(p, start) = {}
<1>1. start \in seen /\ seen \in SUBSET Passthroughs(p)
  BY DEF ChainInv, StateInv
<1>2. \A h \in p.through : h[1] \in seen => h[2] \in Passthroughs(p) /\ h[2] \in seen
  BY DEF ChainInv
<1> QED BY <1>1, <1>2 DEF Ends

(* The other way out: the target of the last passthrough is all the chain      *)
(* reaches.                                                                  *)
LEMMA LastIsEnd ==
  ASSUME StateInv, ChainInv, start # None,
         NEW e \in p.through, e[1] = current, e[2] \notin Passthroughs(p)
  PROVE  Ends(p, start) = {e[2]} \cap (p.mods \cup p.outside)
<1> DEFINE S == seen \cup {current}
<1>1. start \in S /\ S \in SUBSET Passthroughs(p) /\ Leads(start, current)
  BY DEF ChainInv, StateInv
<1>2. \A f \in p.through : f[1] = current => f = e
  BY InputFacts DEF StateInv
<1>3. \A f \in p.through : f[1] \in seen => f[2] \in Passthroughs(p) /\ f[2] \in S
  BY DEF ChainInv
<1>4. \A f \in p.through : f[1] \in S /\ f[2] \in Passthroughs(p) => f[2] \in S
  BY <1>2, <1>3
<1>5. ASSUME NEW t \in Ends(p, start) PROVE t \in {e[2]} \cap (p.mods \cup p.outside)
  <2>1. PICK f \in p.through : /\ t = f[2]
                               /\ f[2] \in (p.mods \cup p.outside) \ Passthroughs(p)
                               /\ f[1] \in S
    BY <1>1, <1>4, <1>5 DEF Ends
  <2>2. f[1] \notin seen
    BY <1>3, <2>1
  <2>3. f = e
    BY <1>2, <2>1, <2>2
  <2> QED BY <2>1, <2>3
<1>6. ASSUME e[2] \in p.mods \cup p.outside PROVE e[2] \in Ends(p, start)
  BY <1>1, <1>6 DEF Ends, Leads
<1> QED BY <1>5, <1>6

LEMMA ChainStep ==
  ASSUME Inv, [Next]_vars
  PROVE  ChainInv'
<1> USE DEF Inv
<1> None \notin Passthroughs(p) /\ None \notin p.mods \cup p.outside
  BY PassthroughFacts, InputFacts DEF StateInv
<1>1. ASSUME NEW m \in p.mods, StartChain(m) PROVE ChainInv'
  <2>1. Leads(m, m)
    BY DEF Leads
  <2> QED BY <1>1, <2>1 DEF StartChain, ChainInv, EndExact, Leads
<1>2. CASE FollowChain
  <2>1. start # None /\ p' = p /\ start \in Passthroughs(p)
    BY <1>2 DEF FollowChain, ChainInv
  <2>2. ASSUME NEW end, EndChain(end),
               IF end = None THEN Ends(p, start) = {} ELSE Ends(p, start) = {end}
        PROVE  ChainInv'
    <3>1. start' = None /\ DOMAIN ends' = DOMAIN ends \cup {start}
      BY <2>2 DEF EndChain
    <3>2. \A m \in DOMAIN ends : m # start => ends'[m] = ends[m]
      BY <2>2 DEF EndChain
    <3>3. ends'[start] = end
      BY <2>2 DEF EndChain
    <3>4. \A m \in DOMAIN ends' : EndExact(m)'
      BY <2>1, <2>2, <3>1, <3>2, <3>3 DEF ChainInv, EndExact
    <3> QED BY <2>1, <3>1, <3>4 DEF ChainInv
  <2>3. CASE current \in seen
    BY <1>2, <2>1, <2>2, <2>3, CycleHasNoEnd DEF FollowChain
  <2>4. CASE current \notin seen
    <3>1. PICK e \in p.through :
            /\ e[1] = current
            /\ IF e[2] \in Passthroughs(p)
               THEN /\ current' = e[2]
                    /\ seen' = seen \cup {current}
                    /\ UNCHANGED <<start, ends>>
               ELSE EndChain(IF e[2] \in p.mods \cup p.outside THEN e[2] ELSE None)
      BY <1>2, <2>4 DEF FollowChain, Advance
    <3>2. CASE e[2] \notin Passthroughs(p)
      <4>1. Ends(p, start) = {e[2]} \cap (p.mods \cup p.outside)
        BY <2>1, <3>1, <3>2, LastIsEnd
      <4>2. CASE e[2] \in p.mods \cup p.outside
        BY <2>2, <3>1, <3>2, <4>1, <4>2
      <4>3. CASE e[2] \notin p.mods \cup p.outside
        BY <2>2, <3>1, <3>2, <4>1, <4>3
      <4> QED BY <4>2, <4>3
    <3>3. CASE e[2] \in Passthroughs(p)
      <4>1. current' = e[2] /\ seen' = seen \cup {current} /\ start' = start /\ ends' = ends
        BY <3>1, <3>3
      <4>2. \A f \in p.through : f[1] = current => f = e
        BY <3>1, InputFacts DEF StateInv
      <4>3. Leads(start, current)'
        BY <2>1, <3>1, <3>3, <4>1 DEF ChainInv, Leads
      <4>4. start' \in seen' \cup {current'}
        BY <2>1, <4>1 DEF ChainInv
      <4>5. \A f \in p.through :
              f[1] \in seen' => f[2] \in Passthroughs(p) /\ f[2] \in seen' \cup {current'}
        BY <2>1, <3>3, <4>1, <4>2 DEF ChainInv
      <4>6. \A m \in DOMAIN ends' : EndExact(m)'
        BY <2>1, <4>1 DEF ChainInv, EndExact
      <4> QED BY <2>1, <3>3, <4>1, <4>3, <4>4, <4>5, <4>6 DEF ChainInv
    <3> QED BY <3>2, <3>3
  <2> QED BY <2>3, <2>4
<1>3. CASE UNCHANGED <<p, chainVars>>
  BY <1>3 DEF chainVars, ChainInv, EndExact, Leads
<1>4. ASSUME NEW m \in p.mods, VisitProvider(m) PROVE ChainInv'
  BY <1>3, <1>4 DEF VisitProvider
<1>5. ASSUME NEW w \in todo, StartWrite(w) PROVE ChainInv'
  BY <1>3, <1>5 DEF StartWrite
<1>6. CASE ChainsDone \/ EndWrite \/ WritesDone \/ UNCHANGED vars
  BY <1>3, <1>6 DEF ChainsDone, EndWrite, WritesDone, vars, chainVars
<1> QED BY <1>1, <1>2, <1>4, <1>5, <1>6 DEF Next
-----------------------------------------------------------------------------
LEMMA WorkStep ==
  ASSUME Inv, [Next]_vars
  PROVE  WorkInv'
<1> USE DEF Inv
<1>1. CASE UNCHANGED <<p, writeVars>>
  BY <1>1 DEF writeVars, WorkInv
<1>2. CASE \/ \E m \in p.mods : StartChain(m)
           \/ FollowChain \/ ChainsDone \/ WritesDone \/ UNCHANGED vars
  BY <1>1, <1>2 DEF StartChain, FollowChain, ChainsDone, WritesDone, vars, writeVars
<1>3. ASSUME NEW w \in todo, StartWrite(w) PROVE WorkInv'
  <2>1. w[2] \in p.mods /\ w[2] \in Reached(p, w[2])
    BY WriteFacts, ReachedStart DEF StateInv
  <2> QED BY <1>3, <2>1 DEF StartWrite, WorkInv
<1>4. ASSUME NEW m \in p.mods, VisitProvider(m) PROVE WorkInv'
  <2>1. edge # None /\ m \in reached /\ p' = p /\ edge' = edge
          /\ visited' = visited \cup {m} /\ reached' = reached \cup Sources(m)
    BY <1>4 DEF VisitProvider
  <2>2. Sources(m) \subseteq p.mods
    BY InputFacts DEF Sources, StateInv
  <2>3. Sources(m) \subseteq Reached(p, edge[2])
    BY <2>1, ReachedStep DEF Sources, StateInv, WorkInv
  <2>4. \A e \in p.returns : e[1] = m => e[2] \in Sources(m)
    BY DEF Sources
  <2> QED BY <2>1, <2>2, <2>3, <2>4 DEF WorkInv
<1>5. CASE EndWrite
  BY <1>5 DEF EndWrite, WorkInv
<1> QED BY <1>2, <1>3, <1>4, <1>5 DEF Next

(* An empty worklist has gone through all the write may land on. *)
LEMMA WorklistDone ==
  ASSUME StateInv, WorkInv, edge # None, reached = visited
  PROVE  visited = Reached(p, edge[2])
<1>1. Closed(reached, p.returns) /\ edge[2] \in reached /\ reached \in SUBSET p.mods
  BY DEF WorkInv, Closed
<1>2. Reached(p, edge[2]) \subseteq reached
  BY <1>1, ReachedLeast
<1> QED BY <1>2 DEF WorkInv

LEMMA MarkStep ==
  ASSUME Inv, [Next]_vars
  PROVE  MarkInv'
<1> USE DEF Inv
<1> None \notin p.writes
  BY InputFacts DEF StateInv
<1>1. CASE UNCHANGED <<p, writeVars>>
  BY <1>1 DEF writeVars, MarkInv, Landed, LandedKept, Handled, Taken
<1>2. CASE \/ \E m \in p.mods : StartChain(m)
           \/ FollowChain \/ ChainsDone \/ WritesDone \/ UNCHANGED vars
  BY <1>1, <1>2 DEF StartChain, FollowChain, ChainsDone, WritesDone, vars, writeVars
<1>3. ASSUME NEW w \in todo, StartWrite(w) PROVE MarkInv'
  <2>1. p' = p /\ written' = written /\ kept' = kept /\ visited' = {} /\ edge = None
    BY <1>3 DEF StartWrite
  <2>2. Handled' = Handled
    BY <1>3, <2>1 DEF StartWrite, Handled, Taken, StateInv
  <2>3. \A m : Landed(m)' <=> Landed(m)
    BY <2>1, <2>2 DEF Landed
  <2>4. \A m : LandedKept(m)' <=> LandedKept(m)
    BY <2>1, <2>2 DEF LandedKept
  <2> QED BY <2>1, <2>3, <2>4 DEF MarkInv
<1>4. ASSUME NEW m \in p.mods, VisitProvider(m) PROVE MarkInv'
  <2> DEFINE Keeps == m \notin p.whole \/ ~LandsOnValue(p, edge)
  <2>1. edge # None /\ p' = p /\ edge' = edge /\ todo' = todo
          /\ visited' = visited \cup {m} /\ Mark(m)
    BY <1>4 DEF VisitProvider
  <2>2. Handled' = Handled
    BY <2>1 DEF Handled, Taken
  <2>3. \A q : Landed(q)' <=> Landed(q) \/ q = m
    BY <2>1, <2>2 DEF Landed
  <2>4. \A q : LandedKept(q)' <=> LandedKept(q) \/ (q = m /\ Keeps)
    BY <2>1, <2>2 DEF LandedKept
  <2>5. DOMAIN written' = {q \in p.open : Landed(q)'}
    BY <2>1, <2>3 DEF Mark, MarkInv
  <2>6. kept' = IF m \in p.open /\ Keeps THEN kept \cup {m} ELSE kept
    BY <2>1 DEF Mark
  <2>7. kept' = {q \in p.open : LandedKept(q)'}
    <3> HIDE DEF Keeps
    <3> QED BY <2>4, <2>6 DEF MarkInv
  <2> QED BY <2>1, <2>5, <2>7 DEF MarkInv
<1>5. CASE EndWrite
  <2>1. edge # None /\ edge' = None /\ p' = p /\ written' = written /\ kept' = kept
    BY <1>5 DEF EndWrite
  <2>2. visited = Reached(p, edge[2])
    BY <1>5, <2>1, WorklistDone DEF EndWrite
  <2>3. Handled' = Handled \cup {edge}
    BY <1>5, <2>1 DEF EndWrite, Handled, Taken, StateInv
  <2>4. \A m : Landed(m)' <=> Landed(m)
    BY <2>1, <2>2, <2>3 DEF Landed
  <2>5. \A m : LandedKept(m)' <=> LandedKept(m)
    BY <2>1, <2>2, <2>3 DEF LandedKept
  <2> QED BY <2>1, <2>4, <2>5 DEF MarkInv
<1> QED BY <1>2, <1>3, <1>4, <1>5 DEF Next

LEMMA OrderStep ==
  ASSUME Inv, [Next]_vars
  PROVE  OrderInv'
<1> USE DEF Inv
<1> \A w \in p.writes : w[1] \in Nat
  BY WriteFacts DEF StateInv
<1>1. CASE UNCHANGED <<p, todo, edge, written>>
  BY <1>1 DEF OrderInv, Taken
<1>2. CASE \/ \E m \in p.mods : StartChain(m)
           \/ FollowChain \/ ChainsDone \/ WritesDone \/ UNCHANGED vars
  BY <1>1, <1>2 DEF StartChain, FollowChain, ChainsDone, WritesDone, vars, writeVars
<1>3. ASSUME NEW w \in todo, StartWrite(w) PROVE OrderInv'
  <2>1. p' = p /\ written' = written /\ todo' = todo \ {w} /\ edge' = w
          /\ \A v \in todo : w[1] <= v[1]
    BY <1>3 DEF StartWrite
  <2>2. Taken' = Taken \cup {w} /\ w \in p.writes /\ w \notin Taken
    BY <2>1 DEF Taken, StateInv
  <2>3. \A v \in Taken : v[1] <= w[1]
    BY DEF OrderInv
  <2>4. \A v \in Taken' : \A u \in todo' : v[1] <= u[1]
    BY <2>1, <2>2 DEF OrderInv
  <2>5. \A v \in Taken' : v[1] <= edge'[1]
    BY <2>1, <2>2, <2>3
  <2>6. ASSUME NEW m \in DOMAIN written
        PROVE  /\ \E v \in Taken' : written[m] = v[1] /\ m \in Reached(p, v[2])
               /\ \A v \in Taken' : m \in Reached(p, v[2]) => written[m] <= v[1]
    <3>1. PICK v \in Taken : written[m] = v[1] /\ m \in Reached(p, v[2])
      BY DEF OrderInv
    <3>2. written[m] <= w[1]
      BY <2>3, <3>1
    <3>3. \A u \in Taken : m \in Reached(p, u[2]) => written[m] <= u[1]
      BY DEF OrderInv
    <3> QED BY <2>2, <3>1, <3>2, <3>3
  <2> QED BY <2>1, <2>4, <2>5, <2>6 DEF OrderInv
<1>4. ASSUME NEW m \in p.mods, VisitProvider(m) PROVE OrderInv'
  <2>1. edge # None /\ p' = p /\ edge' = edge /\ todo' = todo /\ Taken' = Taken /\ Mark(m)
          /\ m \in reached /\ edge \in Taken
    BY <1>4 DEF VisitProvider, Taken, StateInv
  <2>2. CASE m \notin p.open \/ m \in DOMAIN written
    <3>1. DOMAIN written' = DOMAIN written /\ \A q \in DOMAIN written : written'[q] = written[q]
      BY <2>1, <2>2 DEF Mark
    <3> QED BY <2>1, <3>1 DEF OrderInv
  <2>3. CASE m \in p.open /\ m \notin DOMAIN written
    <3>1. DOMAIN written' = DOMAIN written \cup {m} /\ written'[m] = edge[1]
            /\ \A q \in DOMAIN written : written'[q] = written[q]
      BY <2>1, <2>3 DEF Mark
    <3>2. \A w \in Taken : m \in Reached(p, w[2]) => w = edge
      BY <2>3 DEF MarkInv, Landed, Handled
    <3>3. m \in Reached(p, edge[2]) /\ edge[1] \in Nat
      BY <2>1 DEF WorkInv, Taken
    <3>4. \A w \in Taken : m \in Reached(p, w[2]) => written'[m] <= w[1]
      BY <3>1, <3>2, <3>3
    <3> QED BY <2>1, <3>1, <3>3, <3>4 DEF OrderInv
  <2> QED BY <2>2, <2>3
<1>5. CASE EndWrite
  BY <1>5 DEF EndWrite, OrderInv, Taken
<1> QED BY <1>2, <1>3, <1>4, <1>5 DEF Next

LEMMA Invariance == Spec => []Inv
<1>1. Inv /\ [Next]_vars => Inv'
  BY StateStep, ChainStep, WorkStep, MarkStep, OrderStep DEF Inv
<1> QED BY InitInv, <1>1, PTL DEF Spec
-----------------------------------------------------------------------------
(* The variables keep their types, for any inputs: the worklist never holds    *)
(* what is no module, and only an open module is written or kept.            *)
THEOREM PlanTypeCorrect == Spec => []TypeOK
<1>1. Inv => TypeOK
  <2> SUFFICES ASSUME Inv PROVE TypeOK
    OBVIOUS
  <2>1. DOMAIN written \subseteq p.open /\ kept \subseteq DOMAIN written
    BY DEF Inv, MarkInv, Landed, LandedKept
  <2> QED BY <2>1 DEF Inv, StateInv, ChainInv, WorkInv, TypeOK, Taken
<1> QED BY Invariance, <1>1, PTL

(* When build is over every write has been handled. *)
LEMMA AllHandled ==
  ASSUME Inv, stage = "done"
  PROVE  Taken = p.writes /\ Handled = p.writes /\ edge = None
<1>1. edge = None /\ todo = {} /\ None \notin p.writes
  BY InputFacts DEF Inv, StateInv
<1> QED BY <1>1 DEF Taken, Handled

LEMMA InvPlanExact == Inv => PlanExact
<1> SUFFICES ASSUME Inv, stage = "done"
             PROVE  DOMAIN written = Written(p) /\ kept = Kept(p)
  BY DEF PlanExact
<1>1. \A m : Landed(m) <=> \E w \in p.writes : m \in Reached(p, w[2])
  BY AllHandled DEF Landed
<1>2. \A m : LandedKept(m) <=>
        \E w \in p.writes : /\ m \in Reached(p, w[2])
                            /\ m \notin p.whole \/ ~LandsOnValue(p, w)
  BY AllHandled DEF LandedKept
<1>3. DOMAIN written = Written(p)
  BY <1>1 DEF Inv, MarkInv, Written
<1>4. kept = Kept(p)
  BY <1>2 DEF Inv, MarkInv, Kept
<1> QED BY <1>3, <1>4

(* The maps of the plan are functions, so their entries say all of them. *)
MapInv ==
  /\ written = [m \in DOMAIN written |-> written[m]]
  /\ ends = [m \in DOMAIN ends |-> ends[m]]

LEMMA InitMaps == Init => MapInv
  BY DEF Init, MapInv

LEMMA MapStep ==
  ASSUME MapInv, [Next]_vars
  PROVE  MapInv'
<1> USE DEF MapInv
<1>1. CASE UNCHANGED <<written, ends>>
  BY <1>1
<1>2. ASSUME NEW m, VisitProvider(m) PROVE MapInv'
  <2>1. ends' = ends
    BY <1>2 DEF VisitProvider, chainVars
  <2>2. \/ written' = written
        \/ written' = [q \in DOMAIN written \cup {m} |->
                         IF q \in DOMAIN written THEN written[q] ELSE edge[1]]
    BY <1>2 DEF VisitProvider, Mark
  <2> QED BY <2>1, <2>2
<1>3. CASE FollowChain
  <2>1. written' = written
    BY <1>3 DEF FollowChain, writeVars
  <2>2. \/ ends' = ends
        \/ \E end : ends' = [m \in DOMAIN ends \cup {start} |->
                               IF m = start THEN end ELSE ends[m]]
    BY <1>3 DEF FollowChain, Advance, EndChain
  <2> QED BY <2>1, <2>2
<1> QED
  BY <1>1, <1>2, <1>3
     DEF Next, StartChain, ChainsDone, StartWrite, EndWrite, WritesDone, chainVars, writeVars, vars

(* The first writer is the least of the consumers. *)
LEMMA FirstIsLeast ==
  ASSUME Inv, stage = "done", NEW m \in DOMAIN written
  PROVE  written[m] =
           CHOOSE c \in Writers(p, m) : \A d \in Writers(p, m) : c <= d
<1>1. Writers(p, m) \subseteq Nat
  BY WriteFacts DEF Inv, StateInv, Writers
<1>2. written[m] \in Writers(p, m)
  BY AllHandled DEF Inv, OrderInv, Writers
<1>3. \A d \in Writers(p, m) : written[m] <= d
  BY AllHandled DEF Inv, OrderInv, Writers
<1>4. \A c \in Writers(p, m) : (\A d \in Writers(p, m) : c <= d) => c = written[m]
  <2> SUFFICES ASSUME NEW c \in Writers(p, m), \A d \in Writers(p, m) : c <= d
               PROVE  c = written[m]
    OBVIOUS
  <2>1. c <= written[m] /\ written[m] <= c /\ c \in Nat /\ written[m] \in Nat
    BY <1>1, <1>2, <1>3
  <2> QED BY <2>1
<1> QED BY <1>2, <1>3, <1>4

(* What build has when it is over is the plan of its input. *)
DonePlan ==
  stage = "done" => [written |-> written, kept |-> kept, ends |-> ends] = PlanFor(p)

LEMMA DoneIsPlan ==
  ASSUME Inv, MapInv
  PROVE  DonePlan
<1> SUFFICES ASSUME stage = "done"
             PROVE  [written |-> written, kept |-> kept, ends |-> ends] = PlanFor(p)
  BY DEF DonePlan
<1>1. DOMAIN written = Written(p) /\ kept = Kept(p)
  BY InvPlanExact DEF PlanExact
<1>2. written = [m \in Written(p) |->
                   CHOOSE c \in Writers(p, m) : \A d \in Writers(p, m) : c <= d]
  BY <1>1, FirstIsLeast DEF MapInv
<1>3. DOMAIN ends = Passthroughs(p)
  BY DEF Inv, StateInv
<1>4. ASSUME NEW m \in DOMAIN ends
      PROVE  ends[m] = IF Ends(p, m) = {} THEN None ELSE CHOOSE n \in Ends(p, m) : TRUE
  BY DEF Inv, ChainInv, EndExact
<1>5. ends = [m \in Passthroughs(p) |->
                IF Ends(p, m) = {} THEN None ELSE CHOOSE n \in Ends(p, m) : TRUE]
  BY <1>3, <1>4 DEF MapInv
<1> QED BY <1>1, <1>2, <1>5 DEF PlanFor

(* build is a function of its input: whatever order the worklists are taken     *)
(* in, an open provider is written exactly if some write may land on it, with  *)
(* its first writer, it stays CommonJS exactly if one such write misses a      *)
(* whole value, and each chain has the one end it reaches.                    *)
THEOREM PlanImplementsPureCall == Spec => ImplementsPureCall
<1>1. Init => Call!Init
  BY DEF Init, Call!Init
<1>2. MapInv /\ [Next]_vars => MapInv'
  BY MapStep
<1>3. Inv /\ MapInv => DonePlan
  BY DoneIsPlan
<1>4. Inv /\ DonePlan' /\ [Next]_vars => [Call!Return]_(Call!vars)
  <2> SUFFICES ASSUME Inv, DonePlan', [Next]_vars
               PROVE  [Call!Return]_(Call!vars)
    OBVIOUS
  <2>1. CASE WritesDone
    <3>1. stage # "done" /\ stage' = "done" /\ p' = p
      BY <2>1 DEF WritesDone
    <3>2. [written |-> written', kept |-> kept', ends |-> ends'] = PlanFor(p)
      BY <3>1 DEF DonePlan
    <3> QED BY <3>1, <3>2 DEF Call!Return
  <2>2. CASE p' = p /\ stage # "done" /\ stage' # "done"
    BY <2>2 DEF Call!vars
  <2>3. CASE UNCHANGED vars
    BY <2>3 DEF vars, Call!vars
  <2>4. stage = "done" => edge = None
    BY DEF Inv, StateInv
  <2> QED
    BY <2>1, <2>2, <2>3, <2>4
       DEF Next, StartChain, VisitProvider, FollowChain, ChainsDone, StartWrite, EndWrite, WritesDone
<1> QED
  BY <1>1, InitMaps, <1>2, Invariance, <1>3, <1>4, PTL DEF Spec, ImplementsPureCall, Call!Spec

(* The consumer a written provider is reported with is the first one, in job   *)
(* order, of all that may write to it.                                       *)
THEOREM PlanFirstWriter == Spec => []FirstWriter
<1>1. Inv => FirstWriter
  BY AllHandled DEF FirstWriter, Inv, OrderInv
<1> QED BY Invariance, <1>1, PTL

(* passthrough_end finds what a chain reaches, and nothing on a cycle. *)
THEOREM PlanChainsExact == Spec => []ChainsExact
<1>1. Inv => ChainsExact
  BY DEF ChainsExact, Inv, ChainInv, EndExact
<1> QED BY Invariance, <1>1, PTL

(* An alias is the module itself, or the end of the module's chain. *)
LEMMA AliasCases ==
  ASSUME Inv, stage # "chains", NEW c, NEW t
  PROVE  \/ Alias(c, t) = t
         \/ t \in Passthroughs(p) /\ Alias(c, t) \in Ends(p, t)
<1>1. ASSUME t \in Passthroughs(p), ends[t] # None PROVE ends[t] \in Ends(p, t)
  BY <1>1 DEF Inv, StateInv, ChainInv, EndExact
<1> QED BY <1>1 DEF Alias

(* Rewriting a source to its chain's end a second time changes nothing. *)
THEOREM PlanRewriteIdempotent == Spec => []RewriteIdempotent
<1>1. Inv => RewriteIdempotent
  <2> SUFFICES ASSUME Inv, stage # "chains", NEW c \in p.mods, NEW t \in p.mods
               PROVE  Alias(c, Alias(c, t)) = Alias(c, t)
    BY DEF RewriteIdempotent
  <2>1. CASE Alias(c, t) = t
    BY <2>1
  <2>2. CASE Alias(c, t) \in Ends(p, t)
    <3>1. Alias(c, t) \notin Passthroughs(p)
      BY <2>2 DEF Ends
    <3> QED BY <3>1 DEF Alias
  <2> QED BY <2>1, <2>2, AliasCases
<1> QED BY Invariance, <1>1, PTL

(* The end of a chain is among the modules the chain's exports may come from. *)
LEMMA EndReached ==
  ASSUME p \in Inputs, NEW t \in Passthroughs(p), NEW x \in Ends(p, t), x \in p.mods
  PROVE  x \in Reached(p, t)
<1>1. ASSUME NEW S \in SUBSET p.mods, t \in S, Closed(S, p.returns) PROVE x \in S
  <2> DEFINE T == S \cap Passthroughs(p)
  <2>1. \A h \in p.through : h[2] \in p.mods => h \in p.returns
    BY InputFacts
  <2>2. Passthroughs(p) \subseteq p.mods
    BY InputFacts, PassthroughFacts
  <2>3. \A h \in p.through : h[1] \in T /\ h[2] \in Passthroughs(p) => h[2] \in T
    BY <1>1, <2>1, <2>2 DEF Closed
  <2>4. t \in T
    BY <1>1
  <2>5. PICK f \in p.through : x = f[2] /\ f[1] \in T
    BY <2>3, <2>4 DEF Ends
  <2> QED BY <1>1, <2>1, <2>5 DEF Closed
<1> QED BY <1>1 DEF Reached

(* A write through a passthrough marks the module the require is rewritten to. *)
THEOREM PlanWriteThroughAlias == Spec => []WriteThroughAlias
<1>1. Inv => WriteThroughAlias
  <2> SUFFICES ASSUME Inv, stage = "done", NEW w \in p.writes,
                      Alias(w[1], w[2]) \in p.open
               PROVE  Alias(w[1], w[2]) \in DOMAIN written
    BY DEF WriteThroughAlias
  <2>1. Alias(w[1], w[2]) \in p.mods /\ w[2] \in p.mods /\ p \in Inputs
    BY InputFacts, WriteFacts DEF Inv, StateInv
  <2>2. Alias(w[1], w[2]) \in Reached(p, w[2])
    BY <2>1, AliasCases, ReachedStart, EndReached
  <2>3. DOMAIN written = Written(p)
    BY InvPlanExact DEF PlanExact
  <2> QED BY <2>2, <2>3 DEF Written
<1> QED BY Invariance, <1>1, PTL

(* No helper is inlined from a module a consumer may write to, whatever chain  *)
(* or conditional export the write goes through.                             *)
THEOREM PlanHelperNotOverwritten == Spec => []HelperNotOverwritten
<1>1. Inv => HelperNotOverwritten
  BY InvPlanExact DEF HelperNotOverwritten, PlanExact, Inlined, Written
<1> QED BY Invariance, <1>1, PTL
=============================================================================
