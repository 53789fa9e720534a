-------------------------- MODULE PlaygroundProofs --------------------------
(***************************************************************************)
(* Theorems about Playground, for any form, any results of the workers and    *)
(* any number of edits.  The invariant says what each chain holds while it    *)
(* waits: a run that captured the current version captured the latest input,  *)
(* and a chain that may run and waits for nothing shows that input.          *)
(***************************************************************************)
EXTENDS Playground, TLAPS, FiniteSetTheorems

FormInv ==
  /\ mode \in Modes /\ producer \in Producers /\ level \in Levels
  /\ source \in Sources /\ roundSource \in Sources
  /\ edits \in 0..MaxEdits
  /\ wasm \in {"loading", "ready", "failed"}

TypeInv ==
  /\ DOMAIN seen = Chains /\ DOMAIN latest = Chains /\ DOMAIN flight = Chains
  /\ DOMAIN shown = Chains
  /\ version \in [Chains -> Nat]
  /\ timer \in [Chains -> BOOLEAN]
  /\ active \in [Chains -> BOOLEAN]
  /\ loading \in [Chains -> BOOLEAN]
  /\ \A k \in Chains : /\ DOMAIN shown[k] = {"value", "error"}
                       /\ shown[k].error \in BOOLEAN

(* The flag, the request and the busy sign of a chain agree. *)
RunInv ==
  \A k \in Chains :
    /\ active[k] <=> flight[k] # {}
    /\ loading[k] <=> active[k]
    /\ \A c, d \in flight[k] : c = d
    /\ timer[k] => ~active[k]

(* What a run captured, and what the effects last saw. *)
VersionInv ==
  \A k \in Chains :
    /\ \A c \in flight[k] : /\ c.version \in 0..version[k]
                            /\ c.version = version[k] => c.input = latest[k]
    /\ \A d \in seen[k] : seen[k] = {d} /\ latest[k] = d.input
    /\ wasm # "ready" => \A d \in seen["restore"] : ~d.gate

FreshInv ==
  \A k \in Chains : \A d \in seen[k] :
    d.gate /\ ~timer[k] /\ ~active[k] => shown[k] = Outcome(k, latest[k])

Inv == FormInv /\ TypeInv /\ RunInv /\ VersionInv /\ FreshInv

-----------------------------------------------------------------------------
LEMMA OutcomeType ==
  ASSUME NEW k, NEW i
  PROVE  /\ DOMAIN Outcome(k, i) = {"value", "error"}
         /\ Outcome(k, i).error \in BOOLEAN
  BY DEF Outcome

LEMMA InitInv == Init => Inv
<1> SUFFICES ASSUME Init PROVE Inv
  OBVIOUS
<1>1. FormInv
  BY EditsAssumption DEF Init, FormInv
<1>2. TypeInv
  BY DEF Init, TypeInv
<1>3. RunInv /\ VersionInv /\ FreshInv
  BY DEF Init, RunInv, VersionInv, FreshInv, Chains
<1> QED BY <1>1, <1>2, <1>3 DEF Inv

(* A step that leaves the refs and runs alone only has the gate of "restore"   *)
(* to keep shut.                                                             *)
LEMMA FormStep ==
  ASSUME Inv, FormInv', UNCHANGED refs, UNCHANGED runs,
         wasm = "ready" => wasm' = "ready"
  PROVE  Inv'
<1> USE DEF Inv, refs, runs
<1>1. TypeInv'
  BY DEF TypeInv
<1>2. RunInv'
  BY DEF RunInv
<1>3. VersionInv'
  BY DEF VersionInv
<1>4. FreshInv'
  BY DEF FreshInv, Outcome, Result
<1> QED BY <1>1, <1>2, <1>3, <1>4

LEMMA EditStep ==
  ASSUME Inv, Edit
  PROVE  Inv'
<1>1. FormInv'
  <2>1. edits' \in 0..MaxEdits /\ wasm' = wasm
    BY EditsAssumption DEF Inv, FormInv, Edit
  <2> QED BY <2>1 DEF Inv, FormInv, Edit
<1> QED BY <1>1, FormStep DEF Edit

LEMMA WasmStep ==
  ASSUME Inv, WasmReady \/ WasmFails
  PROVE  Inv'
<1>1. FormInv'
  BY DEF Inv, FormInv, WasmReady, WasmFails, form
<1>2. CASE WasmReady
  BY <1>1, <1>2, FormStep DEF WasmReady
<1>3. CASE WasmFails
  <2> USE DEF Inv
  <2>1. /\ wasm = "loading" /\ wasm' = "failed"
        /\ shown' = [shown EXCEPT !["restore"].error = TRUE]
        /\ seen' = seen /\ version' = version /\ latest' = latest /\ timer' = timer
        /\ active' = active /\ flight' = flight /\ loading' = loading
    BY <1>3 DEF WasmFails, refs
  <2>2. DOMAIN shown' = Chains /\ shown'["compile"] = shown["compile"]
          /\ DOMAIN shown'["restore"] = {"value", "error"} /\ shown'["restore"].error = TRUE
    BY <2>1 DEF TypeInv, Chains
  <2>3. TypeInv'
    BY <2>1, <2>2 DEF TypeInv, Chains
  <2>4. RunInv'
    BY <2>1 DEF RunInv
  <2>5. VersionInv'
    BY <2>1 DEF VersionInv
  <2>6. FreshInv'
    <3>1. \A d \in seen["restore"] : ~d.gate
      BY <2>1 DEF VersionInv, Chains
    <3> QED BY <2>1, <2>2, <3>1 DEF FreshInv, Chains, Outcome, Result
  <2> QED BY <1>1, <2>3, <2>4, <2>5, <2>6
<1> QED BY <1>2, <1>3

LEMMA FlushStep ==
  ASSUME Inv, FlushEffects
  PROVE  Inv'
<1> USE DEF Inv
<1>1. /\ seen' = [k \in Chains |-> {Deps(k)}]
      /\ latest' = [k \in Chains |-> Deps(k).input]
      /\ version' = [k \in Chains |-> IF SameInput(k) THEN version[k] ELSE version[k] + 1]
      /\ timer' = [k \in Chains |-> IF Stale(k) THEN Deps(k).gate /\ Idle(k) ELSE timer[k]]
      /\ active' = active /\ flight' = flight /\ loading' = loading /\ shown' = shown
      /\ wasm' = wasm
  BY DEF FlushEffects, runs
<1>2. FormInv'
  BY DEF FlushEffects, form, FormInv
<1>3. \A k \in Chains : Deps(k).gate \in BOOLEAN
  BY DEF Deps
<1>4. TypeInv'
  <2>1. \A k \in Chains : version'[k] \in Nat /\ timer'[k] \in BOOLEAN
    <3>1. ASSUME NEW k \in Chains PROVE version'[k] \in Nat
      BY <1>1 DEF TypeInv
    <3>2. ASSUME NEW k \in Chains PROVE timer'[k] \in BOOLEAN
      <4>1. timer[k] \in BOOLEAN /\ Idle(k) \in BOOLEAN
        BY DEF TypeInv, Idle
      <4> QED BY <1>1, <1>3, <4>1
    <3> QED BY <3>1, <3>2
  <2>2. version' \in [Chains -> Nat]
    BY <1>1, <2>1
  <2>3. timer' \in [Chains -> BOOLEAN]
    BY <1>1, <2>1
  <2> QED BY <1>1, <2>2, <2>3 DEF TypeInv
<1>5. RunInv'
  BY <1>1 DEF RunInv, Idle
<1>6. ASSUME NEW k \in Chains, SameInput(k)
      PROVE  latest'[k] = latest[k] /\ version'[k] = version[k]
  BY <1>1, <1>6 DEF SameInput, VersionInv
<1>7. VersionInv'
  <2>1. ASSUME NEW k \in Chains, NEW c \in flight[k]
        PROVE  c.version \in 0..version'[k] /\ (c.version = version'[k] => c.input = latest'[k])
    <3>1. version[k] \in Nat /\ c.version \in 0..version[k]
            /\ (c.version = version[k] => c.input = latest[k])
      BY DEF TypeInv, VersionInv
    <3>2. CASE SameInput(k)
      BY <1>6, <3>1, <3>2
    <3>3. CASE ~SameInput(k)
      <4>1. version'[k] = version[k] + 1
        BY <1>1, <3>3
      <4> QED BY <3>1, <4>1
    <3> QED BY <3>2, <3>3
  <2>2. wasm # "ready" => ~Deps("restore").gate
    BY DEF Deps
  <2> QED BY <1>1, <2>1, <2>2 DEF VersionInv, Chains
<1>8. FreshInv'
  <2>1. ASSUME NEW k \in Chains, Deps(k).gate, ~timer'[k], ~active[k]
        PROVE  shown[k] = Outcome(k, latest'[k])
    <3>1. ~Stale(k)
      BY <1>1, <2>1 DEF Idle
    <3>2. seen[k] = {Deps(k)} /\ timer'[k] = timer[k] /\ latest'[k] = latest[k]
      BY <1>1, <3>1 DEF Stale, VersionInv
    <3> QED BY <2>1, <3>2 DEF FreshInv
  <2> QED BY <1>1, <2>1 DEF FreshInv, Outcome, Result
<1> QED BY <1>2, <1>4, <1>5, <1>7, <1>8

-----------------------------------------------------------------------------
(* A run starts where none is left: what it captured is the latest input.     *)
LEMMA StartStep ==
  ASSUME Inv, NEW k \in Chains, NEW others \in SUBSET flight[k], others = {},
         Start(k, others),
         UNCHANGED form, UNCHANGED <<wasm, seen, version, latest>>,
         timer' = [timer EXCEPT ![k] = FALSE]
  PROVE  Inv'
<1> USE DEF Inv
<1>1. /\ active' = [active EXCEPT ![k] = TRUE]
      /\ flight' = [flight EXCEPT ![k] = {Captured(k)}]
      /\ loading' = [loading EXCEPT ![k] = TRUE]
      /\ shown' = [shown EXCEPT ![k].error = FALSE]
  BY DEF Start
<1>2. active'[k] = TRUE /\ flight'[k] = {Captured(k)} /\ loading'[k] = TRUE /\ timer'[k] = FALSE
        /\ DOMAIN shown'[k] = {"value", "error"} /\ shown'[k].error = FALSE
  BY <1>1 DEF TypeInv
<1>3. \A q \in Chains : q # k =>
        /\ active'[q] = active[q] /\ flight'[q] = flight[q] /\ loading'[q] = loading[q]
        /\ timer'[q] = timer[q] /\ shown'[q] = shown[q]
  BY <1>1 DEF TypeInv
<1>4. FormInv'
  BY DEF form, FormInv
<1>5. TypeInv'
  <2>1. \A q \in Chains : DOMAIN shown'[q] = {"value", "error"} /\ shown'[q].error \in BOOLEAN
    BY <1>2, <1>3 DEF TypeInv
  <2> QED BY <1>1, <2>1 DEF TypeInv
<1>6. RunInv'
  BY <1>2, <1>3 DEF RunInv
<1>7. VersionInv'
  <2>1. Captured(k).version = version[k] /\ Captured(k).input = latest[k] /\ version[k] \in Nat
    BY DEF Captured, TypeInv
  <2> QED BY <1>2, <1>3, <2>1 DEF VersionInv
<1>8. FreshInv'
  <2>1. ASSUME NEW q \in Chains, NEW d \in seen[q], d.gate, ~timer'[q], ~active'[q]
        PROVE  shown'[q] = Outcome(q, latest[q])
    <3>1. q # k
      BY <1>2, <2>1
    <3>2. shown'[q] = shown[q] /\ ~timer[q] /\ ~active[q]
      BY <1>3, <2>1, <3>1
    <3> QED BY <2>1, <3>2 DEF FreshInv
  <2>2. seen' = seen /\ latest' = latest
    OBVIOUS
  <2> QED BY <2>1, <2>2 DEF FreshInv, Outcome, Result
<1> QED BY <1>4, <1>5, <1>6, <1>7, <1>8

LEMMA TimerStep ==
  ASSUME Inv, NEW k \in Chains, TimerFires(k)
  PROVE  Inv'
<1>1. Idle(k) /\ flight[k] = {}
  BY DEF Inv, RunInv, TimerFires, Idle
<1>2. Start(k, flight[k])
  BY <1>1 DEF TimerFires
<1> QED BY <1>1, <1>2, StartStep DEF TimerFires

LEMMA AnswerStep ==
  ASSUME Inv, NEW k \in Chains, NEW c \in flight[k], Answer(k, c)
  PROVE  Inv'
<1> USE DEF Inv
<1>1. flight[k] \ {c} = {} /\ active[k] /\ timer[k] = FALSE
  BY DEF RunInv, TypeInv
<1>2. CASE c.version # version[k]
  <2>1. timer' = [timer EXCEPT ![k] = FALSE]
    BY <1>1 DEF Answer, refs, TypeInv
  <2>2. Start(k, flight[k] \ {c}) /\ UNCHANGED form /\ UNCHANGED <<wasm, seen, version, latest>>
    BY <1>2 DEF Answer, refs
  <2> QED BY <1>1, <2>1, <2>2, StartStep
<1>3. CASE c.version = version[k]
  <2>1. /\ active' = [active EXCEPT ![k] = FALSE]
        /\ flight' = [flight EXCEPT ![k] = {}]
        /\ loading' = [loading EXCEPT ![k] = FALSE]
        /\ shown' = [shown EXCEPT ![k] = Outcome(k, c.input)]
        /\ UNCHANGED form /\ UNCHANGED <<wasm, seen, version, latest, timer>>
    BY <1>1, <1>3 DEF Answer, End, refs
  <2>2. active'[k] = FALSE /\ flight'[k] = {} /\ loading'[k] = FALSE
          /\ shown'[k] = Outcome(k, c.input)
    BY <2>1 DEF TypeInv
  <2>3. \A q \in Chains : q # k =>
          /\ active'[q] = active[q] /\ flight'[q] = flight[q] /\ loading'[q] = loading[q]
          /\ shown'[q] = shown[q]
    BY <2>1 DEF TypeInv
  <2>4. c.input = latest[k]
    BY <1>3 DEF VersionInv
  <2>5. FormInv'
    BY <2>1 DEF form, FormInv
  <2>6. TypeInv'
    <3>1. \A q \in Chains : DOMAIN shown'[q] = {"value", "error"} /\ shown'[q].error \in BOOLEAN
      BY <2>2, <2>3, OutcomeType DEF TypeInv
    <3> QED BY <2>1, <3>1 DEF TypeInv
  <2>7. RunInv'
    BY <2>1, <2>2, <2>3 DEF RunInv
  <2>8. VersionInv'
    BY <2>1, <2>2, <2>3 DEF VersionInv
  <2>9. FreshInv'
    <3>1. ASSUME NEW q \in Chains, NEW d \in seen[q], d.gate, ~timer[q], ~active'[q]
          PROVE  shown'[q] = Outcome(q, latest[q])
      <4>1. CASE q = k
        BY <2>2, <2>4, <4>1
      <4>2. CASE q # k
        BY <2>3, <3>1, <4>2 DEF FreshInv
      <4> QED BY <4>1, <4>2
    <3>2. seen' = seen /\ timer' = timer /\ latest' = latest
      BY <2>1
    <3> QED BY <3>1, <3>2 DEF FreshInv, Outcome, Result
  <2> QED BY <2>5, <2>6, <2>7, <2>8, <2>9
<1> QED BY <1>2, <1>3

LEMMA StutterStep ==
  ASSUME Inv, UNCHANGED vars
  PROVE  Inv'
<1>1. FormInv' /\ UNCHANGED refs /\ UNCHANGED runs /\ wasm' = wasm
  BY DEF Inv, FormInv, vars, form
<1> QED BY <1>1, FormStep

LEMMA Invariance == Spec => []Inv
<1>1. Inv /\ [Next]_vars => Inv'
  BY EditStep, WasmStep, FlushStep, TimerStep, AnswerStep, StutterStep DEF Next
<1> QED BY InitInv, <1>1, PTL DEF Spec

-----------------------------------------------------------------------------
(* The variables keep their types, and no run captures a version to come. *)
THEOREM PlaygroundTypeCorrect == Spec => []TypeOK
<1>1. Inv => TypeOK
  BY DEF Inv, FormInv, TypeInv, VersionInv, TypeOK
<1> QED BY Invariance, <1>1, PTL

(* However edits, effects, timers and answers interleave, a worker has one     *)
(* request at most, and the pane is busy exactly then.                       *)
THEOREM PlaygroundSingleFlight == Spec => []SingleFlight
<1>1. Inv => SingleFlight
  <2> SUFFICES ASSUME Inv, NEW k \in Chains
               PROVE  /\ Cardinality(flight[k]) <= 1
                      /\ loading[k] <=> flight[k] # {}
                      /\ timer[k] => flight[k] = {}
    BY DEF SingleFlight
  <2>1. CASE flight[k] = {}
    BY <2>1, FS_EmptySet DEF Inv, RunInv
  <2>2. CASE flight[k] # {}
    <3>1. PICK c : flight[k] = {c}
      BY <2>2 DEF Inv, RunInv
    <3>2. Cardinality(flight[k]) = 1
      BY <3>1, FS_Singleton
    <3> QED BY <2>2, <3>2 DEF Inv, RunInv
  <2> QED BY <2>1, <2>2
<1> QED BY Invariance, <1>1, PTL

(* No edit is lost: at rest, both panes show what the form asks for. *)
THEOREM PlaygroundShownFresh == Spec => []ShownFresh
<1>1. Inv => ShownFresh
  <2> SUFFICES ASSUME Inv, Settled PROVE ShownFresh
    BY DEF ShownFresh
  <2>1. ASSUME NEW k \in Chains, Deps(k).gate PROVE shown[k] = Outcome(k, Deps(k).input)
    <3>1. seen[k] = {Deps(k)} /\ ~timer[k] /\ ~active[k]
      BY DEF Settled, Stale, Inv, RunInv
    <3>2. latest[k] = Deps(k).input
      BY <3>1 DEF Inv, VersionInv
    <3> QED BY <2>1, <3>1, <3>2 DEF Inv, FreshInv
  <2>2. mode = "roundtrip" => shown["compile"] = Outcome("compile", <<roundSource, producer>>)
    BY <2>1 DEF Deps, Chains
  <2>3. wasm = "ready" => shown["restore"] = Outcome("restore", <<WakaruSource, level>>)
    BY <2>1 DEF Deps, Chains
  <2> QED BY <2>2, <2>3 DEF ShownFresh
<1> QED BY Invariance, <1>1, PTL

(* A pane that ceases to be busy shows the latest input its effects know. *)
THEOREM PlaygroundBusyUntilLatest == Spec => BusyUntilLatest
<1> DEFINE Ceases ==
      \A k \in Chains : loading[k] /\ ~loading'[k] => shown'[k] = Outcome(k, latest[k])
<1>1. ASSUME Inv, [Next]_vars PROVE Ceases
  <2> SUFFICES ASSUME NEW k \in Chains, loading[k], ~loading'[k]
               PROVE  shown'[k] = Outcome(k, latest[k])
    OBVIOUS
  <2> USE DEF Inv
  <2>1. loading[k] = TRUE /\ loading'[k] # TRUE /\ loading' # loading
    BY <1>1 DEF TypeInv
  <2>2. \A q, others : ~Start(q, others)
    <3> SUFFICES ASSUME NEW q, NEW others, Start(q, others) PROVE FALSE
      OBVIOUS
    <3>1. loading' = [loading EXCEPT ![q] = TRUE]
      BY DEF Start
    <3> QED BY <1>1, <2>1, <3>1 DEF TypeInv
  <2>3. ~Edit /\ ~WasmReady /\ ~WasmFails /\ ~FlushEffects
    BY <2>1 DEF Edit, WasmReady, WasmFails, FlushEffects, runs
  <2>4. \A q \in Chains : ~TimerFires(q)
    BY <2>1, <2>2 DEF TimerFires, runs
  <2>5. UNCHANGED vars => loading' = loading
    BY DEF vars, runs
  <2>6. PICK q \in Chains : \E c \in flight[q] : Answer(q, c)
    BY <1>1, <2>1, <2>3, <2>4, <2>5 DEF Next
  <2>7. PICK c \in flight[q] : Answer(q, c)
    BY <2>6
  <2>8. c.version = version[q] /\ End(q, c) /\ shown' = [shown EXCEPT ![q] = Outcome(q, c.input)]
    BY <2>2, <2>7 DEF Answer
  <2>9. q = k
    <3>1. loading' = [loading EXCEPT ![q] = FALSE]
      BY <2>8 DEF End
    <3> QED BY <1>1, <2>1, <3>1 DEF TypeInv
  <2>10. c.input = latest[k]
    BY <1>1, <2>7, <2>8, <2>9 DEF VersionInv
  <2>11. shown' = [shown EXCEPT ![k] = Outcome(k, c.input)] /\ DOMAIN shown = Chains
    BY <1>1, <2>8, <2>9 DEF TypeInv
  <2>12. shown'[k] = Outcome(k, c.input)
    BY <2>11
  <2> QED BY <2>10, <2>12
<1> HIDE DEF Ceases
<1>2. Inv /\ [Next]_vars => [Ceases]_vars
  BY <1>1
<1>3. Spec => [][Ceases]_vars
  BY Invariance, <1>2, PTL DEF Spec
<1> QED BY <1>3 DEF BusyUntilLatest, Ceases
-----------------------------------------------------------------------------
(* The decompiler's chain waits for its worker: no timer, no run before. *)
GateInv == wasm # "ready" => ~timer["restore"] /\ ~active["restore"]

LEMMA GateStep ==
  ASSUME Inv, GateInv, [Next]_vars
  PROVE  GateInv'
<1> USE DEF GateInv
<1>1. CASE Edit
  BY <1>1 DEF Edit, refs, runs
<1>2. CASE WasmReady
  BY <1>2 DEF WasmReady
<1>3. CASE WasmFails
  BY <1>3 DEF WasmFails, refs
<1>4. CASE FlushEffects
  BY <1>4 DEF FlushEffects, runs, Deps, Chains
<1>5. ASSUME NEW k \in Chains, TimerFires(k) PROVE GateInv'
  <2>1. timer[k] /\ timer' = [timer EXCEPT ![k] = FALSE] /\ wasm' = wasm
    BY <1>5 DEF TimerFires
  <2>2. active' \in {active, [active EXCEPT ![k] = TRUE]}
    BY <1>5 DEF TimerFires, Start, runs
  <2> QED BY <2>1, <2>2 DEF Inv, TypeInv, Chains
<1>6. ASSUME NEW k \in Chains, NEW c \in flight[k], Answer(k, c) PROVE GateInv'
  <2>1. active[k] /\ timer' = timer /\ wasm' = wasm
    BY <1>6 DEF Answer, refs, Inv, RunInv
  <2>2. active' \in {[active EXCEPT ![k] = FALSE], [active EXCEPT ![k] = TRUE]}
    BY <1>6 DEF Answer, Start, End
  <2> QED BY <2>1, <2>2 DEF Inv, TypeInv, Chains
<1>7. CASE UNCHANGED vars
  BY <1>7 DEF vars, refs, runs
<1> QED BY <1>1, <1>2, <1>3, <1>4, <1>5, <1>6, <1>7 DEF Next

(* What a step of the page is to one of its panes. *)
PaneStep(k) ==
  \/ latest'[k] # latest[k] /\ loading'[k] = loading[k] /\ shown'[k] = shown[k]
  \/ loading'[k] /\ shown'[k] = [shown[k] EXCEPT !.error = FALSE] /\ latest'[k] = latest[k]
  \/ loading[k] /\ ~loading'[k] /\ shown'[k] = Outcome(k, latest[k]) /\ latest'[k] = latest[k]
  \/ /\ ~loading[k] /\ shown'[k] = [shown[k] EXCEPT !.error = TRUE]
     /\ loading'[k] = loading[k] /\ latest'[k] = latest[k]
  \/ latest'[k] = latest[k] /\ loading'[k] = loading[k] /\ shown'[k] = shown[k]

(* To begin a run of one pane does not touch the other. *)
LEMMA StartPane ==
  ASSUME Inv, NEW q \in Chains, NEW others, Start(q, others), latest' = latest,
         NEW k \in Chains
  PROVE  PaneStep(k)
<1>1. /\ loading' = [loading EXCEPT ![q] = TRUE]
      /\ shown' = [shown EXCEPT ![q].error = FALSE]
  BY DEF Start
<1>2. CASE q = k
  BY <1>1, <1>2 DEF Inv, TypeInv, PaneStep
<1>3. CASE q # k
  BY <1>1, <1>3 DEF Inv, TypeInv, PaneStep
<1> QED BY <1>2, <1>3

LEMMA EveryPaneSteps ==
  ASSUME Inv, GateInv, [Next]_vars, NEW k \in Chains
  PROVE  PaneStep(k)
<1>1. CASE Edit
  BY <1>1 DEF Edit, refs, runs, PaneStep
<1>2. CASE WasmReady
  BY <1>2 DEF WasmReady, refs, runs, PaneStep
<1>3. CASE WasmFails
  <2>1. /\ shown' = [shown EXCEPT !["restore"].error = TRUE]
        /\ latest' = latest /\ loading' = loading
        /\ ~loading["restore"]
    BY <1>3 DEF WasmFails, refs, GateInv, Inv, RunInv, Chains
  <2> QED BY <2>1 DEF Inv, TypeInv, PaneStep, Chains
<1>4. CASE FlushEffects
  BY <1>4 DEF FlushEffects, runs, PaneStep
<1>5. ASSUME NEW q \in Chains, TimerFires(q) PROVE PaneStep(k)
  <2>1. CASE Idle(q)
    BY <1>5, <2>1, StartPane DEF TimerFires
  <2>2. CASE ~Idle(q)
    BY <1>5, <2>2 DEF TimerFires, runs, PaneStep
  <2> QED BY <2>1, <2>2
<1>6. ASSUME NEW q \in Chains, NEW c \in flight[q], Answer(q, c) PROVE PaneStep(k)
  <2>1. latest' = latest
    BY <1>6 DEF Answer, refs
  <2>2. CASE c.version # version[q]
    <3>1. Start(q, flight[q] \ {c})
      BY <1>6, <2>2 DEF Answer
    <3> QED BY <2>1, <3>1, StartPane
  <2>3. CASE c.version = version[q]
    <3>1. /\ loading' = [loading EXCEPT ![q] = FALSE]
          /\ shown' = [shown EXCEPT ![q] = Outcome(q, c.input)]
      BY <1>6, <2>3 DEF Answer, End
    <3>2. c.input = latest[q] /\ loading[q]
      BY <1>6, <2>3 DEF Inv, VersionInv, RunInv
    <3>3. CASE q = k
      <4>1. shown'[k] = Outcome(k, latest[k]) /\ ~loading'[k] /\ loading[k]
        BY <3>1, <3>2, <3>3 DEF Inv, TypeInv
      <4> QED BY <2>1, <4>1 DEF PaneStep
    <3>4. CASE q # k
      BY <2>1, <3>1, <3>4 DEF Inv, TypeInv, PaneStep
    <3> QED BY <3>3, <3>4
  <2> QED BY <2>2, <2>3
<1>7. CASE UNCHANGED vars
  BY <1>7 DEF vars, refs, runs, PaneStep
<1> QED BY <1>1, <1>2, <1>3, <1>4, <1>5, <1>6, <1>7 DEF Next

(* Both panes implement LatestWins: what is shown after an await is the        *)
(* result of the input as it is then, whatever changed during it.            *)
THEOREM PlaygroundPanes == Spec => PanesLatestWins
<1>1. Init => GateInv /\ CompilePane!Init /\ RestorePane!Init
  BY DEF Init, GateInv, CompilePane!Init, RestorePane!Init, Chains
<1>2. ASSUME Inv, GateInv, [Next]_vars
      PROVE  GateInv' /\ [CompilePane!Next]_(CompilePane!vars)
                      /\ [RestorePane!Next]_(RestorePane!vars)
  <2>1. PaneStep("compile") /\ PaneStep("restore")
    BY <1>2, EveryPaneSteps DEF Chains
  <2>2. [CompilePane!Next]_(CompilePane!vars)
    BY <2>1 DEF PaneStep, CompilePane!Next, CompilePane!vars, CompilePane!Ask, CompilePane!Begin,
                CompilePane!Show, CompilePane!Fail, CompileOutcome
  <2>3. [RestorePane!Next]_(RestorePane!vars)
    BY <2>1 DEF PaneStep, RestorePane!Next, RestorePane!vars, RestorePane!Ask, RestorePane!Begin,
                RestorePane!Show, RestorePane!Fail, RestoreOutcome
  <2> QED BY <1>2, <2>2, <2>3, GateStep
<1> QED
  BY <1>1, <1>2, Invariance, PTL DEF Spec, PanesLatestWins, CompilePane!Spec, RestorePane!Spec
=============================================================================
