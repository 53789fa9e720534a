-------------------------- MODULE DeadModuleProofs --------------------------
(***************************************************************************)
(* Dead-module elimination is safe, and drops exactly what it says, for      *)
(* every output graph.                                                       *)
(***************************************************************************)
EXTENDS DeadModule, TLAPS

(* The transitively pure modules are themselves such a set, and the largest. *)
LEMMA TransitivelyPureIsLargest ==
  ASSUME NEW h
  PROVE  /\ TransitivelyPure(h) \subseteq LocallyPure(h)
         /\ ClosedForward(TransitivelyPure(h), EagerDeps(h))
         /\ \A S \in SUBSET LocallyPure(h) :
              ClosedForward(S, EagerDeps(h)) => S \subseteq TransitivelyPure(h)
  BY DEF TransitivelyPure, ClosedForward

(* So are the dropped modules among the pure droppable ones. *)
LEMMA DroppedIsLargest ==
  ASSUME NEW h
  PROVE  /\ Dropped(h) \subseteq Droppable(h) \cap TransitivelyPure(h)
         /\ ClosedBackward(Dropped(h), BindingImporters(h))
         /\ \A S \in SUBSET (Droppable(h) \cap TransitivelyPure(h)) :
              ClosedBackward(S, BindingImporters(h)) => S \subseteq Dropped(h)
  BY DEF Dropped, ClosedBackward

(* Only modules of the output are eliminated. *)
LEMMA EliminatedInOutput ==
  ASSUME NEW h \in Graphs
  PROVE  Eliminated(h) \subseteq h.mods
<1>1. Droppable(h) \subseteq h.mods
  BY GraphsAssumption DEF Droppable
<1>2. QED
  BY <1>1, DroppedIsLargest DEF Eliminated

(* Nothing is stripped before the pass emits. *)
NothingStripped == stage # "done" => stripped = {}

(* While the purity loop runs, `pure` lies between the set it is to find and  *)
(* the set it started from.                                                  *)
PurityInv ==
  stage = "purity" =>
    /\ g.reported = g.mods
    /\ TransitivelyPure(g) \subseteq pure
    /\ pure \subseteq LocallyPure(g)

(* So does `candidate` while the cascade runs. *)
CascadeInv ==
  stage = "cascade" =>
    /\ g.reported = g.mods
    /\ Dropped(g) \subseteq candidate
    /\ candidate \subseteq Droppable(g) \cap TransitivelyPure(g)

EmitInv ==
  stage = "emit" =>
    /\ g.reported = g.mods
    /\ candidate = Eliminated(g)

DoneInv ==
  stage = "done" =>
    /\ kept = g.mods \ Eliminated(g)
    /\ stripped = {e \in g.sides : /\ e[1] \notin Eliminated(g) \cup g.unstrippable
                                   /\ e[2] \in Eliminated(g)}

IInv ==
  /\ TypeOK
  /\ g \in Graphs
  /\ NothingStripped
  /\ PurityInv
  /\ CascadeInv
  /\ EmitInv
  /\ DoneInv

LEMMA InitIInv == Init => IInv
  BY GraphsAssumption
     DEF Init, IInv, TypeOK, Stages, NothingStripped, PurityInv, CascadeInv, EmitInv, DoneInv

LEMMA StepIInv == IInv /\ [Next]_vars => IInv'
<1> SUFFICES ASSUME IInv, [Next]_vars PROVE IInv'
  OBVIOUS
<1> USE DEF IInv, TypeOK, Stages, NothingStripped
<1>1. CASE Bail
  <2>1. /\ stage' = "done" /\ kept' = g.mods /\ stripped' = stripped /\ g' = g
        /\ pure' = pure /\ candidate' = candidate /\ g.reported # g.mods
    BY <1>1 DEF Bail
  <2>2. Eliminated(g) = {}
    BY <2>1 DEF Eliminated
  <2>3. DoneInv'
    <3>1. stage = "report"
      BY <1>1 DEF Bail
    <3>2. {e \in g.sides : e[1] \notin {} \cup g.unstrippable /\ e[2] \in {}} = {}
      OBVIOUS
    <3>3. QED
      BY <2>1, <2>2, <3>1, <3>2 DEF DoneInv
  <2>4. QED
    BY <2>1, <2>3 DEF PurityInv, CascadeInv, EmitInv
<1>2. CASE Start
  <2>1. /\ stage = "report" /\ stage' = "purity" /\ pure' = LocallyPure(g)
        /\ g.reported = g.mods
        /\ UNCHANGED <<g, candidate, kept, stripped>>
    BY <1>2 DEF Start
  <2>2. LocallyPure(g) \subseteq g.mods
    BY GraphsAssumption DEF LocallyPure, OwnBodyPure
  <2>3. PurityInv'
    BY <2>1, TransitivelyPureIsLargest DEF PurityInv
  <2>4. QED
    BY <2>1, <2>2, <2>3 DEF CascadeInv, EmitInv, DoneInv
<1>3. CASE PurityRound
  <2>1. /\ stage = "purity" /\ stage' = "purity" /\ pure' = pure \ Impure
        /\ UNCHANGED <<g, candidate, kept, stripped>>
    BY <1>3 DEF PurityRound
  <2>2. TransitivelyPure(g) \cap Impure = {}
    BY <2>1, TransitivelyPureIsLargest DEF PurityInv, Impure, ClosedForward
  <2>3. PurityInv'
    BY <2>1, <2>2 DEF PurityInv
  <2>4. QED
    BY <2>1, <2>3 DEF CascadeInv, EmitInv, DoneInv
<1>4. CASE PurityDone
  <2>1. /\ stage = "purity" /\ stage' = "cascade" /\ Impure = {}
        /\ candidate' = Droppable(g) \cap pure
        /\ UNCHANGED <<g, pure, kept, stripped>>
    BY <1>4 DEF PurityDone
  <2>2. ClosedForward(pure, EagerDeps(g))
    BY <2>1 DEF Impure, ClosedForward
  <2>3. pure = TransitivelyPure(g)
    BY <2>1, <2>2, TransitivelyPureIsLargest DEF PurityInv
  <2>4. CascadeInv'
    BY <2>1, <2>3, DroppedIsLargest DEF CascadeInv, PurityInv
  <2>5. candidate' \subseteq g.mods
    BY <2>1
  <2>6. QED
    BY <2>1, <2>4, <2>5 DEF PurityInv, EmitInv, DoneInv
<1>5. CASE CascadeRound
  <2>1. /\ stage = "cascade" /\ stage' = "cascade" /\ candidate' = candidate \ Live
        /\ UNCHANGED <<g, pure, kept, stripped>>
    BY <1>5 DEF CascadeRound
  <2>2. Dropped(g) \cap Live = {}
    BY <2>1, DroppedIsLargest DEF CascadeInv, Live, ClosedBackward
  <2>3. CascadeInv'
    BY <2>1, <2>2 DEF CascadeInv
  <2>4. QED
    BY <2>1, <2>3 DEF PurityInv, EmitInv, DoneInv
<1>6. CASE CascadeDone
  <2>1. /\ stage = "cascade" /\ stage' = "emit" /\ Live = {}
        /\ candidate' = IF candidate = g.mods THEN {} ELSE candidate
        /\ UNCHANGED <<g, pure, kept, stripped>>
    BY <1>6 DEF CascadeDone
  <2>2. ClosedBackward(candidate, BindingImporters(g))
    BY <2>1 DEF Live, ClosedBackward
  <2>3. candidate = Dropped(g)
    BY <2>1, <2>2, DroppedIsLargest DEF CascadeInv
  <2>4. EmitInv'
    BY <2>1, <2>3 DEF EmitInv, CascadeInv, Eliminated
  <2>5. QED
    BY <2>1, <2>4 DEF PurityInv, CascadeInv, DoneInv
<1>7. CASE Emit
  <2>1. /\ stage = "emit" /\ stage' = "done" /\ kept' = g.mods \ candidate
        /\ stripped' = {e \in g.sides : /\ e[1] \notin candidate \cup g.unstrippable
                                        /\ e[2] \in candidate}
        /\ UNCHANGED <<g, pure, candidate>>
    BY <1>7 DEF Emit
  <2>2. DoneInv'
    BY <2>1 DEF DoneInv, EmitInv
  <2>3. QED
    BY <2>1, <2>2 DEF PurityInv, CascadeInv, EmitInv
<1>8. CASE UNCHANGED vars
  BY <1>8 DEF vars, PurityInv, CascadeInv, EmitInv, DoneInv
<1>9. QED
  BY <1>1, <1>2, <1>3, <1>4, <1>5, <1>6, <1>7, <1>8 DEF Next

THEOREM DeadModuleInvariant == Spec => []IInv
<1>1. QED
  BY InitIInv, StepIInv, PTL DEF Spec

(* The variables keep their types. *)
THEOREM DeadModuleTypeCorrect == Spec => []TypeOK
<1>1. IInv => TypeOK
  BY DEF IInv
<1>2. QED
  BY <1>1, DeadModuleInvariant, PTL

(* The pass drops exactly the largest closed set of pure helpers, strips the   *)
(* bare imports of what it drops, and answers once.                           *)
THEOREM DeadModuleImplementsPureCall == Spec => ImplementsPureCall
<1>1. Init => Call!Init
  BY DEF Init, Call!Init
<1>2. IInv /\ IInv' /\ [Next]_vars => [Call!Return]_(Call!vars)
  <2> SUFFICES ASSUME IInv, IInv', [Next]_vars
               PROVE  [Call!Return]_(Call!vars)
    OBVIOUS
  <2>1. CASE Bail \/ Emit
    <3>1. stage # "done" /\ stage' = "done" /\ g' = g
      BY <2>1 DEF Bail, Emit
    <3>2. [kept |-> kept', stripped |-> stripped'] = Pruned(g)
      BY <3>1 DEF IInv, DoneInv, Pruned
    <3>3. QED
      BY <3>1, <3>2 DEF Call!Return
  <2>2. CASE Start \/ PurityRound \/ PurityDone \/ CascadeRound \/ CascadeDone
    <3>1. /\ stage # "done" /\ stage' # "done"
          /\ UNCHANGED <<g, kept, stripped>>
      BY <2>2 DEF Start, PurityRound, PurityDone, CascadeRound, CascadeDone
    <3>2. QED
      BY <3>1 DEF Call!vars
  <2>3. CASE UNCHANGED vars
    BY <2>3 DEF vars, Call!vars
  <2>4. QED
    BY <2>1, <2>2, <2>3 DEF Next
<1>3. QED
  BY <1>1, <1>2, DeadModuleInvariant, PTL DEF Spec, ImplementsPureCall, Call!Spec

(* No surviving import, import() or require() names a dropped module, except  *)
(* a bare import of a module that could not be stripped.                      *)
THEOREM DeadModuleSafe == Spec => []NoDanglingImport
<1>1. IInv => NoDanglingImport
  <2> SUFFICES ASSUME IInv, stage = "done",
                      NEW e \in KeptImports \cup g.refs, e[1] \in kept,
                      e \in BindingImporters(g) \/ e[1] \notin g.unstrippable
               PROVE  e[2] \in kept
    BY DEF NoDanglingImport
  <2>1. /\ kept = g.mods \ Eliminated(g)
        /\ stripped = {f \in g.sides : /\ f[1] \notin Eliminated(g) \cup g.unstrippable
                                       /\ f[2] \in Eliminated(g)}
    BY DEF IInv, DoneInv
  <2>2. ClosedBackward(Eliminated(g), BindingImporters(g))
    BY DroppedIsLargest DEF Eliminated, ClosedBackward
  <2>3. e[2] \in g.mods
    BY GraphsAssumption DEF IInv, KeptImports, EagerDeps
  <2>4. CASE e \in BindingImporters(g)
    BY <2>1, <2>2, <2>3, <2>4 DEF ClosedBackward
  <2>5. CASE e \in g.sides /\ e \notin stripped /\ e \notin BindingImporters(g)
    BY <2>1, <2>3, <2>5
  <2>6. QED
    BY <2>4, <2>5 DEF KeptImports, EagerDeps, BindingImporters
<1>2. QED
  BY <1>1, DeadModuleInvariant, PTL

(* Evaluating an emitted module still runs every effect it ran before: what   *)
(* the emitted imports load, with the transitively pure modules added, is     *)
(* closed under the imports there were before the pass.                       *)
THEOREM DeadModuleKeepsEffects == Spec => []EffectsKept
<1>1. IInv => EffectsKept
  <2> SUFFICES ASSUME IInv, stage = "done", NEW m \in kept,
                      NEW n \in Evaluated(m, EagerDeps(g)), n \notin LocallyPure(g)
               PROVE  n \in Evaluated(m, Loaded)
    BY DEF EffectsKept
  <2>1. /\ kept = g.mods \ Eliminated(g)
        /\ stripped = {f \in g.sides : /\ f[1] \notin Eliminated(g) \cup g.unstrippable
                                       /\ f[2] \in Eliminated(g)}
    BY DEF IInv, DoneInv
  <2>2. Eliminated(g) \subseteq TransitivelyPure(g)
    BY DroppedIsLargest DEF Eliminated
  <2>3. TransitivelyPure(g) \subseteq g.mods
    BY GraphsAssumption, TransitivelyPureIsLargest DEF IInv, LocallyPure, OwnBodyPure
  <2>4. SUFFICES ASSUME NEW S \in SUBSET g.mods, m \in S, ClosedForward(S, Loaded)
                 PROVE  n \in S
    BY DEF Evaluated
  <2> DEFINE T == S \cup TransitivelyPure(g)
  <2>5. ClosedForward(T, EagerDeps(g))
    <3> SUFFICES ASSUME NEW e \in EagerDeps(g), e[1] \in T PROVE e[2] \in T
      BY DEF ClosedForward
    <3>1. CASE e[1] \in TransitivelyPure(g)
      BY <3>1, TransitivelyPureIsLargest DEF ClosedForward
    <3>2. CASE e[2] \notin kept
      <4>1. e[2] \in g.mods
        BY GraphsAssumption DEF IInv, EagerDeps
      <4>2. QED
        BY <2>1, <2>2, <3>2, <4>1
    <3>3. CASE e[1] \notin TransitivelyPure(g) /\ e[2] \in kept
      <4>1. e \in Loaded
        BY <2>1, <2>2, <2>4, <3>3 DEF Loaded, KeptImports
      <4>2. e[2] \in S
        BY <2>4, <3>3, <4>1 DEF ClosedForward
      <4>3. QED
        BY <4>2
    <3>4. QED
      BY <3>1, <3>2, <3>3
  <2>6. T \in SUBSET g.mods /\ m \in T
    BY <2>3, <2>4
  <2>7. n \in T
    BY <2>5, <2>6 DEF Evaluated
  <2>8. QED
    BY <2>7, TransitivelyPureIsLargest
<1>2. QED
  BY <1>1, DeadModuleInvariant, PTL

(* Dropping loses no effect: a dropped module and everything it evaluates     *)
(* eagerly lie in one set of locally pure modules closed under evaluation.    *)
THEOREM DroppedAreInert ==
  ASSUME NEW h
  PROVE  \E S : /\ Eliminated(h) \subseteq S
                /\ S \subseteq LocallyPure(h)
                /\ ClosedForward(S, EagerDeps(h))
<1>1. Eliminated(h) \subseteq TransitivelyPure(h)
  BY DroppedIsLargest DEF Eliminated
<1>2. QED
  BY <1>1, TransitivelyPureIsLargest
=============================================================================
