----------------------------- MODULE DeadModule -----------------------------
(***************************************************************************)
(* eliminate_dead_helper_modules and compute_dropped (core/src/driver/       *)
(* unpack/dead_module.rs) as they run: a bail-out, the purity fixpoint, the  *)
(* cascade fixpoint, and the pass that drops modules and strips the          *)
(* side-effect imports left over.                                            *)
(***************************************************************************)
EXTENDS DeadModuleOps, Naturals

CONSTANTS
  Mods,     (* the module names an output may use     *)
  Graphs    (* the outputs the pass may be given      *)

ASSUME GraphsAssumption ==
  \A g \in Graphs :
    /\ g.mods \subseteq Mods
    /\ g.reported \subseteq g.mods
    /\ g.plain \subseteq g.mods
    /\ g.helper \subseteq g.mods
    /\ g.binds \subseteq g.mods \X g.mods
    /\ g.sides \subseteq g.mods \X g.mods
    /\ g.refs \subseteq g.mods \X g.mods
    /\ g.reexports \subseteq g.mods \X g.mods
    /\ g.unstrippable \subseteq g.mods

VARIABLES
  g,          (* the reports, fixed by the input                          *)
  stage,      (* "report", "purity", "cascade", "emit" or "done"           *)
  pure,       (* `pure` of compute_dropped                                 *)
  candidate,  (* `candidate`, the modules to drop                          *)
  kept,       (* the modules emitted                                       *)
  stripped    (* the side-effect imports removed from emitted modules      *)

vars == <<g, stage, pure, candidate, kept, stripped>>

Init ==
  /\ g \in Graphs
  /\ stage = "report"
  /\ pure = {}
  /\ candidate = {}
  /\ kept = {}
  /\ stripped = {}

(* "A module that failed to decompile has no report ... Bail." *)
Bail ==
  /\ stage = "report"
  /\ g.reported # g.mods
  /\ stage' = "done"
  /\ kept' = g.mods
  /\ UNCHANGED <<g, pure, candidate, stripped>>

(* Mutant of Start: in-output dependencies are taken to be pure. *)
StartCascade ==
  /\ stage = "report"
  /\ g.reported = g.mods
  /\ stage' = "cascade"
  /\ pure' = LocallyPure(g)
  /\ candidate' = Droppable(g) \cap LocallyPure(g)
  /\ UNCHANGED <<g, kept, stripped>>

Start ==
  /\ stage = "report"
  /\ g.reported = g.mods
  /\ stage' = "purity"
  /\ pure' = LocallyPure(g)
  /\ UNCHANGED <<g, candidate, kept, stripped>>

(* The modules a purity round removes: some eager dependency is impure. *)
Impure == {m \in pure : \E e \in EagerDeps(g) : e[1] = m /\ e[2] \notin pure}

PurityRound ==
  /\ stage = "purity"
  /\ Impure # {}
  /\ pure' = pure \ Impure
  /\ UNCHANGED <<g, stage, candidate, kept, stripped>>

PurityDone ==
  /\ stage = "purity"
  /\ Impure = {}
  /\ stage' = "cascade"
  /\ candidate' = Droppable(g) \cap pure
  /\ UNCHANGED <<g, pure, kept, stripped>>

(* Mutant of Live: an importer keeps its target alive only if it is no helper *)
(* itself.                                                                    *)
LiveNonHelper ==
  {m \in candidate :
     \E e \in BindingImporters(g) : e[2] = m /\ e[1] \notin g.helper}

(* The candidates a cascade round removes: some binding importer survives. *)
Live ==
  {m \in candidate :
     \E e \in BindingImporters(g) : e[2] = m /\ e[1] \notin candidate}

CascadeRound ==
  /\ stage = "cascade"
  /\ Live # {}
  /\ candidate' = candidate \ Live
  /\ UNCHANGED <<g, stage, pure, kept, stripped>>

(* The loop ends; a drop set that covers the whole output is cleared. *)
CascadeDone ==
  /\ stage = "cascade"
  /\ Live = {}
  /\ stage' = "emit"
  /\ candidate' = IF candidate = g.mods THEN {} ELSE candidate
  /\ UNCHANGED <<g, pure, kept, stripped>>

(* Mutant of Emit: imports are stripped without asking whether they bind. *)
EmitStripBindings ==
  /\ stage = "emit"
  /\ stage' = "done"
  /\ kept' = g.mods \ candidate
  /\ stripped' = {e \in EagerDeps(g) :
                    /\ e[1] \notin candidate \cup g.unstrippable
                    /\ \E f \in g.sides : f[1] = e[1] /\ f[2] \in candidate}
  /\ UNCHANGED <<g, pure, candidate>>

(* Survivors are emitted; strip_side_effect_imports removes their bare       *)
(* imports of dropped modules, unless their text fails to parse again: it is *)
(* then emitted as it was.                                                   *)
Emit ==
  /\ stage = "emit"
  /\ stage' = "done"
  /\ kept' = g.mods \ candidate
  /\ stripped' = {e \in g.sides : /\ e[1] \notin candidate \cup g.unstrippable
                                  /\ e[2] \in candidate}
  /\ UNCHANGED <<g, pure, candidate>>

Next ==
  \/ Bail
  \/ Start
  \/ PurityRound
  \/ PurityDone
  \/ CascadeRound
  \/ CascadeDone
  \/ Emit

Spec == Init /\ [][Next]_vars

-----------------------------------------------------------------------------
Stages == {"report", "purity", "cascade", "emit", "done"}

TypeOK ==
  /\ g.mods \subseteq Mods
  /\ stage \in Stages
  /\ pure \subseteq g.mods
  /\ candidate \subseteq g.mods
  /\ kept \subseteq g.mods
  /\ stripped \subseteq g.sides

(* The static imports an emitted module still has. *)
KeptImports == {e \in EagerDeps(g) \ stripped : e[1] \in kept}

(* The module an emitted module imports, or names in import() or require(),  *)
(* is emitted too.  A dropped one is named only by a bare import that binds  *)
(* nothing, of a module that could not be stripped ("fall back to the        *)
(* unstripped code rather than losing the module").                          *)
NoDanglingImport ==
  stage = "done" =>
    \A e \in KeptImports \cup g.refs :
      e[1] \in kept =>
        \/ e[2] \in kept
        \/ e \notin BindingImporters(g) /\ e[1] \in g.unstrippable

(* The imports of an emitted module that find a module.                      *)
Loaded == {e \in KeptImports : e[2] \in kept}

(* What evaluating m evaluates along the edges R: the least set that holds m *)
(* and is closed under R.                                                    *)
Evaluated(m, R) ==
  {n \in g.mods : \A S \in SUBSET g.mods : m \in S /\ ClosedForward(S, R) => n \in S}

(* Evaluating an emitted module still runs every side effect it ran before   *)
(* the pass: the modules with effects, or with dependencies outside the      *)
(* output, that it reached through static imports are all still reached.     *)
EffectsKept ==
  stage = "done" =>
    \A m \in kept :
      Evaluated(m, EagerDeps(g)) \ LocallyPure(g)
        \subseteq Evaluated(m, Loaded)

(* What the pass is to make of an output: the modules it keeps, and the bare   *)
(* imports of the others, which it removes where it can.                     *)
Pruned(h) ==
  [kept |-> h.mods \ Eliminated(h),
   stripped |-> {e \in h.sides : /\ e[1] \notin Eliminated(h) \cup h.unstrippable
                                 /\ e[2] \in Eliminated(h)}]

Call == INSTANCE PureCall
  WITH Answer <- Pruned, input <- g, returned <- stage = "done",
       answer <- [kept |-> kept, stripped |-> stripped]

(* The two fixpoint loops, whatever rounds they take, and the pass that        *)
(* follows give what their comments define, once and all of it together.      *)
ImplementsPureCall == Call!Spec

(* dead_module.rs: a dropped module is "safe to drop" because it "has zero   *)
(* binding importers".  A re-export binds a module too; the reports do not   *)
(* list re-exports.                                                          *)
ReexportsResolve ==
  stage = "done" => \A e \in g.reexports : e[1] \in kept => e[2] \in kept
=============================================================================
