---------------------------- MODULE DeadModuleOps ----------------------------
(***************************************************************************)
(* What eliminate_dead_helper_modules (core/src/driver/unpack/              *)
(* dead_module.rs) may drop, as a definition: no loop, no order.  A graph g  *)
(* is the ImportReports of an output with every specifier resolved:          *)
(*   mods       the modules of the output                                    *)
(*   reported   those with a report (the others failed to decompile)         *)
(*   binds      static imports with specifiers, as <<importer, target>>      *)
(*   sides      bare side-effect imports                                     *)
(*   refs       import("...") and require("...") of a literal                *)
(*   reexports  export ... from "..."                                        *)
(*   external   modules with a bare or out-of-output static import           *)
(*   plain      modules whose items, re-exports aside, have no side effect   *)
(*   helper, entry, consumed   is_helper, is_entry, external_consumers       *)
(*   unstrippable   modules whose printed text does not parse again under    *)
(*              their final name, whose extension chooses the syntax          *)
(***************************************************************************)

(* is_own_body_pure: a re-export with a source disqualifies the module. *)
OwnBodyPure(g) == {m \in g.plain : \A e \in g.reexports : e[1] # m}

(* in_deps: what evaluating a module evaluates first. *)
EagerDeps(g) == g.binds \cup g.sides

(* Mutant of BindingImporters: import() and require() are not counted. *)
BindsOnly(g) == g.binds

(* binding_importers: the edges that keep their target alive. *)
BindingImporters(g) == g.binds \cup g.refs

(* The modules the purity fixpoint starts from. *)
LocallyPure(g) == OwnBodyPure(g) \ g.external

(* S holds the target of every edge of R that starts in S. *)
ClosedForward(S, R) == \A e \in R : e[1] \in S => e[2] \in S

(* S holds the start of every edge of R that ends in S. *)
ClosedBackward(S, R) == \A e \in R : e[2] \in S => e[1] \in S

(* Transitive purity: the largest set of locally pure modules that imports    *)
(* nothing outside itself.                                                   *)
TransitivelyPure(g) ==
  UNION {S \in SUBSET LocallyPure(g) : ClosedForward(S, EagerDeps(g))}

(* A recognized helper that no other asset and no entry point needs. *)
Droppable(g) == (g.helper \ g.entry) \ g.consumed

(* The cascade: the largest set of pure droppable modules that nothing       *)
(* outside the set binds.                                                    *)
Dropped(g) ==
  UNION {S \in SUBSET (Droppable(g) \cap TransitivelyPure(g)) :
           ClosedBackward(S, BindingImporters(g))}

(* A missing report bails out; so does dropping the whole output. *)
Eliminated(g) ==
  IF g.reported # g.mods \/ Dropped(g) = g.mods THEN {} ELSE Dropped(g)
=============================================================================
