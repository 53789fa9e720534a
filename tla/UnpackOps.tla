----------------------------- MODULE UnpackOps -----------------------------
(***************************************************************************)
(* What each phase of the multi-module unpack (core/src/driver/unpack/       *)
(* phases.rs) computes for one module, as a function of the job and of what   *)
(* the barriers before it fixed: pl, the plan of barrier 0; facts, the facts  *)
(* of every module; names, the final file names; res, the results of Phase 2. *)
(*                                                                           *)
(* A job is its modules and its options.  What a module's text decides is     *)
(* abstracted to the fields below; what the pipeline decides is computed.     *)
(*   file, reserved, suggests   see FilenameRecovery                          *)
(*   failure    detector_failure: "none", or the kind of its warning          *)
(*   parses     Phase 1 parses it;  reparses   so does Phase 2's recovery     *)
(*   shape      "esm"; CommonJS that UnEsm converts ("plain"), that the late   *)
(*              recovery converts ("wrapped"), once the rule range exposed it *)
(*              ("ranged"), or exposed it by inlining a helper ("helped");    *)
(*              or CommonJS no rule converts ("stuck")                        *)
(*   whole, writes, returns   see InterfacePlanOps                            *)
(*   refs       references to other modules of the job, with their kind once  *)
(*              converted: "bind", "side", "require", "reexport", or "helper" *)
(*              (an import of a transpiler helper)                            *)
(*   helper     it exports a transpiler helper;  calls   modules whose export *)
(*              it invokes with .call                                         *)
(*   repairs    its imports are of a form the cross-module passes repair      *)
(*   pure, entry, consumed    see DeadModuleOps                               *)
(*   strips     its printed text parses again under its final name            *)
(*   fate       the tail of Phase 2: "ok", "declined" (lifted boundary), or   *)
(*              "error" (fixer, printer or source map)                        *)
(***************************************************************************)
EXTENDS FilenameRecovery, DeadModuleOps, InterfacePlanOps

CONSTANT
  N   (* number of modules *)

Mods == 1..N

(* How a module refers to another of the job. *)
RefKinds == {"bind", "side", "require", "reexport", "helper"}

(* recover_filenames and eliminate_dead_modules. *)
Recovers(j) == j.level # "minimal"
Eliminates(j) == j.dce /\ j.level # "minimal"

-----------------------------------------------------------------------------
(* Phase 1a: prepare_module. *)
Analysed(j, m) == j.mods[m].failure = "none" /\ j.mods[m].parses

Prepare(j, m) ==
  [pending |-> Analysed(j, m),
   suggests |-> IF Analysed(j, m) /\ Recovers(j) THEN j.mods[m].suggests ELSE NoName,
   warning |-> CASE j.mods[m].failure # "none" -> j.mods[m].failure
                 [] Analysed(j, m) -> "none"
                 [] OTHER -> "FactCollectionParseFailed"]

(* exports_object_writable *)
Open(j, m) == j.mods[m].shape # "esm"

(* Barrier 0: the PlanModules of the analysed modules P, and what the plan    *)
(* does with them that does not depend on passthroughs.                      *)
PlanInput(j, P) ==
  [mods |-> P,
   open |-> {m \in P : Open(j, m)},
   whole |-> {m \in P : j.mods[m].whole},
   writes |-> {w \in UNION {{<<m, u.to, u.direct>> : u \in j.mods[m].writes} : m \in P} :
                 w[2] \in P},
   returns |-> {e \in UNION {{<<m, t>> : t \in j.mods[m].returns} : m \in P} :
                  e[2] \in P /\ Open(j, e[1])}]

PlanOf(j, P) == [written |-> Written(PlanInput(j, P)), kept |-> Kept(PlanInput(j, P))]

(* The module's format after UnEsm, which reads the plan. *)
AfterUnEsm(j, m, pl) ==
  IF j.mods[m].shape = "esm" \/ (j.mods[m].shape = "plain" /\ m \notin pl.kept)
  THEN "esm"
  ELSE "cjs"

(* recover_late_esm_from_factory_iifes: the format after it, given the shapes *)
(* the rules before it exposed and its keep_commonjs option.                 *)
AfterLate(j, m, pl, exposed, keep) ==
  IF AfterUnEsm(j, m, pl) = "esm"
       \/ (j.mods[m].shape \in exposed /\ ~keep /\ m \notin pl.kept)
  THEN "esm"
  ELSE "cjs"

HasImport(j, m, pl) ==
  /\ AfterUnEsm(j, m, pl) = "esm"
  /\ \E r \in j.mods[m].refs : r.kind \in {"bind", "side", "helper"}

(* is_settled_es_module *)
Settled(j, m, pl) ==
  /\ AfterUnEsm(j, m, pl) = "esm"
  /\ \A r \in j.mods[m].refs : r.kind # "require"

NoFacts == [known |-> FALSE, staysCjs |-> FALSE, helper |-> FALSE, calls |-> {},
            reuse |-> FALSE, ranged |-> FALSE]

(* Mutant of FinishFacts: the prediction skips the rule range. *)
FactsWithoutRange(j, m, pl) ==
  [known |-> TRUE,
   staysCjs |-> AfterLate(j, m, pl, {"wrapped"},
                          m \in pl.written /\ AfterUnEsm(j, m, pl) = "cjs") = "cjs",
   helper |-> j.mods[m].helper,
   calls |-> j.mods[m].calls,
   reuse |-> ~j.srcmap,
   ranged |-> ~j.srcmap /\ ~Settled(j, m, pl) /\ ~HasImport(j, m, pl)]

(* Phase 1b: finish_facts.  `reuse` says that Phase 2 gets this module's AST, *)
(* `ranged` that it also gets the one the predicted rule range left.         *)
FinishFacts(j, m, pl) ==
  [known |-> TRUE,
   staysCjs |-> AfterLate(j, m, pl, {"wrapped", "ranged"},
                          m \in pl.written /\ AfterUnEsm(j, m, pl) = "cjs") = "cjs",
   helper |-> j.mods[m].helper,
   calls |-> j.mods[m].calls,
   reuse |-> ~j.srcmap,
   ranged |-> ~j.srcmap /\ ~Settled(j, m, pl) /\ ~HasImport(j, m, pl)]

-----------------------------------------------------------------------------
(* Phase 2: decompile_module. *)

(* The modules whose helper facts the rule range reads: those an import or a  *)
(* call's argument names, and not those of an `export ... from`.             *)
HelperProviders(j, m, facts) ==
  {t \in {r.to : r \in {s \in j.mods[m].refs :
                         s.kind # "reexport" \/ j.mods[m].shape # "esm"}} :
     facts[t].helper}

(* CallRequiredPlan::pinned_exports *)
Pinned(j, m, facts) == \E c \in Mods : m \in facts[c].calls


RangeIgnoresFacts(j, m, facts) == HelperProviders(j, m, facts) = {} /\ ~Pinned(j, m, facts)

(* The provider repairs, interop imports and namespace decomposition change    *)
(* the module when they know a provider.                                     *)
Repaired(j, m, facts) ==
  j.mods[m].repairs /\ \E r \in j.mods[m].refs : facts[r.to].known

(* What the rule range's result depends on, beyond the module's own text. *)
OwnRange(j, m, facts) ==
  [repaired |-> Repaired(j, m, facts),
   inlined |-> HelperProviders(j, m, facts),
   pinned |-> Pinned(j, m, facts)]

PredictedRange == [repaired |-> FALSE, inlined |-> {}, pinned |-> FALSE]

(* The range Phase 1b ran stands in for Phase 2's own. *)
Adopts(j, m, facts) ==
  facts[m].ranged /\ RangeIgnoresFacts(j, m, facts) /\ ~Repaired(j, m, facts)

RangeOf(j, m, facts) == IF Adopts(j, m, facts) THEN PredictedRange ELSE OwnRange(j, m, facts)

(* Mutant of FormatOf: the late recovery does not ask who writes to the module. *)
FormatUnkept(j, m, pl, facts) ==
  AfterLate(j, m, pl,
            {"wrapped", "ranged"}
              \cup (IF RangeOf(j, m, facts).inlined # {} THEN {"helped"} ELSE {}),
            FALSE)

(* The format a module ends with. *)
FormatOf(j, m, pl, facts) ==
  AfterLate(j, m, pl,
            {"wrapped", "ranged"}
              \cup (IF RangeOf(j, m, facts).inlined # {} THEN {"helped"} ELSE {}),
            m \in pl.written /\ facts[m].staysCjs)

(* The kind a reference ends with: a require in CommonJS, a bare import once   *)
(* DCE has removed the bindings of an inlined helper.                        *)
FinalKind(j, r, format, inlined) ==
  CASE format = "cjs" -> "require"
    [] r.kind # "helper" -> r.kind
    [] j.dce /\ r.to \in inlined -> "side"
    [] OTHER -> "bind"

(* The specifiers in the emitted module, after the final remap. *)
FinalRefs(j, m, format, inlined, names) ==
  {[to |-> r.to,
    kind |-> FinalKind(j, r, format, inlined),
    spec |-> Rewrite(j.mods, names, m, Relative(j.mods[m].file, j.mods[r.to].file))] :
     r \in j.mods[m].refs}

Raw(name, warned) ==
  [name |-> name, raw |-> TRUE, format |-> "raw", refs |-> {}, report |-> FALSE,
   range |-> PredictedRange, warned |-> warned]

(* A detector failure returns the body as it was; an error falls back to it    *)
(* under the provisional name with a DecompileFailed warning, a declined       *)
(* boundary under the final one.                                             *)
Outcome(j, m, pl, facts, names) ==
  CASE j.mods[m].failure # "none" -> Raw(j.mods[m].file, FALSE)
    [] j.mods[m].fate = "error" \/ (~facts[m].reuse /\ ~j.mods[m].reparses) ->
         Raw(j.mods[m].file, TRUE)
    [] j.mods[m].fate = "declined" -> Raw(names[m], TRUE)
    [] OTHER ->
         LET format == FormatOf(j, m, pl, facts)
             range == RangeOf(j, m, facts)
         IN  [name |-> names[m], raw |-> FALSE, format |-> format,
              refs |-> FinalRefs(j, m, format, range.inlined, names),
              report |-> Eliminates(j), range |-> range, warned |-> FALSE]

-----------------------------------------------------------------------------
(* The modules of the output a specifier of m's final text resolves to. *)
Targets(res, m, spec) == {t \in Mods : res[t].name = Resolve(res[m].name, spec)}

EdgesOf(res, kinds) ==
  UNION {{<<m, t>> : t \in UNION {Targets(res, m, r.spec) :
                                    r \in {s \in res[m].refs : s.kind \in kinds}}} :
           m \in Mods}

(* The ImportReports, as eliminate_dead_helper_modules resolves them. *)
OutputGraph(j, res, facts) ==
  [mods |-> Mods,
   reported |-> {m \in Mods : res[m].report},
   binds |-> EdgesOf(res, {"bind"}),
   sides |-> EdgesOf(res, {"side"}),
   refs |-> EdgesOf(res, {"require"}),
   reexports |-> EdgesOf(res, {"reexport"}),
   external |-> {m \in Mods : \E r \in res[m].refs :
                   r.kind \in {"bind", "side"} /\ Targets(res, m, r.spec) = {}},
   plain |-> {m \in Mods : j.mods[m].pure /\ res[m].format = "esm"},
   helper |-> {m \in Mods : facts[m].helper},
   entry |-> {m \in Mods : j.mods[m].entry},
   consumed |-> {m \in Mods : j.mods[m].consumed},
   unstrippable |-> {m \in Mods : ~j.mods[m].strips}]

DroppedModules(j, res, facts) ==
  IF Eliminates(j) THEN Eliminated(OutputGraph(j, res, facts)) ELSE {}

(* Mutant of ProvisionalOf: the reverse rename table is left out. *)
ProvisionalOfItself(j, names, name) == name

(* The provisional name the provenance of an output module is looked up by. *)
ProvisionalOf(j, names, name) ==
  LET renamed == {i \in Mods : names[i] = name /\ names[i] # j.mods[i].file}
  IN  IF renamed = {} THEN name ELSE j.mods[CHOOSE i \in renamed : TRUE].file

(* A module of the output, its bare imports of dropped modules stripped if its  *)
(* text allows it.                                                             *)
Assembled(j, res, names, dropped, m) ==
  [name |-> res[m].name,
   raw |-> res[m].raw,
   refs |-> {r \in res[m].refs :
               ~(/\ r.kind = "side"
                 /\ j.mods[m].strips
                 /\ Targets(res, m, r.spec) \cap dropped # {})},
   provenance |-> {i \in Mods : j.mods[i].file = ProvisionalOf(j, names, res[m].name)}]

(* convert_core_output's `failed` set, of the names its warnings carry. *)
FailedNames(warnings) ==
  {w.file : w \in {v \in warnings :
                     v.kind \in {"DecompileFailed", "WebpackFactoryRecoveryFailed"}}}
=============================================================================
