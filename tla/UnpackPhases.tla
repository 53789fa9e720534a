---------------------------- MODULE UnpackPhases ----------------------------
(***************************************************************************)
(* The multi-module unpack (unpack_multi_module_with_plan, core/src/driver/  *)
(* unpack/phases.rs): three parallel maps over the modules of a job with a   *)
(* barrier after each, the assembly of the output, and its conversion to the *)
(* public result (convert_core_output, wakaru/src/unpack.rs).  The steps of   *)
(* a parallel phase interleave in any order.  What a step computes is in      *)
(* UnpackOps; this module says when it runs and what it may read.            *)
(***************************************************************************)
EXTENDS UnpackOps

CONSTANTS
  Parts,    (* what paths are made of                                       *)
  Jobs,     (* the jobs to run                                              *)
  NotYet    (* what a step or a barrier that has not run leaves             *)

(* What detector_failure_warning makes of a DetectedModuleFailure, or "none". *)
DetectorFailures == {"none", "WebpackFactoryRecoveryFailed", "DecompileFailed"}

(* The names of output files. *)
Paths == Seq(Parts) \ {<< >>}

(* The unpackers give the modules of a job distinct names (deduplicate_path), *)
(* and `refs` lists the references that resolve within the job.              *)
ASSUME JobsAssumption ==
  \A j \in Jobs :
    /\ DOMAIN j.mods = Mods
    /\ \A m \in Mods :
         /\ j.mods[m].failure \in DetectorFailures
         /\ j.mods[m].file \in Paths
         /\ j.mods[m].suggests # NoName =>
              Recovered(j.mods[m].suggests) \in Paths \cup {NoPath}
         /\ \A r \in j.mods[m].refs : r.to \in Mods /\ r.kind \in RefKinds
    /\ \A m, n \in Mods : m # n => CaseKey(j.mods[m].file) # CaseKey(j.mods[n].file)

VARIABLES
  job,       (* the job, fixed by the input                                *)
  stage,     (* the phase that runs                                        *)
  a1,        (* Phase 1a's result for each module                          *)
  plan,      (* the InterfacePlan of barrier 0                             *)
  b1,        (* Phase 1b's facts for each module                           *)
  final,     (* the file name each module is to have, by the rename map    *)
  p2,        (* Phase 2's result for each module                           *)
  warnings,  (* the warnings collected so far                              *)
  out,       (* the assembled modules                                      *)
  status     (* the public status of each of them                          *)

vars == <<job, stage, a1, plan, b1, final, p2, warnings, out, status>>

Untouched == [m \in Mods |-> NotYet]

Init ==
  /\ job \in Jobs
  /\ stage = "prepare"
  /\ a1 = Untouched
  /\ plan = NotYet
  /\ b1 = Untouched
  /\ final = NotYet
  /\ p2 = Untouched
  /\ warnings = {}
  /\ out = NotYet
  /\ status = NotYet

(* A parallel phase is over: each of its tasks has a result. *)
Complete(results) == \A m \in Mods : results[m] # NotYet

PrepareModule(m) ==
  /\ stage = "prepare"
  /\ a1[m] = NotYet
  /\ a1' = [a1 EXCEPT ![m] = Prepare(job, m)]
  /\ UNCHANGED <<job, stage, plan, b1, final, p2, warnings, out, status>>

(* The modules Phase 1a left pending. *)
PendingMods == {m \in Mods : a1[m] # NotYet /\ a1[m].pending}

(* Mutant of BuildPlan: the plan is built from what has been prepared so far. *)
BuildPlanEarly ==
  /\ stage = "prepare"
  /\ PendingMods # {}
  /\ stage' = "facts"
  /\ plan' = PlanOf(job, PendingMods)
  /\ UNCHANGED <<job, a1, b1, final, p2, warnings, out, status>>

(* Barrier 0. *)
BuildPlan ==
  /\ stage = "prepare"
  /\ Complete(a1)
  /\ stage' = "facts"
  /\ plan' = PlanOf(job, PendingMods)
  /\ UNCHANGED <<job, a1, b1, final, p2, warnings, out, status>>

FinishModule(m) ==
  /\ stage = "facts"
  /\ b1[m] = NotYet
  /\ b1' = [b1 EXCEPT ![m] =
              IF a1[m].pending THEN FinishFacts(job, m, plan) ELSE NoFacts]
  /\ UNCHANGED <<job, stage, a1, plan, final, p2, warnings, out, status>>

PhaseOneWarnings ==
  {[file |-> job.mods[m].file, kind |-> a1[m].warning] :
     m \in {i \in Mods : a1[i].warning # "none"}}

(* Mutant of BuildRenames: Phase 2 starts before Phase 1b is over. *)
BuildRenamesEarly ==
  /\ stage = "facts"
  /\ stage' = "decompile"
  /\ final' = FinalNames(job.mods, [m \in Mods |-> a1[m].suggests])
  /\ warnings' = PhaseOneWarnings
  /\ UNCHANGED <<job, a1, plan, b1, p2, out, status>>

(* The barrier between Phase 1 and Phase 2: facts, renames, warnings. *)
BuildRenames ==
  /\ stage = "facts"
  /\ Complete(b1)
  /\ stage' = "decompile"
  /\ final' = FinalNames(job.mods, [m \in Mods |-> a1[m].suggests])
  /\ warnings' = PhaseOneWarnings
  /\ UNCHANGED <<job, a1, plan, b1, p2, out, status>>

(* Mutant of DecompileModule: a module without a prepared AST is passed over. *)
DecompilePrepared(m) ==
  /\ stage = "decompile"
  /\ p2[m] = NotYet
  /\ b1[m].reuse
  /\ p2' = [p2 EXCEPT ![m] = Outcome(job, m, plan, b1, final)]
  /\ UNCHANGED <<job, stage, a1, plan, b1, final, warnings, out, status>>

DecompileModule(m) ==
  /\ stage = "decompile"
  /\ p2[m] = NotYet
  /\ p2' = [p2 EXCEPT ![m] = Outcome(job, m, plan, b1, final)]
  /\ UNCHANGED <<job, stage, a1, plan, b1, final, warnings, out, status>>

Survivors == Mods \ DroppedModules(job, p2, b1)

(* Dead helper elimination, with the warnings of the modules it keeps, and    *)
(* the provenance of these modules.                                          *)
Assemble ==
  /\ stage = "decompile"
  /\ Complete(p2)
  /\ stage' = "convert"
  /\ out' = [m \in Survivors |-> Assembled(job, p2, final, Mods \ Survivors, m)]
  /\ warnings' = warnings \cup {[file |-> job.mods[m].file, kind |-> "DecompileFailed"] :
                                  m \in {s \in Survivors : p2[s].warned}}
  /\ UNCHANGED <<job, a1, plan, b1, final, p2, status>>

(* Mutant of Convert: only the errors of Phase 2 count as failures. *)
ConvertErrors ==
  /\ stage = "convert"
  /\ stage' = "done"
  /\ status' = [m \in DOMAIN out |->
                  IF out[m].name \in {w.file : w \in {v \in warnings : v.kind = "DecompileFailed"}}
                  THEN "DecompileFailed"
                  ELSE "Decompiled"]
  /\ UNCHANGED <<job, a1, plan, b1, final, p2, warnings, out>>

Convert ==
  /\ stage = "convert"
  /\ stage' = "done"
  /\ status' = [m \in DOMAIN out |->
                  IF out[m].name \in FailedNames(warnings)
                  THEN "DecompileFailed"
                  ELSE "Decompiled"]
  /\ UNCHANGED <<job, a1, plan, b1, final, p2, warnings, out>>

Step(m) == PrepareModule(m) \/ FinishModule(m) \/ DecompileModule(m)

Next == (\E m \in Mods : Step(m)) \/ BuildPlan \/ BuildRenames \/ Assemble \/ Convert

(* Rayon's workers go on while a task is left, and the driver after them. *)
Spec == Init /\ [][Next]_vars /\ WF_vars(Next)

-----------------------------------------------------------------------------
(* What each phase computes when every phase before it is over, with no       *)
(* schedule: the reference for ScheduleIndependent.                          *)
ReferencePlan(j) == PlanOf(j, {m \in Mods : Analysed(j, m)})

ReferenceFacts(j) ==
  [m \in Mods |-> IF Analysed(j, m) THEN FinishFacts(j, m, ReferencePlan(j)) ELSE NoFacts]

ReferenceNames(j) == FinalNames(j.mods, [m \in Mods |-> Prepare(j, m).suggests])

ReferenceOutcome(j, m) ==
  Outcome(j, m, ReferencePlan(j), ReferenceFacts(j), ReferenceNames(j))

(* The variables keep their types: a phase has run on some of the modules,    *)
(* and a result is there only once its barrier is passed.                    *)
TypeOK ==
  /\ stage \in {"prepare", "facts", "decompile", "convert", "done"}
  /\ \A m \in Mods :
       /\ stage # "prepare" => a1[m] # NotYet
       /\ stage \notin {"prepare", "facts"} => b1[m] # NotYet
       /\ stage \in {"convert", "done"} => p2[m] # NotYet
  /\ plan # NotYet => stage # "prepare"
  /\ final # NotYet => stage \notin {"prepare", "facts"}
  /\ out # NotYet => stage \in {"convert", "done"}
  /\ status # NotYet => stage = "done"

(* Whatever order the workers of the three phases take the modules in, each   *)
(* result is the one the job alone decides (phases.rs: the barriers, and the  *)
(* Globals each module carries for itself).                                  *)
ScheduleIndependent ==
  /\ plan # NotYet => plan = ReferencePlan(job)
  /\ final # NotYet => final = ReferenceNames(job)
  /\ \A m \in Mods :
       /\ b1[m] # NotYet => b1[m] = ReferenceFacts(job)[m]
       /\ p2[m] # NotYet => p2[m] = ReferenceOutcome(job, m)

(* No two modules are emitted under names that are one file on a              *)
(* case-insensitive file system, whichever of them Phase 2 gave up on after   *)
(* the rename table was fixed (build_rename_map's rules, phases.rs:1709).     *)
OutputNamesDistinct ==
  \A m, n \in Mods :
    m # n /\ p2[m] # NotYet /\ p2[n] # NotYet
      => CaseKey(p2[m].name) # CaseKey(p2[n].name)

(* Every surviving module gets its own provenance, and only its own           *)
(* (the `expect` at phases.rs:1815), under a recovered name or a provisional  *)
(* one.                                                                      *)
ProvenanceOwn ==
  out # NotYet => \A m \in DOMAIN out : out[m].provenance = {m}

(* A module that Phase 2 completed is never reported as failed, and one it    *)
(* gave up on is reported as failed when it is emitted under its provisional  *)
(* name (convert_core_output).                                               *)
FailuresReported ==
  status # NotYet =>
    \A m \in DOMAIN out :
      /\ ~out[m].raw => status[m] = "Decompiled"
      /\ out[m].raw /\ out[m].name = job.mods[m].file => status[m] = "DecompileFailed"

(* The references that the remap and the elimination leave whole: those of a  *)
(* converted module other than re-exports, to a module emitted under the name *)
(* the rename table gave it, when that is a new name or the importer stayed   *)
(* in its directory.                                                         *)
Followed(m, r) ==
  /\ r.kind # "reexport"
  /\ p2[r.to].name = final[r.to]
  /\ \/ final[r.to] # job.mods[r.to].file
     \/ Dir(final[m]) = Dir(job.mods[m].file)

(* Each of these references resolves, from the module's final name, to its    *)
(* target, and that target is in the output (rewrite_import_sources,          *)
(* eliminate_dead_helper_modules).  The one exception is the bare import of a *)
(* dropped module in a text that could not be parsed again to strip it        *)
(* (dead_module.rs:144).                                                      *)
ReferencesResolve ==
  out # NotYet =>
    \A m \in DOMAIN out : \A r \in out[m].refs :
      Followed(m, r) =>
        \/ /\ r.to \in DOMAIN out
           /\ Resolve(out[m].name, r.spec) = out[r.to].name
        \/ r.to \notin DOMAIN out /\ r.kind = "side" /\ ~job.mods[m].strips

(* The facts other modules read predict the format Phase 2 ends with, except  *)
(* that an inlined helper may expose a form the prediction did not see.       *)
PredictionRight ==
  \A m \in Mods :
    p2[m] # NotYet /\ ~p2[m].raw /\ b1[m].known =>
      /\ p2[m].format = "cjs" => b1[m].staysCjs
      /\ p2[m].format = "esm" /\ b1[m].staysCjs => p2[m].range.inlined # {}

(* A provider a consumer writes to, which UnEsm left CommonJS, is emitted as  *)
(* CommonJS ("one it left CommonJS stays so through the late recovery").      *)
WrittenStaysCommonJs ==
  \A m \in Mods :
    /\ p2[m] # NotYet /\ ~p2[m].raw
    /\ m \in plan.written
    /\ AfterUnEsm(job, m, plan) = "cjs"
    => p2[m].format = "cjs"

(* The call returns: no barrier waits for a module that nobody takes.         *)
Finishes == <>(stage = "done")

-----------------------------------------------------------------------------
(* ModuleStatus: Decompiled says that the normal rule pipeline completed      *)
(* (wakaru/src/output.rs:51).                                                *)
DecompiledMeansCompleted ==
  status # NotYet => \A m \in DOMAIN out : status[m] = "Decompiled" => ~out[m].raw

(* "references are resolved relative to that and re-formed relative to the    *)
(* importer's final name" (filename_recovery.rs:180).                        *)
ReferencesReformed ==
  out # NotYet =>
    \A m \in DOMAIN out : \A r \in out[m].refs :
      r.to \in DOMAIN out /\ out[r.to].name = final[r.to]
        => Resolve(out[m].name, r.spec) = out[r.to].name
=============================================================================
