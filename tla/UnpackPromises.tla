--------------------------- MODULE UnpackPromises ---------------------------
(***************************************************************************)
(* What UnpackPhases promises its caller, and what its phases take from the  *)
(* parallel map below them: the refinements of PureCall and of ParMap.       *)
(***************************************************************************)
EXTENDS UnpackPhases

(* What the caller of unpack_multi_module_with_plan and convert_core_output   *)
(* gets of a job, given what its phases are to compute.                      *)
ReferenceAnswer(j) ==
  LET facts == ReferenceFacts(j)
      names == ReferenceNames(j)
      res == [m \in Mods |-> Outcome(j, m, ReferencePlan(j), facts, names)]
      survivors == Mods \ DroppedModules(j, res, facts)
      modules == [m \in survivors |-> Assembled(j, res, names, Mods \ survivors, m)]
      warned ==
        {[file |-> j.mods[m].file, kind |-> Prepare(j, m).warning] :
           m \in {i \in Mods : Prepare(j, i).warning # "none"}}
        \cup {[file |-> j.mods[m].file, kind |-> "DecompileFailed"] :
                 m \in {s \in survivors : res[s].warned}}
  IN  [modules |-> modules,
       warnings |-> warned,
       status |-> [m \in survivors |->
                     IF modules[m].name \in FailedNames(warned)
                     THEN "DecompileFailed"
                     ELSE "Decompiled"]]

Call == INSTANCE PureCall
  WITH Answer <- ReferenceAnswer, input <- job, returned <- stage = "done",
       answer <- IF stage = "done"
                 THEN [modules |-> out, warnings |-> warnings, status |-> status]
                 ELSE NotYet

(* The whole unpack, workers, barriers and fallbacks included, is a function   *)
(* of its job: modules, warnings and statuses are never those of another      *)
(* schedule, and nothing of them changes once they are given.                *)
ImplementsPureCall == Call!Spec

-----------------------------------------------------------------------------
(* The results a phase holds as the partial function of a parallel map. *)
Collected(results) == [m \in {i \in Mods : results[i] # NotYet} |-> results[m]]

PreparePhase == INSTANCE ParMap
  WITH Result <- Prepare, Pending <- NotYet, input <- job,
       results <- Collected(a1),
       out <- IF stage = "prepare" THEN NotYet ELSE Collected(a1)

FactsPhase == INSTANCE ParMap
  WITH Result <- LAMBDA j, m : ReferenceFacts(j)[m], Pending <- NotYet, input <- job,
       results <- Collected(b1),
       out <- IF stage \in {"prepare", "facts"} THEN NotYet ELSE Collected(b1)

DecompilePhase == INSTANCE ParMap
  WITH Result <- ReferenceOutcome, Pending <- NotYet, input <- job,
       results <- Collected(p2),
       out <- IF stage \in {"convert", "done"} THEN Collected(p2) ELSE NotYet

(* Each of the three phases is a parallel map, as par_map_largest_first keeps   *)
(* it (Schedule implements ParMap): each barrier gets the result of every      *)
(* module, once, and no result comes or changes after it.                    *)
PhasesAreParMaps == PreparePhase!Spec /\ FactsPhase!Spec /\ DecompilePhase!Spec
=============================================================================
