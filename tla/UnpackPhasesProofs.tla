------------------------- MODULE UnpackPhasesProofs -------------------------
(***************************************************************************)
(* Theorems about UnpackPhases, for every number of modules and every set of *)
(* jobs.  The inductive invariant says that each variable holds either        *)
(* nothing yet or what the job alone decides; every safety property is then  *)
(* a fact about the reference functions.                                     *)
(***************************************************************************)
EXTENDS UnpackPromises, SequenceTheorems, FiniteSetTheorems, TLAPS

StageSet == {"prepare", "facts", "decompile", "convert", "done"}

PrepareInv ==
  /\ job \in Jobs
  /\ stage \in StageSet
  /\ DOMAIN a1 = Mods
  /\ \A m \in Mods : a1[m] # NotYet => a1[m] = Prepare(job, m)
  /\ stage = "prepare" => plan = NotYet
  /\ stage # "prepare" =>
       /\ \A m \in Mods : a1[m] # NotYet
       /\ plan = ReferencePlan(job)

FactsInv ==
  /\ DOMAIN b1 = Mods
  /\ b1 = [m \in Mods |-> b1[m]]
  /\ \A m \in Mods : b1[m] # NotYet => b1[m] = ReferenceFacts(job)[m]
  /\ stage = "prepare" => \A m \in Mods : b1[m] = NotYet
  /\ stage \in {"prepare", "facts"} => final = NotYet
  /\ stage \in {"decompile", "convert", "done"} =>
       /\ \A m \in Mods : b1[m] # NotYet
       /\ final = ReferenceNames(job)

OutcomeInv ==
  /\ DOMAIN p2 = Mods
  /\ p2 = [m \in Mods |-> p2[m]]
  /\ \A m \in Mods : p2[m] # NotYet => p2[m] = ReferenceOutcome(job, m)
  /\ stage \in {"prepare", "facts"} => \A m \in Mods : p2[m] = NotYet
  /\ stage \in {"convert", "done"} => \A m \in Mods : p2[m] # NotYet
  /\ out # NotYet => stage \in {"convert", "done"}
  /\ status # NotYet => stage = "done"

Inv == PrepareInv /\ FactsInv /\ OutcomeInv

-----------------------------------------------------------------------------
(* What Phase 1a leaves pending is what it analysed. *)
LEMMA PreparePending ==
  ASSUME NEW j, NEW m
  PROVE  Prepare(j, m).pending = Analysed(j, m)
  BY DEF Prepare

(* Once Phase 1a is over, barrier 0 sees exactly the analysed modules. *)
LEMMA PendingAnalysed ==
  ASSUME PrepareInv, Complete(a1)
  PROVE  PendingMods = {m \in Mods : Analysed(job, m)}
  BY PreparePending DEF PrepareInv, Complete, PendingMods

(* Once Phase 1b is over, its facts are the reference facts. *)
LEMMA FactsComplete ==
  ASSUME FactsInv, Complete(b1)
  PROVE  b1 = ReferenceFacts(job)
<1>1. b1 = [m \in Mods |-> ReferenceFacts(job)[m]]
  BY DEF FactsInv, Complete
<1>2. ReferenceFacts(job) = [m \in Mods |-> ReferenceFacts(job)[m]]
  BY DEF ReferenceFacts
<1> QED BY <1>1, <1>2

LEMMA InitInv == Init => Inv
  BY DEF Init, Inv, PrepareInv, FactsInv, OutcomeInv, Untouched, StageSet

(* The rename table built at the second barrier is the reference table. *)
LEMMA NamesBuilt ==
  ASSUME PrepareInv, stage = "facts"
  PROVE  FinalNames(job.mods, [m \in Mods |-> a1[m].suggests]) = ReferenceNames(job)
<1>1. [m \in Mods |-> a1[m].suggests] = [m \in Mods |-> Prepare(job, m).suggests]
  BY DEF PrepareInv
<1> QED BY <1>1 DEF ReferenceNames

LEMMA StepInv ==
  ASSUME Inv, [Next]_vars
  PROVE  Inv'
<1>1. ASSUME NEW m \in Mods, PrepareModule(m) PROVE Inv'
  <2>1. PrepareInv'
    BY <1>1 DEF Inv, PrepareInv, PrepareModule, StageSet
  <2>2. FactsInv'
    BY <1>1 DEF Inv, FactsInv, PrepareModule
  <2>3. OutcomeInv'
    BY <1>1 DEF Inv, OutcomeInv, PrepareModule
  <2> QED BY <2>1, <2>2, <2>3 DEF Inv
<1>2. ASSUME BuildPlan PROVE Inv'
  <2>1. PendingMods = {m \in Mods : Analysed(job, m)}
    BY <1>2, PendingAnalysed DEF Inv, BuildPlan
  <2>2. plan' = ReferencePlan(job)
    BY <1>2, <2>1 DEF BuildPlan, ReferencePlan
  <2>3. PrepareInv'
    BY <1>2, <2>2 DEF Inv, PrepareInv, BuildPlan, Complete, StageSet
  <2>4. FactsInv'
    BY <1>2 DEF Inv, FactsInv, BuildPlan
  <2>5. OutcomeInv'
    BY <1>2 DEF Inv, OutcomeInv, BuildPlan
  <2> QED BY <2>3, <2>4, <2>5 DEF Inv
<1>3. ASSUME NEW m \in Mods, FinishModule(m) PROVE Inv'
  <2>1. a1[m] = Prepare(job, m) /\ plan = ReferencePlan(job)
    BY <1>3 DEF Inv, PrepareInv, FinishModule
  <2>2. (IF a1[m].pending THEN FinishFacts(job, m, plan) ELSE NoFacts)
          = ReferenceFacts(job)[m]
    BY <1>3, <2>1, PreparePending DEF ReferenceFacts
  <2>3. PrepareInv'
    BY <1>3 DEF Inv, PrepareInv, FinishModule
  <2>4. FactsInv'
    BY <1>3, <2>2 DEF Inv, FactsInv, FinishModule
  <2>5. OutcomeInv'
    BY <1>3 DEF Inv, OutcomeInv, FinishModule
  <2> QED BY <2>3, <2>4, <2>5 DEF Inv
<1>4. ASSUME BuildRenames PROVE Inv'
  <2>1. final' = ReferenceNames(job)
    BY <1>4, NamesBuilt DEF Inv, BuildRenames
  <2>2. PrepareInv'
    BY <1>4 DEF Inv, PrepareInv, BuildRenames, StageSet
  <2>3. FactsInv'
    BY <1>4, <2>1 DEF Inv, FactsInv, BuildRenames, Complete
  <2>4. OutcomeInv'
    BY <1>4 DEF Inv, OutcomeInv, BuildRenames
  <2> QED BY <2>2, <2>3, <2>4 DEF Inv
<1>5. ASSUME NEW m \in Mods, DecompileModule(m) PROVE Inv'
  <2>1. plan = ReferencePlan(job) /\ final = ReferenceNames(job)
    BY <1>5 DEF Inv, PrepareInv, FactsInv, DecompileModule
  <2>2. b1 = ReferenceFacts(job)
    BY <1>5, FactsComplete DEF Inv, FactsInv, Complete, DecompileModule
  <2>3. Outcome(job, m, plan, b1, final) = ReferenceOutcome(job, m)
    BY <2>1, <2>2 DEF ReferenceOutcome
  <2>4. PrepareInv' /\ FactsInv'
    BY <1>5 DEF Inv, PrepareInv, FactsInv, DecompileModule
  <2>5. OutcomeInv'
    BY <1>5, <2>3 DEF Inv, OutcomeInv, DecompileModule
  <2> QED BY <2>4, <2>5 DEF Inv
<1>6. ASSUME Assemble PROVE Inv'
  BY <1>6 DEF Inv, PrepareInv, FactsInv, OutcomeInv, Assemble, Complete, StageSet
<1>7. ASSUME Convert PROVE Inv'
  BY <1>7 DEF Inv, PrepareInv, FactsInv, OutcomeInv, Convert, StageSet
<1>8. ASSUME UNCHANGED vars PROVE Inv'
  BY <1>8 DEF Inv, PrepareInv, FactsInv, OutcomeInv, vars
<1> QED
  BY <1>1, <1>2, <1>3, <1>4, <1>5, <1>6, <1>7, <1>8 DEF Next, Step

(* Every variable holds nothing yet or what the job alone decides. *)
THEOREM UnpackInvariant == Spec => []Inv
<1>1. Inv /\ [Next]_vars => Inv'
  BY StepInv
<1> QED BY InitInv, <1>1, PTL DEF Spec

-----------------------------------------------------------------------------
(* No result of any phase depends on the order in which the workers take the  *)
(* modules (par_map_largest_first under each phase, phases.rs:1162-1754).     *)
THEOREM UnpackScheduleIndependent == Spec => []ScheduleIndependent
<1>1. Inv => ScheduleIndependent
  BY DEF Inv, PrepareInv, FactsInv, OutcomeInv, StageSet, ScheduleIndependent
<1> QED BY UnpackInvariant, <1>1, PTL

(* A phase's results are complete once the phase is over, and a barrier's     *)
(* result exists only after it.                                              *)
THEOREM UnpackTypeCorrect == Spec => []TypeOK
<1>1. Inv => TypeOK
  BY DEF Inv, PrepareInv, FactsInv, OutcomeInv, StageSet, TypeOK
<1> QED BY UnpackInvariant, <1>1, PTL

-----------------------------------------------------------------------------
(* Two modules' final names, and a final and a provisional name of two        *)
(* modules, are never one file (the rules of build_rename_map).               *)
LEMMA NamesApart ==
  ASSUME NEW j \in Jobs, NEW s, NEW m \in Mods, NEW n \in Mods, m # n,
         NEW x \in {j.mods[m].file, FinalNames(j.mods, s)[m]},
         NEW y \in {j.mods[n].file, FinalNames(j.mods, s)[n]}
  PROVE  CaseKey(x) # CaseKey(y)
<1> DEFINE R == Renamed(j.mods, s)
<1>1. /\ DOMAIN j.mods = Mods
      /\ CaseKey(j.mods[m].file) # CaseKey(j.mods[n].file)
  BY JobsAssumption
<1>2. ASSUME NEW i \in Mods
      PROVE  FinalNames(j.mods, s)[i] = IF i \in R THEN Recovered(s[i]) ELSE j.mods[i].file
  BY <1>1, <1>2 DEF FinalNames
<1>3. ASSUME NEW i \in R
      PROVE  Candidate(j.mods, s, i) /\ Unclaimed(j.mods, s, i)
  BY <1>3 DEF Renamed
<1>4. ASSUME NEW i \in R, NEW k \in Mods, i # k,
             CaseKey(j.mods[i].file) # CaseKey(j.mods[k].file)
      PROVE  /\ CaseKey(Recovered(s[i])) # CaseKey(j.mods[k].file)
             /\ k \in R => CaseKey(Recovered(s[i])) # CaseKey(Recovered(s[k]))
  <2>1. Unclaimed(j.mods, s, i)
    BY <1>4, <1>3
  <2>2. k \in R => Candidate(j.mods, s, k)
    BY <1>3
  <2> QED BY <1>1, <1>4, <2>1, <2>2 DEF Unclaimed
<1>5. m \in R => /\ CaseKey(Recovered(s[m])) # CaseKey(j.mods[n].file)
                 /\ n \in R => CaseKey(Recovered(s[m])) # CaseKey(Recovered(s[n]))
  BY <1>1, <1>4
<1>6. n \in R => CaseKey(Recovered(s[n])) # CaseKey(j.mods[m].file)
  BY <1>1, <1>4
<1> HIDE DEF R
<1> QED BY <1>1, <1>2, <1>5, <1>6

(* Phase 2 emits a module under its provisional or its final name. *)
LEMMA OutcomeName ==
  ASSUME NEW j, NEW m, NEW pl, NEW facts, NEW names
  PROVE  Outcome(j, m, pl, facts, names).name \in {j.mods[m].file, names[m]}
  BY DEF Outcome, Raw

(* No two modules are ever emitted under names that are one file on a         *)
(* case-insensitive file system, whichever modules fall back to their         *)
(* provisional names in Phase 2.                                             *)
THEOREM UnpackNamesDistinct == Spec => []OutputNamesDistinct
<1>1. Inv => OutputNamesDistinct
  <2> SUFFICES ASSUME Inv, NEW m \in Mods, NEW n \in Mods, m # n,
                      p2[m] # NotYet, p2[n] # NotYet
               PROVE  CaseKey(p2[m].name) # CaseKey(p2[n].name)
    BY DEF OutputNamesDistinct
  <2> DEFINE s == [i \in Mods |-> Prepare(job, i).suggests]
  <2>1. p2[m] = ReferenceOutcome(job, m) /\ p2[n] = ReferenceOutcome(job, n) /\ job \in Jobs
    BY DEF Inv, OutcomeInv, PrepareInv
  <2>2. ASSUME NEW i \in Mods
        PROVE  ReferenceOutcome(job, i).name
                 \in {job.mods[i].file, FinalNames(job.mods, s)[i]}
    BY OutcomeName DEF ReferenceOutcome, ReferenceNames
  <2>3. /\ ReferenceOutcome(job, m).name \in {job.mods[m].file, FinalNames(job.mods, s)[m]}
        /\ ReferenceOutcome(job, n).name \in {job.mods[n].file, FinalNames(job.mods, s)[n]}
    BY <2>2
  <2> HIDE DEF s
  <2> QED BY <2>1, <2>3, NamesApart
<1> QED BY UnpackInvariant, <1>1, PTL

-----------------------------------------------------------------------------
(* A module that Phase 2 completed has the format and the range it computes. *)
LEMMA OutcomeCompleted ==
  ASSUME NEW j, NEW m, NEW pl, NEW facts, NEW names,
         ~Outcome(j, m, pl, facts, names).raw
  PROVE  /\ Outcome(j, m, pl, facts, names).format = FormatOf(j, m, pl, facts)
         /\ Outcome(j, m, pl, facts, names).range = RangeOf(j, m, facts)
  BY DEF Outcome, Raw


(* The facts of a completed state, and what a completed module's result is    *)
(* made of.                                                                  *)
LEMMA CompletedModule ==
  ASSUME Inv, NEW m \in Mods, p2[m] # NotYet, ~p2[m].raw
  PROVE  /\ p2[m].format = FormatOf(job, m, plan, b1)
         /\ p2[m].range = RangeOf(job, m, b1)
         /\ plan = ReferencePlan(job)
         /\ b1 = ReferenceFacts(job)
<1>1. stage \in {"decompile", "convert", "done"}
  BY DEF Inv, OutcomeInv, PrepareInv, StageSet
<1>2. plan = ReferencePlan(job) /\ final = ReferenceNames(job)
  BY <1>1 DEF Inv, PrepareInv, FactsInv
<1>3. b1 = ReferenceFacts(job)
  BY <1>1, FactsComplete DEF Inv, FactsInv, Complete
<1>4. p2[m] = Outcome(job, m, plan, b1, final)
  BY <1>2, <1>3 DEF Inv, OutcomeInv, ReferenceOutcome
<1> QED BY <1>2, <1>3, <1>4, OutcomeCompleted

(* The predicted format: what a module with facts predicts, and what it ends  *)
(* with.                                                                     *)
LEMMA FormatPredicted ==
  ASSUME NEW j, NEW m, NEW pl, NEW facts, facts[m] = FinishFacts(j, m, pl)
  PROVE  /\ FormatOf(j, m, pl, facts) = "cjs" => facts[m].staysCjs
         /\ FormatOf(j, m, pl, facts) = "esm" /\ facts[m].staysCjs
              => RangeOf(j, m, facts).inlined # {}
         /\ m \in pl.written /\ AfterUnEsm(j, m, pl) = "cjs"
              => FormatOf(j, m, pl, facts) = "cjs"
<1> DEFINE U == AfterUnEsm(j, m, pl)
           sh == j.mods[m].shape
           inl == RangeOf(j, m, facts).inlined
<1>1. facts[m].staysCjs
        <=> ~(U = "esm" \/ (sh \in {"wrapped", "ranged"}
                              /\ ~(m \in pl.written /\ U = "cjs") /\ m \notin pl.kept))
  <2>1. facts[m].staysCjs
          = (AfterLate(j, m, pl, {"wrapped", "ranged"}, m \in pl.written /\ U = "cjs") = "cjs")
    BY DEF FinishFacts
  <2> QED BY <2>1 DEF AfterLate
<1>2. FormatOf(j, m, pl, facts) =
        IF U = "esm" \/ (sh \in {"wrapped", "ranged"} \cup (IF inl # {} THEN {"helped"} ELSE {})
                           /\ ~(m \in pl.written /\ facts[m].staysCjs) /\ m \notin pl.kept)
        THEN "esm"
        ELSE "cjs"
  BY DEF FormatOf, AfterLate
<1>3. U \in {"esm", "cjs"}
  BY DEF AfterUnEsm
<1> HIDE DEF U, sh, inl
<1>4. facts[m].staysCjs \/ FormatOf(j, m, pl, facts) = "esm"
  BY <1>1, <1>2, <1>3
<1>5. FormatOf(j, m, pl, facts) = "esm" /\ facts[m].staysCjs => inl # {}
  BY <1>1, <1>2, <1>3
<1>6. m \in pl.written /\ U = "cjs" => FormatOf(j, m, pl, facts) = "cjs"
  BY <1>1, <1>2
<1> QED BY <1>4, <1>5, <1>6 DEF U, inl

(* Other modules read a right prediction of each module's final format. *)
THEOREM UnpackPredictionRight == Spec => []PredictionRight
<1>1. Inv => PredictionRight
  <2> SUFFICES ASSUME Inv, NEW m \in Mods, p2[m] # NotYet, ~p2[m].raw, b1[m].known
               PROVE  /\ p2[m].format = "cjs" => b1[m].staysCjs
                      /\ p2[m].format = "esm" /\ b1[m].staysCjs
                           => p2[m].range.inlined # {}
    BY DEF PredictionRight
  <2>1. b1[m] = FinishFacts(job, m, plan)
    BY CompletedModule DEF ReferenceFacts, NoFacts
  <2> QED BY <2>1, CompletedModule, FormatPredicted
<1> QED BY UnpackInvariant, <1>1, PTL

(* A provider that a consumer writes to, left CommonJS by UnEsm, is emitted   *)
(* as CommonJS.                                                              *)
THEOREM UnpackWrittenStaysCommonJs == Spec => []WrittenStaysCommonJs
<1>1. Inv => WrittenStaysCommonJs
  <2> SUFFICES ASSUME Inv, NEW m \in Mods, p2[m] # NotYet, ~p2[m].raw,
                      m \in plan.written, AfterUnEsm(job, m, plan) = "cjs"
               PROVE  p2[m].format = "cjs"
    BY DEF WrittenStaysCommonJs
  <2>1. plan = ReferencePlan(job) /\ b1 = ReferenceFacts(job)
    BY CompletedModule
  <2>2. Analysed(job, m)
    BY <2>1 DEF ReferencePlan, PlanOf, Written, PlanInput
  <2>3. b1[m] = FinishFacts(job, m, plan)
    BY <2>1, <2>2 DEF ReferenceFacts
  <2> QED BY <2>3, CompletedModule, FormatPredicted
<1> QED BY UnpackInvariant, <1>1, PTL

-----------------------------------------------------------------------------
(* Why a module's results give the kinds of warning that convert_core_output  *)
(* counts as failures.                                                       *)
Fails(m) ==
  \/ a1[m].warning \in {"DecompileFailed", "WebpackFactoryRecoveryFailed"}
  \/ m \in Survivors /\ p2[m].warned

(* The warnings follow the phases, and the output and the statuses are what   *)
(* the results of Phase 2 give.                                              *)
OutputInv ==
  /\ stage = "decompile" => warnings = PhaseOneWarnings
  /\ stage \in {"convert", "done"} =>
       /\ out = [m \in Survivors |-> Assembled(job, p2, final, Mods \ Survivors, m)]
       /\ warnings = PhaseOneWarnings
                       \cup {[file |-> job.mods[m].file, kind |-> "DecompileFailed"] :
                               m \in {s \in Survivors : p2[s].warned}}
  /\ stage = "done" =>
       status = [m \in DOMAIN out |->
                   IF out[m].name \in FailedNames(warnings)
                   THEN "DecompileFailed"
                   ELSE "Decompiled"]

LEMMA StepOutputInv ==
  ASSUME Inv, OutputInv, [Next]_vars
  PROVE  OutputInv'
<1> USE DEF OutputInv
<1>1. ASSUME NEW m \in Mods, PrepareModule(m) PROVE OutputInv'
  BY <1>1 DEF PrepareModule
<1>2. ASSUME BuildPlan PROVE OutputInv'
  BY <1>2 DEF BuildPlan
<1>3. ASSUME NEW m \in Mods, FinishModule(m) PROVE OutputInv'
  BY <1>3 DEF FinishModule
<1>4. ASSUME BuildRenames PROVE OutputInv'
  BY <1>4 DEF BuildRenames, PhaseOneWarnings
<1>5. ASSUME NEW m \in Mods, DecompileModule(m) PROVE OutputInv'
  BY <1>5 DEF DecompileModule, PhaseOneWarnings
<1>6. ASSUME Assemble PROVE OutputInv'
  <2>1. Survivors' = Survivors /\ PhaseOneWarnings' = PhaseOneWarnings
    BY <1>6 DEF Assemble, Survivors, PhaseOneWarnings
  <2> QED BY <1>6, <2>1 DEF Assemble
<1>7. ASSUME Convert PROVE OutputInv'
  <2>1. Survivors' = Survivors /\ PhaseOneWarnings' = PhaseOneWarnings
    BY <1>7 DEF Convert, Survivors, PhaseOneWarnings
  <2> QED BY <1>7, <2>1 DEF Convert
<1>8. ASSUME UNCHANGED vars PROVE OutputInv'
  <2>1. UNCHANGED <<job, stage, a1, b1, final, p2, warnings, out, status>>
    BY <1>8 DEF vars
  <2>2. Survivors' = Survivors /\ PhaseOneWarnings' = PhaseOneWarnings
    BY <2>1 DEF Survivors, PhaseOneWarnings
  <2>3. (stage = "decompile" => warnings = PhaseOneWarnings)'
    BY <2>1, <2>2
  <2>4. (stage \in {"convert", "done"} =>
           /\ out = [m \in Survivors |-> Assembled(job, p2, final, Mods \ Survivors, m)]
           /\ warnings = PhaseOneWarnings
                           \cup {[file |-> job.mods[m].file, kind |-> "DecompileFailed"] :
                                   m \in {s \in Survivors : p2[s].warned}})'
    BY <2>1, <2>2
  <2>5. (stage = "done" =>
           status = [m \in DOMAIN out |->
                       IF out[m].name \in FailedNames(warnings)
                       THEN "DecompileFailed"
                       ELSE "Decompiled"])'
    BY <2>1
  <2> QED BY <2>3, <2>4, <2>5
<1> QED
  BY <1>1, <1>2, <1>3, <1>4, <1>5, <1>6, <1>7, <1>8 DEF Next, Step

(* The output is assembled from complete results, and so are the statuses.    *)
THEOREM UnpackOutput == Spec => [](Inv /\ OutputInv)
<1>1. Init => OutputInv
  BY DEF Init, OutputInv
<1>2. Inv /\ OutputInv /\ [Next]_vars => (Inv /\ OutputInv)'
  BY StepInv, StepOutputInv
<1> QED BY InitInv, <1>1, <1>2, PTL DEF Spec

(* Once there is output, each module in it has the name its outcome has,       *)
(* which is its provisional or its final one, and no other module has either. *)
LEMMA OutputNames ==
  ASSUME Inv, OutputInv, stage \in {"convert", "done"}, NEW m \in DOMAIN out
  PROVE  /\ m \in Mods
         /\ m \in Survivors
         /\ out[m] = Assembled(job, p2, final, Mods \ Survivors, m)
         /\ p2[m] = Outcome(job, m, plan, b1, final)
         /\ p2[m].name \in {job.mods[m].file, final[m]}
         /\ \A n \in Mods \ {m} :
              /\ job.mods[n].file \notin {job.mods[m].file, final[m]}
              /\ final[n] \notin {job.mods[m].file, final[m]}
<1>1. m \in Survivors /\ out[m] = Assembled(job, p2, final, Mods \ Survivors, m)
  BY DEF OutputInv
<1>2. m \in Mods
  BY <1>1 DEF Survivors
<1>3. plan = ReferencePlan(job) /\ final = ReferenceNames(job) /\ job \in Jobs
  BY DEF Inv, PrepareInv, FactsInv
<1>4. b1 = ReferenceFacts(job)
  BY FactsComplete DEF Inv, FactsInv, Complete
<1>5. p2[m] = Outcome(job, m, plan, b1, final)
  BY <1>2, <1>3, <1>4 DEF Inv, OutcomeInv, ReferenceOutcome
<1> DEFINE s == [i \in Mods |-> Prepare(job, i).suggests]
<1>6. final = FinalNames(job.mods, s)
  BY <1>3 DEF ReferenceNames
<1> HIDE DEF s
<1>7. ASSUME NEW n \in Mods \ {m}
      PROVE  /\ job.mods[n].file \notin {job.mods[m].file, final[m]}
             /\ final[n] \notin {job.mods[m].file, final[m]}
  BY <1>2, <1>3, <1>6, <1>7, NamesApart
<1> QED BY <1>1, <1>2, <1>5, <1>7, OutcomeName

(* The provenance of an emitted module is its own (the reversed rename table  *)
(* at phases.rs:1799 and the `expect` at phases.rs:1815).                    *)
THEOREM UnpackProvenanceOwn == Spec => []ProvenanceOwn
<1>1. Inv /\ OutputInv => ProvenanceOwn
  <2> SUFFICES ASSUME Inv, OutputInv, out # NotYet, NEW m \in DOMAIN out
               PROVE  out[m].provenance = {m}
    BY DEF ProvenanceOwn
  <2>1. stage \in {"convert", "done"}
    BY DEF Inv, OutcomeInv
  <2> DEFINE name == p2[m].name
             renamed == {i \in Mods : final[i] = name /\ final[i] # job.mods[i].file}
  <2>2. renamed \subseteq {m}
    BY <2>1, OutputNames
  <2>3. ProvisionalOf(job, final, name) = job.mods[m].file
    <3>1. CASE renamed = {}
      <4>1. ProvisionalOf(job, final, name) = name
        BY <3>1 DEF ProvisionalOf
      <4>2. name = job.mods[m].file
        BY <3>1, <2>1, OutputNames
      <4> QED BY <4>1, <4>2
    <3>2. CASE renamed # {}
      <4>1. (CHOOSE i \in renamed : TRUE) = m
        BY <2>2, <3>2
      <4> QED BY <3>2, <4>1 DEF ProvisionalOf
    <3> QED BY <3>1, <3>2
  <2>4. out[m].provenance = {i \in Mods : job.mods[i].file = job.mods[m].file}
    BY <2>1, <2>3, OutputNames DEF Assembled
  <2> QED BY <2>1, <2>4, OutputNames
<1> QED BY UnpackOutput, <1>1, PTL

(* The names that count as failed are those of the modules that fail.         *)
LEMMA FailedModules ==
  ASSUME OutputInv, stage = "done"
  PROVE  FailedNames(warnings) = {job.mods[m].file : m \in {i \in Mods : Fails(i)}}
<1>1. ASSUME NEW w \in warnings,
             w.kind \in {"DecompileFailed", "WebpackFactoryRecoveryFailed"}
      PROVE  \E m \in Mods : Fails(m) /\ w.file = job.mods[m].file
  BY <1>1 DEF OutputInv, PhaseOneWarnings, Fails, Survivors
<1>2. ASSUME NEW m \in Mods, Fails(m)
      PROVE  \E w \in warnings : /\ w.kind \in {"DecompileFailed", "WebpackFactoryRecoveryFailed"}
                                 /\ w.file = job.mods[m].file
  <2>1. CASE a1[m].warning \in {"DecompileFailed", "WebpackFactoryRecoveryFailed"}
    <3>1. [file |-> job.mods[m].file, kind |-> a1[m].warning] \in warnings
      BY <2>1 DEF OutputInv, PhaseOneWarnings
    <3> QED BY <2>1, <3>1
  <2>2. CASE m \in Survivors /\ p2[m].warned
    <3>1. [file |-> job.mods[m].file, kind |-> "DecompileFailed"] \in warnings
      BY <2>2 DEF OutputInv
    <3> QED BY <3>1
  <2> QED BY <1>2, <2>1, <2>2 DEF Fails
<1> QED BY <1>1, <1>2 DEF FailedNames

(* Whether an emitted module fails is told by its raw body.                   *)
LEMMA RawFails ==
  ASSUME Inv, OutputInv, stage = "done", NEW m \in DOMAIN out
  PROVE  Fails(m) <=> p2[m].raw
<1>1. /\ m \in Mods /\ m \in Survivors
      /\ p2[m] = Outcome(job, m, plan, b1, final)
  BY OutputNames
<1>2. a1[m] = Prepare(job, m) /\ job.mods[m].failure \in DetectorFailures
  BY <1>1, JobsAssumption DEF Inv, PrepareInv
<1> DEFINE f == job.mods[m].failure
<1>3. CASE f # "none"
  <2>1. a1[m].warning = f
    <3>1. ~Analysed(job, m)
      BY <1>3 DEF Analysed
    <3> QED BY <1>2, <1>3, <3>1 DEF Prepare
  <2>2. p2[m].raw
    BY <1>1, <1>3 DEF Outcome, Raw
  <2> QED BY <1>2, <1>3, <2>1, <2>2 DEF DetectorFailures, Fails
<1>4. CASE f = "none"
  <2>1. a1[m].warning \notin {"DecompileFailed", "WebpackFactoryRecoveryFailed"}
    BY <1>2, <1>4 DEF Prepare
  <2>2. p2[m].raw <=> p2[m].warned
    BY <1>1, <1>4 DEF Outcome, Raw
  <2> QED BY <1>1, <2>1, <2>2 DEF Fails
<1> QED BY <1>3, <1>4

(* No completed module is reported as failed, and no raw one under its        *)
(* provisional name as completed (convert_core_output's `failed` set).        *)
THEOREM UnpackFailuresReported == Spec => []FailuresReported
<1>1. Inv /\ OutputInv => FailuresReported
  <2> SUFFICES ASSUME Inv, OutputInv, status # NotYet, NEW m \in DOMAIN out
               PROVE  /\ ~out[m].raw => status[m] = "Decompiled"
                      /\ out[m].raw /\ out[m].name = job.mods[m].file
                           => status[m] = "DecompileFailed"
    BY DEF FailuresReported
  <2>1. stage = "done"
    BY DEF Inv, OutcomeInv
  <2>2. /\ m \in Mods
        /\ out[m].raw = p2[m].raw /\ out[m].name = p2[m].name
    BY <2>1, OutputNames DEF Assembled
  <2>3. status[m] = IF out[m].name \in FailedNames(warnings)
                    THEN "DecompileFailed" ELSE "Decompiled"
    BY <2>1 DEF OutputInv
  <2>4. CASE ~p2[m].raw
    <3>1. \A n \in Mods \ {m} : job.mods[n].file # p2[m].name
      BY <2>1, OutputNames
    <3>2. ~Fails(m)
      BY <2>1, <2>4, RawFails
    <3>3. out[m].name \notin FailedNames(warnings)
      BY <2>1, <2>2, <3>1, <3>2, FailedModules
    <3> QED BY <2>2, <2>3, <2>4, <3>3
  <2>5. CASE p2[m].raw
    <3>1. job.mods[m].file \in FailedNames(warnings)
      BY <2>1, <2>2, <2>5, RawFails, FailedModules
    <3> QED BY <2>2, <2>3, <2>5, <3>1
  <2> QED BY <2>4, <2>5
<1> QED BY UnpackOutput, <1>1, PTL

-----------------------------------------------------------------------------
(* Relative specifiers *)

(* A path put together of the first k parts of one that agrees with it there  *)
(* and of its own rest is that path.                                         *)
LEMMA SplitPath ==
  ASSUME NEW P, NEW d \in Seq(P), NEW to \in Seq(P), NEW k \in Nat,
         k <= Len(d), k <= Len(to), \A i \in 1..k : d[i] = to[i]
  PROVE  SubSeq(d, 1, k) \o SubSeq(to, k + 1, Len(to)) = to
<1>1. Len(d) \in Nat /\ Len(to) \in Nat
  BY LenProperties
<1>2. /\ \A i \in 1..k : d[i] \in P
      /\ \A i \in (k + 1)..Len(to) : to[i] \in P
  BY <1>1, LenProperties
<1>3. /\ SubSeq(d, 1, k) \in Seq(P)
      /\ Len(SubSeq(d, 1, k)) = k
      /\ \A i \in 1..k : SubSeq(d, 1, k)[i] = d[i]
  BY <1>1, <1>2
<1>4. /\ SubSeq(to, k + 1, Len(to)) \in Seq(P)
      /\ Len(SubSeq(to, k + 1, Len(to))) = Len(to) - k
      /\ \A i \in 1..(Len(to) - k) : SubSeq(to, k + 1, Len(to))[i] = to[k + i]
  BY <1>1, <1>2
<1> DEFINE a == SubSeq(d, 1, k)
           b == SubSeq(to, k + 1, Len(to))
           c == a \o b
<1>5. /\ a \in Seq(P) /\ Len(a) = k
      /\ b \in Seq(P) /\ Len(b) = Len(to) - k
  BY <1>3, <1>4
<1>6. \A i \in 1..k : a[i] = to[i]
  BY <1>3
<1>7. \A i \in 1..(Len(to) - k) : b[i] = to[k + i]
  BY <1>4
<1> HIDE DEF a, b
<1>8. /\ c \in Seq(P)
      /\ Len(c) = Len(to)
      /\ \A i \in 1..Len(c) : c[i] = IF i <= Len(a) THEN a[i] ELSE b[i - Len(a)]
  BY <1>1, <1>5, ConcatProperties
<1> HIDE DEF c
<1>9. ASSUME NEW i \in 1..Len(to)
      PROVE  c[i] = to[i]
  <2>1. i \in Int /\ k \in Int /\ Len(to) \in Int
    BY <1>1
  <2>2. c[i] = IF i <= k THEN a[i] ELSE b[i - k]
    BY <1>5, <1>8
  <2>3. CASE i <= k
    BY <2>1, <2>2, <2>3, <1>6
  <2>4. CASE ~(i <= k)
    <3>1. i - k \in 1..(Len(to) - k) /\ k + (i - k) = i
      BY <2>1, <2>4
    <3> QED BY <3>1, <2>2, <2>4, <1>7
  <2> QED BY <2>3, <2>4
<1>10. c = to
  BY <1>8, <1>9, SeqEqual
<1> QED BY <1>10 DEF a, b, c

(* However many common parts the specifier climbs to, it resolves to its      *)
(* target: a remap can only break a reference it does not rewrite.            *)
LEMMA RelativeRoundTrip ==
  ASSUME NEW P, NEW from \in Seq(P), from # << >>, NEW to \in Seq(P),
         NEW k, Common(k, Dir(from), to)
  PROVE  Resolve(from, RelativeVia(k, from, to)) = to
<1>1. Len(from) \in Nat /\ Len(from) >= 1
  BY EmptySeq, LenProperties
<1>2. \A i \in 1..(Len(from) - 1) : from[i] \in P
  BY <1>1, LenProperties
<1>3. Dir(from) \in Seq(P)
  BY <1>1, <1>2, SubSeqProperties DEF Dir
<1>4. Len(Dir(from)) \in Nat
  BY <1>3, LenProperties
<1>5. /\ k \in Nat /\ k <= Len(Dir(from)) /\ k <= Len(to)
      /\ \A i \in 1..k : Dir(from)[i] = to[i]
  BY <1>4 DEF Common
<1>6. ~(Len(Dir(from)) - k > Len(Dir(from))) /\ Len(Dir(from)) - (Len(Dir(from)) - k) = k
  BY <1>4, <1>5
<1>7. Resolve(from, RelativeVia(k, from, to))
        = SubSeq(Dir(from), 1, k) \o SubSeq(to, k + 1, Len(to))
  BY <1>6 DEF Resolve, RelativeVia
<1> QED BY <1>3, <1>5, <1>7, SplitPath
-----------------------------------------------------------------------------
(* A nonempty set of numbers has a least one.  The sets 0..y of its members    *)
(* are finite, and the strict inclusion of finite sets is well founded.       *)
LEMMA LeastNatural ==
  ASSUME NEW T \in SUBSET Nat, T # {}
  PROVE  \E x \in T : \A y \in T : x <= y
<1>1. PICK n \in T : TRUE
  OBVIOUS
<1> DEFINE S == 0..n
           F == {0..y : y \in {y \in T : y <= n}}
<1>2. IsFiniteSet(S)
  BY <1>1, FS_Interval
<1>3. F \subseteq FiniteSubsetsOf(S)
  BY <1>1, <1>2, FS_FiniteSubsetsOfFinite
<1>4. F # {}
  BY <1>1
<1>5. PICK x \in F : \A y \in F : <<y, x>> \notin StrictSubsetOrdering(S)
  BY <1>3, <1>4, FS_StrictSubsetOrderingWellFounded, WFMin
<1>6. PICK m \in T : m <= n /\ x = 0..m
  BY <1>5
<1>7. ASSUME NEW y \in T, ~(m <= y) PROVE FALSE
  <2>1. y \in Nat /\ m \in Nat /\ n \in Nat /\ y < m /\ y <= n
    BY <1>1, <1>6, <1>7
  <2>2. 0..y \in F
    BY <2>1
  <2>3. 0..y \subseteq 0..m /\ m \in 0..m /\ m \notin 0..y
    BY <2>1
  <2>4. 0..y \subseteq S /\ 0..m \subseteq S
    BY <2>1, <1>6
  <2>5. <<0..y, 0..m>> \in StrictSubsetOrdering(S)
    BY <2>3, <2>4 DEF StrictSubsetOrdering
  <2> QED BY <2>2, <2>5, <1>5, <1>6
<1> QED BY <1>7

(* relative_import_specifier stops at the last common part: there is one. *)
LEMMA LastCommon ==
  ASSUME NEW d \in Seq(Parts), NEW to \in Seq(Parts)
  PROVE  \E k \in 0..Len(d) : Common(k, d, to) /\ ~Common(k + 1, d, to)
<1> DEFINE T == {k \in Nat : ~Common(k + 1, d, to)}
<1>1. Len(d) \in Nat /\ Len(to) \in Nat
  BY LenProperties
<1>2. Len(d) \in T
  BY <1>1 DEF Common
<1>3. PICK k \in T : \A y \in T : k <= y
  <2> HIDE DEF T
  <2>1. T \subseteq Nat
    BY DEF T
  <2> QED BY <1>2, <2>1, LeastNatural
<1>4. k \in 0..Len(d)
  BY <1>1, <1>2, <1>3
<1>5. CASE k = 0
  BY <1>1, <1>3, <1>5 DEF Common
<1>6. CASE k # 0
  <2>1. k - 1 \in Nat /\ k - 1 < k /\ (k - 1) + 1 = k
    BY <1>4, <1>6
  <2>2. k - 1 \notin T
    BY <1>3, <2>1
  <2>3. Common(k, d, to)
    BY <2>1, <2>2
  <2> QED BY <1>3, <1>4, <2>3
<1> QED BY <1>5, <1>6

(* A specifier is written so that it reads back as its target, from any       *)
(* module of the same directory.                                             *)
LEMMA RelativeResolves ==
  ASSUME NEW from \in Paths, NEW to \in Paths
  PROVE  Resolve(from, Relative(from, to)) = to
<1>1. from \in Seq(Parts) /\ from # << >> /\ to \in Seq(Parts)
  BY DEF Paths
<1>2. Len(from) \in Nat /\ Len(from) >= 1 /\ Len(to) \in Nat
  BY <1>1, EmptySeq, LenProperties
<1>3. \A i \in 1..(Len(from) - 1) : from[i] \in Parts
  BY <1>1, <1>2, LenProperties
<1>4. Dir(from) \in Seq(Parts)
  BY <1>1, <1>2, <1>3, SubSeqProperties DEF Dir
<1> DEFINE P(k) == Common(k, Dir(from), to) /\ ~Common(k + 1, Dir(from), to)
           c == CHOOSE k \in 0..Len(Dir(from)) : P(k)
<1>5. c \in 0..Len(Dir(from)) /\ P(c)
  <2>1. \E k \in 0..Len(Dir(from)) : P(k)
    BY <1>1, <1>4, LastCommon
  <2> HIDE DEF P
  <2> QED BY <2>1
<1>6. Relative(from, to) = RelativeVia(c, from, to)
  BY DEF Relative
<1>7. Resolve(from, RelativeVia(c, from, to)) = to
  <2> HIDE DEF c
  <2> QED BY <1>1, <1>5, RelativeRoundTrip
<1> QED BY <1>6, <1>7

(* What a specifier resolves to depends on the importer's directory only. *)
LEMMA SameDirectory ==
  ASSUME NEW a, NEW b, Dir(a) = Dir(b), NEW spec
  PROVE  Resolve(a, spec) = Resolve(b, spec)
  BY DEF Resolve

(* Provisional and final names are paths. *)
LEMMA NamesArePaths ==
  ASSUME NEW j \in Jobs, NEW m \in Mods
  PROVE  j.mods[m].file \in Paths /\ ReferenceNames(j)[m] \in Paths
<1> DEFINE s == [i \in Mods |-> Prepare(j, i).suggests]
<1>1. DOMAIN j.mods = Mods /\ j.mods[m].file \in Paths
  BY JobsAssumption
<1>2. ReferenceNames(j)[m] =
        IF m \in Renamed(j.mods, s) THEN Recovered(s[m]) ELSE j.mods[m].file
  BY <1>1 DEF ReferenceNames, FinalNames
<1>3. s[m] \in {NoName, j.mods[m].suggests}
  BY DEF Prepare
<1> HIDE DEF s
<1>4. ASSUME m \in Renamed(j.mods, s) PROVE Recovered(s[m]) \in Paths
  <2>1. s[m] # NoName /\ Recovered(s[m]) # NoPath
    BY <1>4 DEF Renamed, Candidate
  <2> QED BY <1>3, <2>1, JobsAssumption
<1> QED BY <1>1, <1>2, <1>4

(* The remap of a reference leads to the target's final name when the target  *)
(* has a new one, and when the importer stays in its directory.              *)
LEMMA RemapFollows ==
  ASSUME NEW j \in Jobs, NEW m \in Mods, NEW t \in Mods, NEW names,
         names = ReferenceNames(j),
         \/ names[t] # j.mods[t].file
         \/ Dir(names[m]) = Dir(j.mods[m].file)
  PROVE  Resolve(names[m], Rewrite(j.mods, names, m, Relative(j.mods[m].file, j.mods[t].file)))
           = names[t]
<1> DEFINE spec == Relative(j.mods[m].file, j.mods[t].file)
           renamed == {i \in DOMAIN j.mods : /\ j.mods[i].file = Resolve(j.mods[m].file, spec)
                                             /\ names[i] # j.mods[i].file}
<1>1. DOMAIN j.mods = Mods
  BY JobsAssumption
<1>2. /\ j.mods[m].file \in Paths /\ j.mods[t].file \in Paths
      /\ names[m] \in Paths /\ names[t] \in Paths
  BY NamesArePaths
<1>3. Resolve(j.mods[m].file, spec) = j.mods[t].file
  BY <1>2, RelativeResolves
<1>4. \A i \in Mods : j.mods[i].file = j.mods[t].file => i = t
  BY JobsAssumption
<1>5. renamed = {i \in {t} : names[i] # j.mods[i].file}
  <2> HIDE DEF spec
  <2> QED BY <1>1, <1>3, <1>4
<1>6. Rewrite(j.mods, names, m, spec) =
        IF renamed = {} THEN spec ELSE Relative(names[m], names[CHOOSE i \in renamed : TRUE])
  BY DEF Rewrite
<1> HIDE DEF spec, renamed
<1>7. CASE names[t] # j.mods[t].file
  <2>1. renamed = {t}
    BY <1>5, <1>7
  <2>2. (CHOOSE i \in renamed : TRUE) = t
    BY <2>1
  <2>3. Rewrite(j.mods, names, m, spec) = Relative(names[m], names[t])
    BY <1>6, <2>1, <2>2
  <2> QED BY <1>2, <2>3, RelativeResolves DEF spec
<1>8. CASE names[t] = j.mods[t].file
  <2>1. Rewrite(j.mods, names, m, spec) = spec
    BY <1>5, <1>6, <1>8
  <2>2. Resolve(names[m], spec) = Resolve(j.mods[m].file, spec)
    BY <1>8, SameDirectory
  <2> QED BY <1>3, <1>8, <2>1, <2>2 DEF spec
<1> QED BY <1>7, <1>8

-----------------------------------------------------------------------------
(* What binds a dropped module is dropped itself. *)
LEMMA EliminatedClosed ==
  ASSUME NEW h, NEW e \in BindingImporters(h), e[2] \in Eliminated(h)
  PROVE  e[1] \in Eliminated(h)
<1>1. ClosedBackward(Dropped(h), BindingImporters(h))
  BY DEF Dropped, ClosedBackward
<1> QED BY <1>1 DEF Eliminated, ClosedBackward

(* An import with specifiers, or a call that names a module, binds what its    *)
(* specifier resolves to.                                                    *)
LEMMA ReferenceBinds ==
  ASSUME NEW j, NEW res, NEW facts, NEW m \in Mods, NEW r \in res[m].refs,
         r.kind \in {"bind", "require"}, NEW t \in Targets(res, m, r.spec)
  PROVE  <<m, t>> \in BindingImporters(OutputGraph(j, res, facts))
<1>1. <<m, t>> \in EdgesOf(res, {r.kind})
  BY DEF EdgesOf
<1>2. BindingImporters(OutputGraph(j, res, facts))
        = EdgesOf(res, {"bind"}) \cup EdgesOf(res, {"require"})
  BY DEF BindingImporters, OutputGraph
<1> QED BY <1>1, <1>2

(* The references of an outcome: only a completed module has any, under its    *)
(* final name, each remapped from one of the job's.                          *)
LEMMA OutcomeReference ==
  ASSUME NEW j \in Jobs, NEW m \in Mods, NEW pl, NEW facts, NEW names,
         NEW r \in Outcome(j, m, pl, facts, names).refs
  PROVE  /\ Outcome(j, m, pl, facts, names).name = names[m]
         /\ r.to \in Mods
         /\ r.kind \in {"bind", "side", "require", "reexport"}
         /\ r.spec = Rewrite(j.mods, names, m, Relative(j.mods[m].file, j.mods[r.to].file))
<1> DEFINE o == Outcome(j, m, pl, facts, names)
           format == FormatOf(j, m, pl, facts)
           inlined == RangeOf(j, m, facts).inlined
<1>1. o.name = names[m] /\ o.refs = FinalRefs(j, m, format, inlined, names)
  BY DEF Outcome, Raw
<1> HIDE DEF o, format, inlined
<1>2. PICK q \in j.mods[m].refs :
        r = [to |-> q.to,
             kind |-> FinalKind(j, q, format, inlined),
             spec |-> Rewrite(j.mods, names, m, Relative(j.mods[m].file, j.mods[q.to].file))]
  BY <1>1 DEF FinalRefs, o
<1>3. q.to \in Mods /\ q.kind \in RefKinds
  BY JobsAssumption
<1>4. FinalKind(j, q, format, inlined) \in {"bind", "side", "require", "reexport"}
  BY <1>3 DEF FinalKind, RefKinds
<1> QED BY <1>1, <1>2, <1>3, <1>4 DEF o

(* No reference the remap and the elimination are to follow is left without   *)
(* its target: each resolves from its module's final name, to a module that   *)
(* is in the output, unless it is a bare import that could not be stripped.   *)
THEOREM UnpackReferencesResolve == Spec => []ReferencesResolve
<1>1. Inv /\ OutputInv => ReferencesResolve
  <2> SUFFICES ASSUME Inv, OutputInv, out # NotYet,
                      NEW m \in DOMAIN out, NEW r \in out[m].refs, Followed(m, r),
                      ~(r.to \notin DOMAIN out /\ r.kind = "side" /\ ~job.mods[m].strips)
               PROVE  /\ r.to \in DOMAIN out
                      /\ Resolve(out[m].name, r.spec) = out[r.to].name
    BY DEF ReferencesResolve
  <2> DEFINE t == r.to
             drops == DroppedModules(job, p2, b1)
  <2>1. stage \in {"convert", "done"}
    BY DEF Inv, OutcomeInv
  <2>2. /\ m \in Mods /\ m \notin drops
        /\ out[m] = Assembled(job, p2, final, Mods \ Survivors, m)
        /\ p2[m] = Outcome(job, m, plan, b1, final)
    BY <2>1, OutputNames DEF Survivors
  <2>3. job \in Jobs /\ final = ReferenceNames(job)
    BY <2>1 DEF Inv, PrepareInv, FactsInv
  <2>4. /\ r \in p2[m].refs /\ out[m].name = p2[m].name
        /\ ~(/\ r.kind = "side"
             /\ job.mods[m].strips
             /\ Targets(p2, m, r.spec) \cap (Mods \ Survivors) # {})
    BY <2>2 DEF Assembled
  <2>5. /\ p2[m].name = final[m]
        /\ t \in Mods
        /\ r.kind \in {"bind", "side", "require", "reexport"}
        /\ r.spec = Rewrite(job.mods, final, m, Relative(job.mods[m].file, job.mods[t].file))
    BY <2>2, <2>3, <2>4, OutcomeReference
  <2>6. /\ r.kind # "reexport"
        /\ p2[t].name = final[t]
        /\ final[t] # job.mods[t].file \/ Dir(final[m]) = Dir(job.mods[m].file)
    BY DEF Followed
  <2>7. Resolve(final[m], r.spec) = final[t]
    BY <2>2, <2>3, <2>5, <2>6, RemapFollows
  <2>8. t \in Targets(p2, m, r.spec)
    BY <2>5, <2>6, <2>7 DEF Targets
  <2>9. t \notin drops
    <3> SUFFICES ASSUME t \in drops PROVE FALSE
      OBVIOUS
    <3>1. CASE r.kind = "side"
      <4>1. t \in Mods \ Survivors
        BY <2>5 DEF Survivors
      <4>2. t \notin DOMAIN out
        BY <2>1, <4>1 DEF OutputInv
      <4> QED BY <3>1, <4>1, <4>2, <2>4, <2>8
    <3>2. CASE r.kind \in {"bind", "require"}
      <4> DEFINE h == OutputGraph(job, p2, b1)
      <4>1. <<m, t>> \in BindingImporters(h)
        BY <2>2, <2>4, <2>8, <3>2, ReferenceBinds
      <4>2. drops = Eliminated(h)
        BY DEF DroppedModules
      <4> HIDE DEF h
      <4>3. m \in Eliminated(h)
        BY <4>1, <4>2, EliminatedClosed
      <4> QED BY <4>2, <4>3, <2>2
    <3> QED BY <2>5, <2>6, <3>1, <3>2
  <2>10. t \in Survivors
    BY <2>5, <2>9 DEF Survivors
  <2>11. t \in DOMAIN out /\ out[t] = Assembled(job, p2, final, Mods \ Survivors, t)
    BY <2>1, <2>10 DEF OutputInv
  <2>12. out[t].name = p2[t].name
    BY <2>11 DEF Assembled
  <2> QED BY <2>4, <2>5, <2>6, <2>7, <2>11, <2>12
<1> QED BY UnpackOutput, <1>1, PTL

-----------------------------------------------------------------------------
(* The refinements of UnpackPromises. *)

(* Once all modules are decompiled, names, facts and results are those the     *)
(* job alone decides.                                                        *)
LEMMA ResultsAreReference ==
  ASSUME Inv, stage \in {"convert", "done"}
  PROVE  /\ final = ReferenceNames(job)
         /\ b1 = ReferenceFacts(job)
         /\ p2 = [m \in Mods |-> ReferenceOutcome(job, m)]
<1>1. final = ReferenceNames(job)
  BY DEF Inv, FactsInv
<1>2. b1 = ReferenceFacts(job)
  BY FactsComplete DEF Inv, FactsInv, Complete
<1>3. \A m \in Mods : p2[m] = ReferenceOutcome(job, m)
  BY DEF Inv, OutcomeInv
<1>4. p2 = [m \in Mods |-> p2[m]]
  BY DEF Inv, OutcomeInv
<1> QED BY <1>1, <1>2, <1>3, <1>4

(* The unpack is a pure call: what its caller gets is the answer to the job,   *)
(* in every schedule.                                                        *)
THEOREM UnpackImplementsPureCall == Spec => ImplementsPureCall
<1>1. Init => Call!Init
  BY DEF Init, Call!Init
<1>2. ASSUME Inv, OutputInv, [Next]_vars
      PROVE  [Call!Return]_(Call!vars)
  <2> DEFINE given == IF stage = "done"
                      THEN [modules |-> out, warnings |-> warnings, status |-> status]
                      ELSE NotYet
  <2>1. CASE Convert
    <3>1. stage = "convert" /\ stage' = "done" /\ job' = job
          /\ out' = out /\ warnings' = warnings
      BY <2>1 DEF Convert
    <3> DEFINE facts == ReferenceFacts(job)
               names == ReferenceNames(job)
               res == [m \in Mods |-> Outcome(job, m, ReferencePlan(job), facts, names)]
               survivors == Mods \ DroppedModules(job, res, facts)
               modules == [m \in survivors |->
                             Assembled(job, res, names, Mods \ survivors, m)]
               early == {[file |-> job.mods[m].file, kind |-> Prepare(job, m).warning] :
                           m \in {i \in Mods : Prepare(job, i).warning # "none"}}
               late == {[file |-> job.mods[m].file, kind |-> "DecompileFailed"] :
                          m \in {s \in survivors : res[s].warned}}
               statuses == [m \in survivors |->
                              IF modules[m].name \in FailedNames(early \cup late)
                              THEN "DecompileFailed"
                              ELSE "Decompiled"]
    <3>2. final = names /\ b1 = facts /\ p2 = res
      BY <1>2, <3>1, ResultsAreReference DEF ReferenceOutcome
    <3>3. Survivors = survivors
      BY <3>2 DEF Survivors
    <3>4. out = modules /\ DOMAIN out = survivors
      BY <1>2, <3>1, <3>2, <3>3 DEF OutputInv
    <3>5. PhaseOneWarnings = early
      <4>1. \A m \in Mods : a1[m] = Prepare(job, m)
        BY <1>2, <3>1 DEF Inv, PrepareInv
      <4> QED BY <4>1 DEF PhaseOneWarnings
    <3>6. warnings = early \cup late
      BY <1>2, <3>1, <3>2, <3>3, <3>5 DEF OutputInv
    <3>7. status' = statuses
      BY <2>1, <3>4, <3>6 DEF Convert
    <3>8. ReferenceAnswer(job) =
            [modules |-> modules, warnings |-> early \cup late, status |-> statuses]
      BY DEF ReferenceAnswer
    <3> HIDE DEF facts, names, res, survivors, modules, early, late, statuses
    <3>9. given' = ReferenceAnswer(job)
      BY <3>1, <3>4, <3>6, <3>7, <3>8
    <3> QED BY <3>1, <3>9 DEF Call!Return
  <2>2. CASE ~Convert
    <3>1. CASE UNCHANGED vars
      BY <3>1 DEF vars, Call!vars
    <3>2. CASE Next
      <4>1. stage # "done" /\ stage' # "done" /\ job' = job
        BY <2>2, <3>2 DEF Next, Step, PrepareModule, BuildPlan, FinishModule, BuildRenames,
                          DecompileModule, Assemble
      <4> QED BY <4>1 DEF Call!vars
    <3> QED BY <1>2, <3>1, <3>2
  <2> QED BY <2>1, <2>2
<1> QED
  BY <1>1, <1>2, UnpackOutput, PTL DEF Spec, ImplementsPureCall, Call!Spec

(* One more module has its result, which is v; or none has. *)
GrowsBy(m, f, g, v) ==
  \/ Collected(g) = Collected(f)
  \/ /\ m \in Mods \ DOMAIN Collected(f)
     /\ DOMAIN Collected(g) = DOMAIN Collected(f) \cup {m}
     /\ Collected(g)[m] = v
     /\ \A i \in DOMAIN Collected(f) : Collected(g)[i] = Collected(f)[i]

(* That is what a task of a phase does to its results. *)
LEMMA CollectedGrows ==
  ASSUME NEW f, DOMAIN f = Mods, NEW m \in Mods, f[m] = NotYet, NEW v,
         NEW g, g = [f EXCEPT ![m] = v]
  PROVE  GrowsBy(m, f, g, v)
<1> DEFINE S == {i \in Mods : f[i] # NotYet}
           T == {i \in Mods : g[i] # NotYet}
<1>1. g[m] = v /\ \A i \in Mods : i # m => g[i] = f[i]
  OBVIOUS
<1>2. Collected(f) = [i \in S |-> f[i]] /\ Collected(g) = [i \in T |-> g[i]]
  BY DEF Collected
<1>3. CASE v = NotYet
  <2>1. S = T /\ \A i \in S : f[i] = g[i]
    BY <1>1, <1>3
  <2> QED BY <1>2, <2>1 DEF GrowsBy
<1>4. CASE v # NotYet
  <2>1. T = S \cup {m} /\ m \notin S /\ m \in T
    BY <1>1, <1>4
  <2>2. DOMAIN Collected(f) = S /\ DOMAIN Collected(g) = T
    BY <1>2
  <2>3. Collected(g)[m] = v
    BY <1>1, <1>2, <2>1
  <2>4. \A i \in S : f[i] = g[i] /\ i \in T
    BY <1>1, <2>1
  <2>5. \A i \in S : Collected(g)[i] = Collected(f)[i]
    BY <1>2, <2>4
  <2> HIDE DEF S, T
  <2> QED BY <2>1, <2>2, <2>3, <2>5 DEF GrowsBy
<1> QED BY <1>3, <1>4

(* A phase that is over has collected the result of every module. *)
LEMMA CollectedAll ==
  ASSUME NEW f, Complete(f)
  PROVE  DOMAIN Collected(f) = Mods
  BY DEF Complete, Collected

LEMMA PreparePhaseStep ==
  ASSUME Inv, [Next]_vars
  PROVE  [PreparePhase!Next]_(PreparePhase!vars)
<1> USE DEF PreparePhase!vars
<1>1. ASSUME NEW m \in Mods, PrepareModule(m)
      PROVE  [PreparePhase!Next]_(PreparePhase!vars)
  <2>1. /\ stage = "prepare" /\ stage' = "prepare" /\ a1[m] = NotYet /\ job' = job
        /\ a1' = [a1 EXCEPT ![m] = Prepare(job, m)]
    BY <1>1 DEF PrepareModule
  <2>2. DOMAIN a1 = Mods
    BY DEF Inv, PrepareInv
  <2>3. GrowsBy(m, a1, a1', Prepare(job, m))
    BY <2>1, <2>2, CollectedGrows
  <2> QED BY <2>1, <2>3 DEF PreparePhase!Next, PreparePhase!Map, GrowsBy, PreparePhase!Items, Mods
<1>2. CASE BuildPlan
  <2>1. /\ stage = "prepare" /\ stage' = "facts" /\ a1' = a1 /\ job' = job
        /\ DOMAIN Collected(a1) = Mods
    BY <1>2, CollectedAll DEF BuildPlan
  <2> QED BY <2>1 DEF PreparePhase!Next, PreparePhase!Return, PreparePhase!Items, Mods
<1>3. ASSUME job' = job, a1' = a1, stage = "prepare" <=> stage' = "prepare"
      PROVE  [PreparePhase!Next]_(PreparePhase!vars)
  BY <1>3
<1>4. ASSUME NEW m \in Mods, FinishModule(m) \/ DecompileModule(m)
      PROVE  [PreparePhase!Next]_(PreparePhase!vars)
  BY <1>3, <1>4 DEF FinishModule, DecompileModule
<1>5. CASE BuildRenames \/ Assemble \/ Convert
  BY <1>3, <1>5 DEF BuildRenames, Assemble, Convert
<1>6. CASE UNCHANGED vars
  BY <1>3, <1>6 DEF vars
<1> QED BY <1>1, <1>2, <1>4, <1>5, <1>6 DEF Next, Step

LEMMA FactsPhaseStep ==
  ASSUME Inv, [Next]_vars
  PROVE  [FactsPhase!Next]_(FactsPhase!vars)
<1> USE DEF FactsPhase!vars
<1>1. ASSUME NEW m \in Mods, FinishModule(m)
      PROVE  [FactsPhase!Next]_(FactsPhase!vars)
  <2>1. stage = "facts" /\ stage' = "facts" /\ b1[m] = NotYet /\ job' = job
    BY <1>1 DEF FinishModule
  <2>2. a1[m] = Prepare(job, m) /\ plan = ReferencePlan(job) /\ DOMAIN b1 = Mods
    BY <2>1 DEF Inv, PrepareInv, FactsInv
  <2>3. b1' = [b1 EXCEPT ![m] = ReferenceFacts(job)[m]]
    BY <1>1, <2>2, PreparePending DEF FinishModule, ReferenceFacts
  <2>4. GrowsBy(m, b1, b1', ReferenceFacts(job)[m])
    BY <2>1, <2>2, <2>3, CollectedGrows
  <2> QED BY <2>1, <2>4 DEF FactsPhase!Next, FactsPhase!Map, GrowsBy, FactsPhase!Items, Mods
<1>2. CASE BuildRenames
  <2>1. /\ stage = "facts" /\ stage' = "decompile" /\ b1' = b1 /\ job' = job
        /\ DOMAIN Collected(b1) = Mods
    BY <1>2, CollectedAll DEF BuildRenames
  <2> QED BY <2>1 DEF FactsPhase!Next, FactsPhase!Return, FactsPhase!Items, Mods
<1>3. ASSUME job' = job, b1' = b1, stage \in {"prepare", "facts"} <=> stage' \in {"prepare", "facts"}
      PROVE  [FactsPhase!Next]_(FactsPhase!vars)
  BY <1>3
<1>4. ASSUME NEW m \in Mods, PrepareModule(m) \/ DecompileModule(m)
      PROVE  [FactsPhase!Next]_(FactsPhase!vars)
  BY <1>3, <1>4 DEF PrepareModule, DecompileModule
<1>5. CASE BuildPlan \/ Assemble \/ Convert
  BY <1>3, <1>5 DEF BuildPlan, Assemble, Convert
<1>6. CASE UNCHANGED vars
  BY <1>3, <1>6 DEF vars
<1> QED BY <1>1, <1>2, <1>4, <1>5, <1>6 DEF Next, Step

LEMMA DecompilePhaseStep ==
  ASSUME Inv, [Next]_vars
  PROVE  [DecompilePhase!Next]_(DecompilePhase!vars)
<1> USE DEF DecompilePhase!vars
<1>1. ASSUME NEW m \in Mods, DecompileModule(m)
      PROVE  [DecompilePhase!Next]_(DecompilePhase!vars)
  <2>1. /\ stage = "decompile" /\ stage' = "decompile" /\ p2[m] = NotYet /\ job' = job
        /\ p2' = [p2 EXCEPT ![m] = Outcome(job, m, plan, b1, final)]
    BY <1>1 DEF DecompileModule
  <2>2. /\ plan = ReferencePlan(job) /\ final = ReferenceNames(job)
        /\ b1 = ReferenceFacts(job)
    BY <2>1, FactsComplete DEF Inv, PrepareInv, FactsInv, Complete
  <2>3. p2' = [p2 EXCEPT ![m] = ReferenceOutcome(job, m)]
    BY <2>1, <2>2 DEF ReferenceOutcome
  <2>4. DOMAIN p2 = Mods
    BY DEF Inv, OutcomeInv
  <2>5. GrowsBy(m, p2, p2', ReferenceOutcome(job, m))
    BY <2>1, <2>3, <2>4, CollectedGrows
  <2> QED
    BY <2>1, <2>5 DEF DecompilePhase!Next, DecompilePhase!Map, GrowsBy, DecompilePhase!Items, Mods
<1>2. CASE Assemble
  <2>1. /\ stage = "decompile" /\ stage' = "convert" /\ p2' = p2 /\ job' = job
        /\ DOMAIN Collected(p2) = Mods
    BY <1>2, CollectedAll DEF Assemble
  <2> QED BY <2>1 DEF DecompilePhase!Next, DecompilePhase!Return, DecompilePhase!Items, Mods
<1>3. ASSUME job' = job, p2' = p2, stage \in {"convert", "done"} <=> stage' \in {"convert", "done"}
      PROVE  [DecompilePhase!Next]_(DecompilePhase!vars)
  BY <1>3
<1>4. ASSUME NEW m \in Mods, PrepareModule(m) \/ FinishModule(m)
      PROVE  [DecompilePhase!Next]_(DecompilePhase!vars)
  BY <1>3, <1>4 DEF PrepareModule, FinishModule
<1>5. CASE BuildPlan \/ BuildRenames \/ Convert
  BY <1>3, <1>5 DEF BuildPlan, BuildRenames, Convert
<1>6. CASE UNCHANGED vars
  BY <1>3, <1>6 DEF vars
<1> QED BY <1>1, <1>2, <1>4, <1>5, <1>6 DEF Next, Step

(* Each phase is the parallel map that par_map_largest_first implements. *)
THEOREM UnpackPhasesAreParMaps == Spec => PhasesAreParMaps
<1>1. Init => PreparePhase!Init /\ FactsPhase!Init /\ DecompilePhase!Init
  <2> SUFFICES ASSUME Init
               PROVE  PreparePhase!Init /\ FactsPhase!Init /\ DecompilePhase!Init
    OBVIOUS
  <2>1. Collected(Untouched) = [i \in {} |-> NotYet]
    BY DEF Collected, Untouched
  <2> QED BY <2>1 DEF Init, PreparePhase!Init, FactsPhase!Init, DecompilePhase!Init
<1>2. Inv /\ [Next]_vars =>
        /\ [PreparePhase!Next]_(PreparePhase!vars)
        /\ [FactsPhase!Next]_(FactsPhase!vars)
        /\ [DecompilePhase!Next]_(DecompilePhase!vars)
  BY PreparePhaseStep, FactsPhaseStep, DecompilePhaseStep
<1> QED
  BY <1>1, <1>2, UnpackInvariant, PTL
     DEF Spec, PhasesAreParMaps, PreparePhase!Spec, FactsPhase!Spec, DecompilePhase!Spec
=============================================================================
