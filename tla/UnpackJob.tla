------------------------------ MODULE UnpackJob ------------------------------
(***************************************************************************)
(* The incremental job of the public API (wakaru/src/unpack.rs): inputs are   *)
(* pushed one by one under a policy, `finish` names and emits their modules. *)
(* The phases between naming and output are here what they do to names, the  *)
(* recovery of file names with the specifiers that follow it, and to the list *)
(* of modules, the elimination of dead helpers.                              *)
(***************************************************************************)
EXTENDS MergeNames

CONSTANT
  Jobs   (* whether modules are emitted raw, and what is pushed *)

(* What a push finds: an input with a source map, one that does not parse,    *)
(* plain code (perhaps a bundle it refused to split), a chunk that others      *)
(* import by its path, or a bundle that scripts load.  A plain input's policy *)
(* says what becomes of it.                                                  *)
Forms == {"mapped", "broken", "plain", "facade", "bundle"}
Failing == {"mapped", "broken"}
Policies == {"Skip", "SkipUnrecognized", "Process", "Preserve", "Error"}
Pushes == [file : Paths, form : Forms, policy : Policies, refused : BOOLEAN,
           modules : Seq(Pieces)]

ASSUME JobsAssumption ==
  /\ Jobs \subseteq [raw : BOOLEAN, pushes : Seq(Pushes)]
  /\ \A job \in Jobs : \A k \in DOMAIN job.pushes :
       LET modules == job.pushes[k].modules
       IN  /\ job.pushes[k].form \notin Failing => modules # << >>
           /\ \A i, j \in DOMAIN modules : i # j => modules[i].orig # modules[j].orig
           /\ \A i \in DOMAIN modules :
                modules[i].suggests # NoName => Recovered(modules[i].suggests) \in Paths \cup {NoPath}

VARIABLES
  stage,      (* what runs next                                              *)
  at,         (* the push, input or module it is at                          *)
  job,        (* the job, never changed                                      *)
  reports,    (* InputReport of each id: its push, action, and module indices *)
  processed,  (* the inputs retained for the core: their ids and pushes        *)
  preserved,  (* the inputs retained as they are                              *)
  unmatched,  (* an input violated UnmatchedInput::Error                     *)
  mods,       (* modules of the processed inputs: what they were in `input`   *)
              (* as the `nth`, their name `merged` by the merge and then       *)
              (* `file`, and their `links`, a specifier and a module each     *)
  seen,       (* the keys of names taken                                     *)
  dropped,    (* the modules that elimination drops                          *)
  out         (* the modules of the output: file, id, and the push their text *)
              (* came from                                                   *)

vars == <<stage, at, job, reports, processed, preserved, unmatched, mods, seen,
          dropped, out>>

Stages == {"push", "plan", "expand", "name", "rewrite", "recover", "eliminate", "convert",
           "preserve", "done", "failed"}

(* The inputs the core is given, in order. *)
Ins == [i \in DOMAIN processed |-> job.pushes[processed[i].push]]

-----------------------------------------------------------------------------
Init ==
  /\ stage = "push"
  /\ at = 1
  /\ job \in Jobs
  /\ reports = << >>
  /\ processed = << >>
  /\ preserved = << >>
  /\ unmatched = FALSE
  /\ mods = << >>
  /\ seen = {}
  /\ dropped = {}
  /\ out = << >>

(* An input with a source map, or one that does not parse. *)
PushFails ==
  /\ stage = "push"
  /\ at \in DOMAIN job.pushes
  /\ job.pushes[at].form \in Failing
  /\ at' = at + 1
  /\ UNCHANGED <<stage, job, reports, processed, preserved, unmatched, mods, seen, dropped, out>>

(* The input gets the next id and a report, and the job may keep it.  What is *)
(* kept is listed here as `finish` will divide it.                           *)
Accept(action) ==
  /\ stage = "push"
  /\ at \in DOMAIN job.pushes
  /\ reports' = Append(reports, [push |-> at, action |-> action, modules |-> {}])
  /\ at' = at + 1
  /\ UNCHANGED <<stage, job, mods, seen, dropped, out>>

Kept == [id |-> Len(reports) + 1, push |-> at]

PlainUnder(policies) ==
  /\ at \in DOMAIN job.pushes
  /\ job.pushes[at].form = "plain"
  /\ job.pushes[at].policy \in policies

PushSplit ==
  /\ at \in DOMAIN job.pushes
  /\ job.pushes[at].form \in {"facade", "bundle"}
  /\ Accept("Unpacked")
  /\ processed' = Append(processed, Kept)
  /\ UNCHANGED <<preserved, unmatched>>

PushSkipped ==
  /\ PlainUnder({"Skip", "SkipUnrecognized"})
  /\ job.pushes[at].policy = "Skip" \/ ~job.pushes[at].refused
  /\ Accept("Skipped")
  /\ UNCHANGED <<processed, preserved, unmatched>>

PushProcessed ==
  /\ PlainUnder({"Process", "SkipUnrecognized"})
  /\ job.pushes[at].policy = "Process" \/ job.pushes[at].refused
  /\ Accept("Processed")
  /\ processed' = Append(processed, Kept)
  /\ UNCHANGED <<preserved, unmatched>>

PushPreserved ==
  /\ PlainUnder({"Preserve"})
  /\ Accept("Preserved")
  /\ preserved' = Append(preserved, Kept)
  /\ UNCHANGED <<processed, unmatched>>

(* The job is lost, but only `finish` says so. *)
PushUnmatched ==
  /\ PlainUnder({"Error"})
  /\ Accept("Processed")
  /\ unmatched' = TRUE
  /\ UNCHANGED <<processed, preserved>>

(* The caller has no more inputs. *)
Finish ==
  /\ stage = "push"
  /\ at = Len(job.pushes) + 1
  /\ stage' = IF reports = << >> \/ unmatched THEN "failed"
              ELSE IF processed = << >> THEN "preserve" ELSE "plan"
  /\ at' = 1
  /\ UNCHANGED <<job, reports, processed, preserved, unmatched, mods, seen, dropped, out>>

PlanPublicPaths ==
  /\ stage = "plan"
  /\ stage' = IF Ambiguous(Ins, job.raw) THEN "failed" ELSE "expand"
  /\ UNCHANGED <<at, job, reports, processed, preserved, unmatched, mods, seen, dropped, out>>

(* The k-th module of an input, named as it would like to be. *)
Placed(i, k) ==
  LET m == ModulesOf(Ins, job.raw, i)[k]
      file == Reservation(Ins, job.raw, [input |-> i, entry |-> m.entry, orig |-> m.orig])
  IN  [input |-> i, nth |-> k, orig |-> m.orig, entry |-> m.entry, own |-> m.own,
       authored |-> m.authored, suggests |-> m.suggests, file |-> file, merged |-> file,
       reserved |-> FALSE, links |-> {}]

Placements(i) == [k \in DOMAIN ModulesOf(Ins, job.raw, i) |-> Placed(i, k)]

(* One round of the loop over the inputs.  When the last is done, the planned *)
(* paths are taken.                                                          *)
Expand ==
  /\ stage = "expand"
  /\ at \in DOMAIN Ins
  /\ mods' = mods \o Placements(at)
  /\ IF at = Len(Ins)
     THEN /\ stage' = "name"
          /\ at' = 1
          /\ seen' = {CaseKey(Ins[i].file) : i \in Planned(Ins, job.raw)}
     ELSE /\ at' = at + 1
          /\ UNCHANGED <<stage, seen>>
  /\ UNCHANGED <<job, reports, processed, preserved, unmatched, dropped, out>>

(* assign_unique_module_filenames: a module at the path of its input keeps it. *)
NameModule ==
  /\ stage = "name"
  /\ at \in DOMAIN mods
  /\ IF Holds(Ins, job.raw, mods[at])
     THEN /\ mods' = [mods EXCEPT ![at].reserved = TRUE]
          /\ UNCHANGED seen
     ELSE \E name \in Tries(mods[at].file, seen) :
            /\ FirstFree(name, mods[at].file, seen)
            /\ mods' = [mods EXCEPT ![at].file = name, ![at].merged = name]
            /\ seen' = seen \cup {CaseKey(name)}
  /\ at' = IF at = Len(mods) THEN 1 ELSE at + 1
  /\ stage' = IF at = Len(mods) THEN "rewrite" ELSE stage
  /\ UNCHANGED <<job, reports, processed, preserved, unmatched, dropped, out>>

(* The specifiers of a module: to modules of its input by the names they had  *)
(* there, and to other inputs by the paths their author wrote, both with the  *)
(* module they mean.                                                         *)
Links(m) ==
  {[spec |-> Followed(Ins, job.raw, mods, m, Relative(m.orig, mods[k].orig)),
    to |-> k, authored |-> FALSE] :
     k \in {j \in Siblings(mods, m) : mods[j].nth \in m.own}}
  \cup
  {[spec |-> Followed(Ins, job.raw, mods, m, Relative(Ins[m.input].file, mods[k].file)),
    to |-> k, authored |-> TRUE] :
     k \in {j \in DOMAIN mods : /\ mods[j].reserved
                                /\ m.input \in Planned(Ins, job.raw)
                                /\ mods[j].file \in m.authored}}

RewriteModules ==
  /\ stage = "rewrite"
  /\ mods' = [k \in DOMAIN mods |-> [mods[k] EXCEPT !.links = Links(mods[k])]]
  /\ stage' = IF job.raw THEN "convert" ELSE "recover"
  /\ UNCHANGED <<at, job, reports, processed, preserved, unmatched, seen, dropped, out>>

RecoverNames ==
  /\ stage = "recover"
  /\ LET final == FinalNames(mods, [k \in DOMAIN mods |-> mods[k].suggests])
     IN  mods' = [k \in DOMAIN mods |->
           [mods[k] EXCEPT
              !.file = final[k],
              !.links = {[l EXCEPT !.spec = Rewrite(mods, final, k, l.spec)] : l \in @}]]
  /\ stage' = "eliminate"
  /\ UNCHANGED <<at, job, reports, processed, preserved, unmatched, seen, dropped, out>>

(* eliminate_dead_helper_modules, which DeadModule models: here it may drop    *)
(* any helpers that are no entries, but never the whole output.              *)
Helper(m) == ModulesOf(Ins, job.raw, m.input)[m.nth].helper

Eliminate ==
  /\ stage = "eliminate"
  /\ \E dead \in SUBSET {k \in DOMAIN mods : Helper(mods[k]) /\ ~mods[k].entry} :
       /\ dead # DOMAIN mods
       /\ dropped' = dead
  /\ stage' = "convert"
  /\ UNCHANGED <<at, job, reports, processed, preserved, unmatched, mods, seen, out>>

-----------------------------------------------------------------------------
(* Bug: the index of an input among the processed ones is taken for its id. *)
IdOfIndex(i) == i

(* The core numbers the inputs it was given; reports are numbered by push. *)
IdOf(i) == processed[i].id

(* convert_core_output, one round: a module that is left goes to the output,  *)
(* and its index to the report of its input.                                 *)
ConvertModule ==
  /\ stage = "convert"
  /\ at \in DOMAIN mods
  /\ LET input == mods[at].input
     IN  IF at \in dropped
         THEN UNCHANGED <<out, reports>>
         ELSE /\ out' = Append(out, [file |-> mods[at].file, id |-> IdOf(input),
                                     push |-> processed[input].push])
              /\ reports' = [reports EXCEPT ![IdOf(input)].modules = @ \cup {Len(out) + 1}]
  /\ at' = IF at = Len(mods) THEN 1 ELSE at + 1
  /\ stage' = IF at = Len(mods) THEN "preserve" ELSE stage
  /\ UNCHANGED <<job, processed, preserved, unmatched, mods, seen, dropped>>

(* Bug: the index of a preserved module is taken after the module is added. *)
PreserveInputLate ==
  /\ stage = "preserve"
  /\ at \in DOMAIN preserved
  /\ LET input == preserved[at]
         file == job.pushes[input.push].file
         path == <<file[Len(file)]>>
         taken == {CaseKey(out[k].file) : k \in DOMAIN out}
     IN  \E name \in Tries(path, taken) :
           /\ FirstFree(name, path, taken)
           /\ out' = Append(out, [file |-> name, id |-> input.id, push |-> input.push])
           /\ reports' = [reports EXCEPT ![input.id].modules = @ \cup {Len(out) + 2}]
  /\ at' = at + 1
  /\ UNCHANGED <<stage, job, processed, preserved, unmatched, mods, seen, dropped>>

(* append_preserved_modules, one round: the last part of the path, made free *)
(* of the names in the output.                                               *)
PreserveInput ==
  /\ stage = "preserve"
  /\ at \in DOMAIN preserved
  /\ LET input == preserved[at]
         file == job.pushes[input.push].file
         path == <<file[Len(file)]>>
         taken == {CaseKey(out[k].file) : k \in DOMAIN out}
     IN  \E name \in Tries(path, taken) :
           /\ FirstFree(name, path, taken)
           /\ out' = Append(out, [file |-> name, id |-> input.id, push |-> input.push])
           /\ reports' = [reports EXCEPT ![input.id].modules = @ \cup {Len(out) + 1}]
  /\ at' = at + 1
  /\ UNCHANGED <<stage, job, processed, preserved, unmatched, mods, seen, dropped>>

Return ==
  /\ stage = "preserve"
  /\ at = Len(preserved) + 1
  /\ stage' = "done"
  /\ UNCHANGED <<at, job, reports, processed, preserved, unmatched, mods, seen, dropped, out>>

Next ==
  \/ PushFails \/ PushSplit \/ PushSkipped \/ PushProcessed \/ PushPreserved \/ PushUnmatched
  \/ Finish \/ PlanPublicPaths \/ Expand \/ NameModule \/ RewriteModules \/ RecoverNames
  \/ Eliminate \/ ConvertModule \/ PreserveInput \/ Return

Spec == Init /\ [][Next]_vars

-----------------------------------------------------------------------------
Reports == [push : Nat, action : {"Unpacked", "Skipped", "Processed", "Preserved"},
            modules : SUBSET Nat]
Inputs == [id : Nat, push : Nat]
Edges == [spec : [up : Nat, down : Seq(Part)], to : Nat, authored : BOOLEAN]
Modules ==
  [input : Nat, nth : Nat, orig : Paths, entry : BOOLEAN, own : SUBSET Nat,
   authored : SUBSET Paths, suggests : Paths \cup {NoName}, file : Paths, merged : Paths,
   reserved : BOOLEAN, links : SUBSET Edges]
Outputs == [file : Paths, id : Nat, push : Nat]

(* The types of the state, and that every index that is kept is one of what   *)
(* it indexes: the processed inputs, the reports, the modules of the output.  *)
TypeOK ==
  /\ stage \in Stages
  /\ at \in Nat \ {0}
  /\ job \in Jobs
  /\ reports \in Seq(Reports)
  /\ processed \in Seq(Inputs)
  /\ preserved \in Seq(Inputs)
  /\ unmatched \in BOOLEAN
  /\ mods \in Seq(Modules)
  /\ out \in Seq(Outputs)
  /\ \A id \in DOMAIN reports : reports[id].modules \subseteq DOMAIN out
  /\ \A i \in DOMAIN processed : processed[i].id \in DOMAIN reports
  /\ \A i \in DOMAIN preserved : preserved[i].id \in DOMAIN reports
  /\ \A k \in DOMAIN mods : mods[k].input \in DOMAIN processed
  /\ dropped \subseteq DOMAIN mods
  /\ \A k \in DOMAIN out : out[k].id \in DOMAIN reports

(* No two modules of the output have a name that a case-insensitive file      *)
(* system cannot tell apart, whichever names the inputs brought and however   *)
(* many suffixes were invented on the way (ModuleOutput::filename).          *)
NamesUnique ==
  stage = "done" =>
    \A i, j \in DOMAIN out : i # j => CaseKey(out[i].file) # CaseKey(out[j].file)

(* A specifier that an author wrote for another input's path also names the   *)
(* sibling t, read from where the split left the module.                     *)
ReadsAs(k, l, t) ==
  LET m == mods[k]
  IN  /\ l.authored
      /\ t \in Siblings(mods, m)
      /\ mods[t].orig = Resolve(m.orig, Relative(Ins[m.input].file, mods[l.to].merged))

(* The module a specifier leads to: the one it meant, unless it reads as a     *)
(* sibling's name, which the rewriter tries first.                           *)
LeadsTo(k, l, t) ==
  IF \E s \in DOMAIN mods : ReadsAs(k, l, s) THEN ReadsAs(k, l, t) ELSE t = l.to

(* After the merge and the recovery of names every specifier still resolves,  *)
(* from where its module ends up, to where the module it leads to ends up: a  *)
(* generated sibling by any name, another input by the path its author used.  *)
(* A module that recovery moves to another directory keeps the specifiers of  *)
(* targets it does not rename (ReferencesReformed); those are left out.      *)
EdgesResolve ==
  stage \in {"eliminate", "convert", "preserve", "done"} =>
    \A k, t \in DOMAIN mods : \A l \in mods[k].links :
      LeadsTo(k, l, t) =>
        \/ Resolve(mods[k].file, l.spec) = mods[t].file
        \/ /\ Dir(mods[k].file) # Dir(mods[k].merged)
           /\ mods[t].file = mods[t].merged

(* The modules of the input with an id, before elimination. *)
From(id) == {k \in DOMAIN mods : processed[mods[k].input].id = id}

(* What `finish` returns accounts for every input that was pushed and no      *)
(* other: ids are dense in the order of pushes, a failed push took none, each *)
(* module is listed by the report of the input its text came from, a skipped  *)
(* input has none, a preserved one has its own, the report of an input that    *)
(* was processed lists the modules elimination left of it, be it none, and no  *)
(* input broke UnmatchedInput::Error.                                        *)
InputsAccounted ==
  stage = "done" =>
    /\ {reports[id].push : id \in DOMAIN reports}
         = {p \in DOMAIN job.pushes : job.pushes[p].form \notin Failing}
    /\ \A i, j \in DOMAIN reports : i < j => reports[i].push < reports[j].push
    /\ \A id \in DOMAIN reports :
         LET push == job.pushes[reports[id].push]
             listed == reports[id].modules
         IN  /\ listed = {k \in DOMAIN out : out[k].push = reports[id].push}
             /\ reports[id].action = "Skipped" => listed = {}
             /\ reports[id].action = "Preserved" => listed # {}
             /\ reports[id].action \in {"Unpacked", "Processed"} =>
                  /\ From(id) # {}
                  /\ {out[k].file : k \in listed} = {mods[k].file : k \in From(id) \ dropped}
             /\ ~(push.form = "plain" /\ push.policy = "Error")
=============================================================================
