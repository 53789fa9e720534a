----------------------------- MODULE MergeLinks -----------------------------
(***************************************************************************)
(* Module ids across the inputs of a multi-source unpack                     *)
(* (core/src/driver/unpack/merge.rs).  A webpack factory loads the modules    *)
(* of other inputs by their id: a number, or a string its own table lacks.    *)
(* apply_numeric_rewrites goes over the calls of one module twice: it first   *)
(* links each call whose id exactly one healthy module of the build carries,  *)
(* then keeps and reports the others.  An input shows its build by the        *)
(* chunk-loading globals it names.                                           *)
(*                                                                         *)
(* A job is the module gone over (`me`, a healthy one), every module that a   *)
(* detector found in the inputs (`mods`; an opaque one is a detector failure),*)
(* the calls of `me` in visit order, as the detector left them, and the       *)
(* string ids it saw the factory load and not find (`absent`).  A call that    *)
(* is `own` passes no id: the detector has linked it to a module of its own    *)
(* table, or it is authored.  A `bound` one is require.bind or require.t.      *)
(***************************************************************************)
EXTENDS Naturals, Sequences

CONSTANTS
  Jobs,
  NumberOf(_),       (* what an id parses to as a number, or NoNumber          *)
  NoNumber,
  NoChunk,           (* a call that is not behind a chunk load                 *)
  OtherLoad,         (* behind a load of several chunks, or a named one        *)
  Specifier(_, _)    (* relative_import_specifier(from, to)                    *)

ASSUME JobsAssumption ==
  \A j \in Jobs :
    /\ j.me \in DOMAIN j.mods
    /\ Len(j.calls) \in Nat /\ DOMAIN j.calls = 1..Len(j.calls)
    /\ \A k \in DOMAIN j.calls :
         /\ j.calls[k].arg.kind \in {"number", "string"}
         /\ j.calls[k].own => j.calls[k].arg.kind = "string"

VARIABLES
  job,
  pass,    (* "link", "keep" or "done"                                       *)
  i,       (* the next call to visit                                         *)
  args,    (* the id argument of each call, by now                           *)
  found    (* UnresolvedLoaderCalls.found                                    *)

vars == <<job, pass, i, args, found>>

-----------------------------------------------------------------------------
(* Inputs that name no global match among themselves; others share a name. *)
SameBuild(b, c) == IF b = {} \/ c = {} THEN b = c ELSE b \cap c # {}

(* The candidates for an id: of a number, of a string, and of a number behind  *)
(* the load of a chunk.  `chunks` holds the chunk ids of the module's input    *)
(* that its file name spells, `group` is the directory of that input.          *)
PlainTargets(j, n) == {t \in DOMAIN j.mods : n # NoNumber /\ NumberOf(j.mods[t].id) = n}

StringTargets(j, s) ==
  {t \in DOMAIN j.mods : j.mods[t].factory /\ ~j.mods[t].entry /\ j.mods[t].id = s}

(* Mutant of ChunkTargets: chunks of every directory count. *)
ChunkTargetsAnywhere(j, group, c, n) ==
  {t \in PlainTargets(j, n) : c \in j.mods[t].chunks}

ChunkTargets(j, group, c, n) ==
  {t \in PlainTargets(j, n) : j.mods[t].group = group /\ c \in j.mods[t].chunks}

InBuild(j, T, build) == {t \in T : SameBuild(j.mods[t].build, build)}

(* resolve_numeric_target: the one candidate in the build is t, and healthy. *)
Resolves(j, T, build, t) ==
  /\ InBuild(j, T, build) = {t}
  /\ ~j.mods[t].opaque

(* NumericRewritePlan::new: some candidate resolves in its own build. *)
CanRewrite(j) ==
  \E t \in DOMAIN j.mods :
    LET r == j.mods[t]
    IN  \/ Resolves(j, PlainTargets(j, NumberOf(r.id)), r.build, t)
        \/ \E c \in r.chunks :
             Resolves(j, ChunkTargets(j, r.group, c, NumberOf(r.id)), r.build, t)
        \/ r.factory /\ ~r.entry /\ Resolves(j, StringTargets(j, r.id), r.build, t)

-----------------------------------------------------------------------------
Me(j) == j.mods[j.me]

(* rewrite_numeric_arg_to_filename. *)
LinkTo(j, t) == [kind |-> "string", id |-> Specifier(Me(j).file, j.mods[t].file)]

Link(j, T, arg) ==
  IF \E t \in T : Resolves(j, T, Me(j).build, t)
  THEN LinkTo(j, CHOOSE t \in T : Resolves(j, T, Me(j).build, t))
  ELSE arg

(* rewrite_async_chunk_load: only a numbered chunk and a numbered module. *)
ChunkLinked(j, c, arg) ==
  IF arg.kind = "number" /\ c \notin {NoChunk, OtherLoad}
  THEN Link(j, ChunkTargets(j, Me(j).group, c, arg.id), arg)
  ELSE arg

(* A plain call passes an id: a number, or a string the factory found absent. *)
IsId(j, arg) == arg.kind = "number" \/ (arg.kind = "string" /\ arg.id \in j.absent)

Candidates(j, arg) ==
  IF arg.kind = "number" THEN PlainTargets(j, arg.id) ELSE StringTargets(j, arg.id)

(* rewrite_plain_require *)
PlainLinked(j, arg) == IF IsId(j, arg) THEN Link(j, Candidates(j, arg), arg) ELSE arg

(* The chunk's module comes first. *)
Linked(j, c, arg) == PlainLinked(j, ChunkLinked(j, c, arg))

(* classify: why a lookup does not resolve. *)
Reasons(j, T) ==
  LET in == InBuild(j, T, Me(j).build)
  IN  CASE in = {} -> {"absent"}
        [] \E t \in in : in = {t} /\ j.mods[t].opaque -> {"opaque"}
        [] \E t \in in : in = {t} /\ ~j.mods[t].opaque -> {}
        [] OTHER -> {"ambiguous"}

Unlinked(j, arg) == IF IsId(j, arg) THEN Reasons(j, Candidates(j, arg)) ELSE {}

(* kept_string_module_id: a string becomes an id no later rule links. *)
Kept(j, arg) ==
  IF arg.kind = "string" /\ Unlinked(j, arg) # {} THEN [kind |-> "kept", id |-> arg.id] ELSE arg

Report(j, c, arg) ==
  IF c = NoChunk THEN {<<arg.kind, arg.id, r>> : r \in Unlinked(j, arg)} ELSE {}

-----------------------------------------------------------------------------
Init ==
  /\ job \in Jobs
  /\ pass = "link"
  /\ i = 1
  /\ args = [k \in DOMAIN job.calls |-> job.calls[k].arg]
  /\ found = {}

(* WebpackNumericReferenceRewriter::visit_mut_call_expr. *)
LinkCall ==
  /\ pass = "link"
  /\ CanRewrite(job)
  /\ i \in DOMAIN args
  /\ args' = [args EXCEPT ![i] = Linked(job, job.calls[i].within, args[i])]
  /\ i' = i + 1
  /\ UNCHANGED <<job, pass, found>>

LinkDone ==
  /\ pass = "link"
  /\ CanRewrite(job) => i \notin DOMAIN args
  /\ pass' = IF Me(job).factory THEN "keep" ELSE "done"
  /\ i' = 1
  /\ UNCHANGED <<job, args, found>>

(* Mutant of KeepCall: the reports of the calls behind a chunk load are kept,  *)
(* and those of the others lost.                                             *)
KeepCallBehind ==
  /\ pass = "keep"
  /\ i \in DOMAIN args
  /\ IF job.calls[i].bound
     THEN UNCHANGED <<args, found>>
     ELSE /\ args' = [args EXCEPT ![i] = Kept(job, args[i])]
          /\ found' = found \cup (Report(job, NoChunk, args[i])
                                    \ Report(job, job.calls[i].within, args[i]))
  /\ i' = i + 1
  /\ UNCHANGED <<job, pass>>

(* UnresolvedLoaderCalls::visit_mut_call_expr: a bound loader is passed over. *)
KeepCall ==
  /\ pass = "keep"
  /\ i \in DOMAIN args
  /\ IF job.calls[i].bound
     THEN UNCHANGED <<args, found>>
     ELSE /\ args' = [args EXCEPT ![i] = Kept(job, args[i])]
          /\ found' = found \cup Report(job, job.calls[i].within, args[i])
  /\ i' = i + 1
  /\ UNCHANGED <<job, pass>>

KeepDone ==
  /\ pass = "keep"
  /\ i \notin DOMAIN args
  /\ pass' = "done"
  /\ UNCHANGED <<job, i, args, found>>

Next == LinkCall \/ LinkDone \/ KeepCall \/ KeepDone

Spec == Init /\ [][Next]_vars

-----------------------------------------------------------------------------
TypeOK ==
  /\ pass \in {"link", "keep", "done"}
  /\ i \in 1..(Len(job.calls) + 1)
  /\ DOMAIN args = DOMAIN job.calls
  /\ \A k \in DOMAIN args : args[k].kind \in {"number", "string", "kept"}
  /\ \A f \in found : f[1] \in {"number", "string"} /\ f[3] \in {"absent", "opaque", "ambiguous"}

IsLinked(k) == args[k].kind = "string" /\ args[k] # job.calls[k].arg

(* The modules of the build that answer to what a call passes. *)
Answering(k) == InBuild(job, Candidates(job, job.calls[k].arg), Me(job).build)

(* Those of a number in the chunk that the call waits for. *)
InChunk(k) ==
  {t \in Answering(k) : /\ job.calls[k].arg.kind = "number"
                        /\ job.mods[t].group = Me(job).group
                        /\ job.calls[k].within \in job.mods[t].chunks}

(* The absent ids that are spelled like a specifier the call passes by then:   *)
(* its own, or that of its chunk's module.  The passes tell the two apart by   *)
(* their spelling only (merge.rs:1023).                                       *)
Misread(k) ==
  {s \in job.absent :
     \/ job.calls[k].own /\ s = job.calls[k].arg.id
     \/ \E u \in InChunk(k) : InChunk(k) = {u} /\ s = LinkTo(job, u).id}

(* A call is linked to a healthy module, the only one of the build that        *)
(* answers to the id, or the only one in the chunk the call waits for: an      *)
(* opaque module keeps its id, and no module of another build takes it.  What  *)
(* the detector linked and what is authored stays as it was; only a specifier  *)
(* that reads as an absent id is linked again, to the one that answers to it.  *)
LinkedToTheOne ==
  \A k \in DOMAIN args : pass = "done" /\ IsLinked(k) =>
    \E t \in DOMAIN job.mods :
      /\ args[k] = LinkTo(job, t)
      /\ ~job.mods[t].opaque
      /\ \/ ~job.calls[k].own /\ (Answering(k) = {t} \/ InChunk(k) = {t})
         \/ \E s \in Misread(k) : InBuild(job, StringTargets(job, s), Me(job).build) = {t}

(* The calls the second pass answers for. *)
Loads == {k \in DOMAIN job.calls :
            /\ Me(job).factory
            /\ ~job.calls[k].own /\ ~job.calls[k].bound /\ job.calls[k].within = NoChunk
            /\ IsId(job, job.calls[k].arg)}

IsReported(k) ==
  \E r \in {"absent", "opaque", "ambiguous"} :
    <<job.calls[k].arg.kind, job.calls[k].arg.id, r>> \in found

(* What a call of an id that no one module answers to is left as. *)
KeptArg(arg) == IF arg.kind = "string" THEN [kind |-> "kept", id |-> arg.id] ELSE arg

(* Another candidate for the id is of one build with t, though not with the    *)
(* caller: NumericRewritePlan::new asks whether t resolves in its own build    *)
(* (merge.rs:325) and may skip the first pass because of it.                  *)
Shadowed(k, t) ==
  \E u \in Candidates(job, job.calls[k].arg) \ {t} :
    SameBuild(job.mods[u].build, job.mods[t].build)

(* When both passes are over, each call of an id that one healthy module of    *)
(* the build answers to is linked and not reported, and each other one is      *)
(* kept and reported; nothing else is.  There are three exceptions: the first  *)
(* pass was skipped although the module answers; the link reads as an absent   *)
(* id, which the second pass keeps in its place; and such a misread specifier  *)
(* is reported.                                                              *)
CallsAccounted ==
  pass = "done" =>
    /\ \A k \in Loads :
         LET arg == job.calls[k].arg
         IN  \/ \E t \in Answering(k) :
                  /\ Answering(k) = {t} /\ ~job.mods[t].opaque
                  /\ ~IsReported(k)
                  /\ \/ args[k] = LinkTo(job, t)
                     \/ args[k] = arg /\ Shadowed(k, t)
                     \/ LinkTo(job, t).id \in job.absent /\ args[k] = KeptArg(LinkTo(job, t))
             \/ /\ \A t \in Answering(k) : Answering(k) = {t} => job.mods[t].opaque
                /\ IsReported(k)
                /\ args[k] = KeptArg(arg)
    /\ \A f \in found :
         \/ \E k \in Loads : job.calls[k].arg.kind = f[1] /\ job.calls[k].arg.id = f[2]
         \/ /\ f[1] = "string" /\ f[2] \in job.absent
            /\ \/ \E k \in DOMAIN job.calls : job.calls[k].own /\ job.calls[k].arg.id = f[2]
               \/ \E t \in DOMAIN job.mods : LinkTo(job, t).id = f[2]
=============================================================================
