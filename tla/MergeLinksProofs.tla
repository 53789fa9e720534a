-------------------------- MODULE MergeLinksProofs --------------------------
(***************************************************************************)
(* Theorems about MergeLinks, for any modules, ids, builds and calls.  The    *)
(* invariant says that the two passes compute a function of each call;        *)
(* what the properties say then follows from that function.                  *)
(***************************************************************************)
EXTENDS MergeLinks, TLAPS

(* What the first and the second pass make of a call, and what is reported.    *)
First(j, k) ==
  IF CanRewrite(j) THEN Linked(j, j.calls[k].within, j.calls[k].arg) ELSE j.calls[k].arg

Second(j, k) == IF j.calls[k].bound THEN First(j, k) ELSE Kept(j, First(j, k))

Reported(j, k) ==
  IF j.calls[k].bound THEN {} ELSE Report(j, j.calls[k].within, First(j, k))

AllReported(j, D) == UNION {Reported(j, k) : k \in D}

LinkInv ==
  pass = "link" =>
    /\ found = {}
    /\ CanRewrite(job) \/ i = 1
    /\ \A k \in DOMAIN args : args[k] = IF k < i THEN First(job, k) ELSE job.calls[k].arg

KeepInv ==
  pass = "keep" =>
    /\ Me(job).factory
    /\ \A k \in DOMAIN args : args[k] = IF k < i THEN Second(job, k) ELSE First(job, k)
    /\ found = AllReported(job, {k \in DOMAIN args : k < i})

DoneInv ==
  pass = "done" =>
    /\ \A k \in DOMAIN args : args[k] = IF Me(job).factory THEN Second(job, k) ELSE First(job, k)
    /\ found = IF Me(job).factory THEN AllReported(job, DOMAIN args) ELSE {}

Inv ==
  /\ job \in Jobs
  /\ pass \in {"link", "keep", "done"}
  /\ i \in 1..(Len(job.calls) + 1)
  /\ DOMAIN args = DOMAIN job.calls
  /\ LinkInv /\ KeepInv /\ DoneInv

-----------------------------------------------------------------------------
LEMMA InitInv == Init => Inv
<1> SUFFICES ASSUME Init PROVE Inv
  OBVIOUS
<1>1. job \in Jobs /\ pass = "link" /\ i = 1 /\ found = {} /\ Len(job.calls) \in Nat
        /\ DOMAIN job.calls = 1..Len(job.calls)
  BY JobsAssumption DEF Init
<1>2. DOMAIN args = DOMAIN job.calls /\ \A k \in DOMAIN args : args[k] = job.calls[k].arg
  BY DEF Init
<1>3. LinkInv
  BY <1>1, <1>2 DEF LinkInv
<1>4. i \in 1..(Len(job.calls) + 1)
  BY <1>1
<1> QED BY <1>1, <1>2, <1>3, <1>4 DEF Inv, KeepInv, DoneInv

LEMMA LinkCallStep ==
  ASSUME Inv, LinkCall
  PROVE  Inv'
<1> USE DEF Inv
<1>1. /\ pass = "link" /\ pass' = "link" /\ job' = job /\ found' = found /\ i' = i + 1
      /\ CanRewrite(job) /\ i \in DOMAIN args
      /\ args' = [args EXCEPT ![i] = Linked(job, job.calls[i].within, args[i])]
  BY DEF LinkCall
<1>2. Len(job.calls) \in Nat /\ DOMAIN args = 1..Len(job.calls)
  BY JobsAssumption
<1>3. i' \in 1..(Len(job'.calls) + 1)
  BY <1>1, <1>2
<1>4. DOMAIN args' = DOMAIN job'.calls
  BY <1>1
<1>5. args[i] = job.calls[i].arg
  BY <1>1, <1>2 DEF LinkInv
<1>6. args'[i] = First(job, i)
  BY <1>1, <1>5 DEF First
<1>7. ASSUME NEW k \in DOMAIN args
      PROVE  args'[k] = IF k < i + 1 THEN First(job, k) ELSE job.calls[k].arg
  <2>1. CASE k = i
    BY <1>2, <1>6, <2>1
  <2>2. CASE k # i
    <3>1. args'[k] = args[k]
      BY <1>1, <2>2
    <3>2. k < i + 1 <=> k < i
      BY <1>1, <1>2, <2>2
    <3> QED BY <1>1, <3>1, <3>2 DEF LinkInv
  <2> QED BY <2>1, <2>2
<1>8. found' = {}
  BY <1>1 DEF LinkInv
<1>9. LinkInv'
  BY <1>1, <1>4, <1>7, <1>8 DEF LinkInv, First
<1> QED BY <1>1, <1>3, <1>4, <1>9 DEF KeepInv, DoneInv

LEMMA LinkDoneStep ==
  ASSUME Inv, LinkDone
  PROVE  Inv'
<1> USE DEF Inv
<1>1. /\ pass = "link" /\ job' = job /\ found' = found /\ i' = 1 /\ args' = args
      /\ CanRewrite(job) => i \notin DOMAIN args
      /\ pass' = IF Me(job).factory THEN "keep" ELSE "done"
  BY DEF LinkDone
<1>2. Len(job.calls) \in Nat /\ DOMAIN args = 1..Len(job.calls)
  BY JobsAssumption
<1>3. \A k \in DOMAIN args : args[k] = First(job, k)
  <2>1. CASE CanRewrite(job)
    <3>1. \A k \in DOMAIN args : k < i
      BY <1>1, <1>2, <2>1
    <3> QED BY <1>1, <3>1 DEF LinkInv
  <2>2. CASE ~CanRewrite(job)
    <3>1. \A k \in DOMAIN args : ~(k < i)
      BY <1>1, <1>2, <2>2 DEF LinkInv
    <3> QED BY <1>1, <2>2, <3>1 DEF LinkInv, First
  <2> QED BY <2>1, <2>2
<1>4. found' = {} /\ i' \in 1..(Len(job'.calls) + 1)
  BY <1>1, <1>2 DEF LinkInv
<1>5. CASE Me(job).factory
  <2>1. {k \in DOMAIN args : k < 1} = {}
    BY <1>2
  <2>2. \A k \in DOMAIN args : ~(k < 1)
    BY <1>2
  <2>3. AllReported(job, {k \in DOMAIN args : k < 1}) = {}
    BY <2>1 DEF AllReported
  <2>4. pass' = "keep"
    BY <1>1, <1>5
  <2>5. KeepInv'
    BY <1>1, <1>3, <1>4, <1>5, <2>2, <2>3 DEF KeepInv, First, Me, AllReported, Reported
  <2> QED BY <1>1, <1>4, <2>4, <2>5 DEF LinkInv, DoneInv
<1>6. CASE ~Me(job).factory
  <2>1. pass' = "done"
    BY <1>1, <1>6
  <2>2. DoneInv'
    BY <1>1, <1>3, <1>4, <1>6 DEF DoneInv, First, Me
  <2> QED BY <1>1, <1>4, <2>1, <2>2 DEF LinkInv, KeepInv
<1> QED BY <1>5, <1>6

LEMMA KeepCallStep ==
  ASSUME Inv, KeepCall
  PROVE  Inv'
<1> USE DEF Inv
<1>1. /\ pass = "keep" /\ pass' = "keep" /\ job' = job /\ i' = i + 1 /\ i \in DOMAIN args
      /\ IF job.calls[i].bound
         THEN args' = args /\ found' = found
         ELSE /\ args' = [args EXCEPT ![i] = Kept(job, args[i])]
              /\ found' = found \cup Report(job, job.calls[i].within, args[i])
  BY DEF KeepCall
<1>2. Len(job.calls) \in Nat /\ DOMAIN args = 1..Len(job.calls)
  BY JobsAssumption
<1>3. args[i] = First(job, i) /\ Me(job).factory
  BY <1>1, <1>2 DEF KeepInv
<1>4. DOMAIN args' = DOMAIN args
  BY <1>1
<1>5. args'[i] = Second(job, i)
  BY <1>1, <1>3 DEF Second
<1>6. \A k \in DOMAIN args : k # i => args'[k] = args[k]
  BY <1>1
<1>7. found' = found \cup Reported(job, i)
  BY <1>1, <1>3 DEF Reported
<1>8. i' \in 1..(Len(job'.calls) + 1)
  BY <1>1, <1>2
<1>9. \A k \in DOMAIN args : args'[k] = IF k < i + 1 THEN Second(job, k) ELSE First(job, k)
  <2> SUFFICES ASSUME NEW k \in DOMAIN args
               PROVE  args'[k] = IF k < i + 1 THEN Second(job, k) ELSE First(job, k)
    OBVIOUS
  <2>1. CASE k = i
    BY <1>2, <1>5, <2>1
  <2>2. CASE k # i
    <3>1. k < i + 1 <=> k < i
      BY <1>1, <1>2, <2>2
    <3> QED BY <1>1, <1>6, <2>2, <3>1 DEF KeepInv
  <2> QED BY <2>1, <2>2
<1>10. {k \in DOMAIN args : k < i + 1} = {k \in DOMAIN args : k < i} \cup {i}
  BY <1>1, <1>2
<1>11. found' = AllReported(job, {k \in DOMAIN args : k < i + 1})
  <2>1. found = AllReported(job, {k \in DOMAIN args : k < i})
    BY <1>1 DEF KeepInv
  <2> QED BY <1>7, <1>10, <2>1 DEF AllReported
<1>12. KeepInv'
  BY <1>1, <1>3, <1>4, <1>9, <1>11 DEF KeepInv, AllReported, Reported, Second, First, Me
<1> QED BY <1>1, <1>4, <1>8, <1>12 DEF LinkInv, DoneInv

LEMMA KeepDoneStep ==
  ASSUME Inv, KeepDone
  PROVE  Inv'
<1> USE DEF Inv
<1>1. /\ pass = "keep" /\ pass' = "done" /\ i \notin DOMAIN args
      /\ job' = job /\ i' = i /\ args' = args /\ found' = found
  BY DEF KeepDone
<1>2. Len(job.calls) \in Nat /\ DOMAIN args = 1..Len(job.calls)
  BY JobsAssumption
<1>3. \A k \in DOMAIN args : k < i
  BY <1>1, <1>2
<1>4. {k \in DOMAIN args : k < i} = DOMAIN args
  BY <1>3
<1>5. DoneInv'
  BY <1>1, <1>3, <1>4 DEF KeepInv, DoneInv, AllReported, Reported, Second, First, Me
<1> QED BY <1>1, <1>5 DEF LinkInv, KeepInv

LEMMA StutterStep ==
  ASSUME Inv, UNCHANGED vars
  PROVE  Inv'
BY DEF Inv, LinkInv, KeepInv, DoneInv, AllReported, Reported, Second, First, Me, vars

LEMMA Invariance == Spec => []Inv
<1>1. Inv /\ [Next]_vars => Inv'
  BY LinkCallStep, LinkDoneStep, KeepCallStep, KeepDoneStep, StutterStep DEF Next
<1> QED BY InitInv, <1>1, PTL DEF Spec

-----------------------------------------------------------------------------
(* What the two passes make of one call.                                     *)

Reason == {"absent", "opaque", "ambiguous"}

LEMMA LinkSpec ==
  ASSUME NEW j, NEW T, NEW arg
  PROVE  \/ /\ Link(j, T, arg) = arg
            /\ \A t \in T : ~Resolves(j, T, Me(j).build, t)
         \/ \E t \in T : /\ Resolves(j, T, Me(j).build, t)
                         /\ Link(j, T, arg) = LinkTo(j, t)
<1>1. CASE \E t \in T : Resolves(j, T, Me(j).build, t)
  <2> DEFINE u == CHOOSE t \in T : Resolves(j, T, Me(j).build, t)
  <2>1. u \in T /\ Resolves(j, T, Me(j).build, u)
    BY <1>1
  <2>2. Link(j, T, arg) = LinkTo(j, u)
    BY <1>1 DEF Link
  <2> HIDE DEF u
  <2> QED BY <2>1, <2>2
<1>2. CASE ~\E t \in T : Resolves(j, T, Me(j).build, t)
  BY <1>2 DEF Link
<1> QED BY <1>1, <1>2

LEMMA ReasonsSpec ==
  ASSUME NEW j, NEW T
  PROVE  /\ Reasons(j, T) \subseteq Reason
         /\ Reasons(j, T) = {} <=> \E t \in T : Resolves(j, T, Me(j).build, t)
<1> DEFINE in == InBuild(j, T, Me(j).build)
<1>1. \A t : t \in in => t \in T
  BY DEF InBuild
<1>2. \A t : Resolves(j, T, Me(j).build, t) <=> in = {t} /\ ~j.mods[t].opaque
  BY DEF Resolves
<1>3. Reasons(j, T) = CASE in = {} -> {"absent"}
        [] \E t \in in : in = {t} /\ j.mods[t].opaque -> {"opaque"}
        [] \E t \in in : in = {t} /\ ~j.mods[t].opaque -> {}
        [] OTHER -> {"ambiguous"}
  BY DEF Reasons
<1> HIDE DEF in
<1>4. CASE in = {}
  <2>1. Reasons(j, T) = {"absent"}
    BY <1>3, <1>4
  <2>2. \A t : in # {t}
    BY <1>4
  <2> QED BY <1>2, <2>1, <2>2 DEF Reason
<1>5. CASE \E t \in in : in = {t} /\ j.mods[t].opaque
  <2>1. Reasons(j, T) = {"opaque"}
    BY <1>3, <1>5
  <2>2. \A t : in = {t} => j.mods[t].opaque
    BY <1>5
  <2> QED BY <1>2, <2>1, <2>2 DEF Reason
<1>6. CASE \E t \in in : in = {t} /\ ~j.mods[t].opaque
  <2>1. Reasons(j, T) = {}
    BY <1>3, <1>6
  <2> QED BY <1>1, <1>2, <1>6, <2>1
<1>7. CASE in # {} /\ \A t \in in : in # {t}
  <2>1. Reasons(j, T) = {"ambiguous"}
    BY <1>3, <1>7
  <2>2. \A t : in # {t}
    BY <1>7
  <2> QED BY <1>2, <2>1, <2>2 DEF Reason
<1> QED BY <1>4, <1>5, <1>6, <1>7

(* The kinds of call after each pass, and what is reported. *)
LEMMA Kinds ==
  ASSUME NEW j \in Jobs, NEW k \in DOMAIN j.calls
  PROVE  /\ j.calls[k].arg.kind \in {"number", "string"}
         /\ First(j, k).kind \in {"number", "string"}
         /\ Second(j, k).kind \in {"number", "string", "kept"}
         /\ Second(j, k) = First(j, k) \/ Second(j, k).kind = "kept"
<1> DEFINE arg == j.calls[k].arg
           c == j.calls[k].within
<1>1. arg.kind \in {"number", "string"}
  BY JobsAssumption
<1>2. \A T, a : Link(j, T, a).kind \in {a.kind, "string"}
  BY LinkSpec DEF LinkTo
<1>3. ChunkLinked(j, c, arg).kind \in {"number", "string"}
  BY <1>1, <1>2 DEF ChunkLinked
<1>4. \A a : PlainLinked(j, a).kind \in {a.kind, "string"}
  BY <1>2 DEF PlainLinked
<1>5. First(j, k).kind \in {"number", "string"}
  BY <1>1, <1>3, <1>4 DEF First, Linked
<1> HIDE DEF arg, c
<1>6. \A a : Kept(j, a) = a \/ Kept(j, a).kind = "kept"
  BY DEF Kept
<1>7. Second(j, k) = First(j, k) \/ Second(j, k).kind = "kept"
  BY <1>6 DEF Second
<1> QED BY <1>1, <1>5, <1>7 DEF arg

LEMMA ReportForm ==
  ASSUME NEW j, NEW D, NEW f \in AllReported(j, D)
  PROVE  \E k \in D : /\ ~j.calls[k].bound /\ j.calls[k].within = NoChunk
                      /\ f[1] = First(j, k).kind /\ f[2] = First(j, k).id
                      /\ f[3] \in Unlinked(j, First(j, k))
<1>1. PICK k \in D : f \in Reported(j, k)
  BY DEF AllReported
<1>2. ~j.calls[k].bound /\ f \in Report(j, j.calls[k].within, First(j, k))
  BY <1>1 DEF Reported
<1>3. /\ j.calls[k].within = NoChunk
      /\ f \in {<<First(j, k).kind, First(j, k).id, r>> : r \in Unlinked(j, First(j, k))}
  BY <1>2 DEF Report
<1>4. PICK r \in Unlinked(j, First(j, k)) : f = <<First(j, k).kind, First(j, k).id, r>>
  BY <1>3
<1> QED BY <1>2, <1>3, <1>4

LEMMA UnlinkedForm ==
  ASSUME NEW j, NEW arg
  PROVE  /\ Unlinked(j, arg) \subseteq Reason
         /\ Unlinked(j, arg) # {} =>
              /\ IsId(j, arg)
              /\ \A t \in Candidates(j, arg) : ~Resolves(j, Candidates(j, arg), Me(j).build, t)
         /\ IsId(j, arg) /\ Unlinked(j, arg) = {} =>
              \E t \in Candidates(j, arg) : Resolves(j, Candidates(j, arg), Me(j).build, t)
<1>1. CASE IsId(j, arg)
  BY <1>1, ReasonsSpec DEF Unlinked
<1>2. CASE ~IsId(j, arg)
  BY <1>2 DEF Unlinked
<1> QED BY <1>1, <1>2

LEMMA Forms ==
  ASSUME Inv
  PROVE  /\ \A k \in DOMAIN args : args[k] \in {job.calls[k].arg, First(job, k), Second(job, k)}
         /\ found \subseteq AllReported(job, DOMAIN args)
<1>1. CASE pass = "link"
  BY <1>1 DEF Inv, LinkInv
<1>2. CASE pass = "keep"
  <2>1. AllReported(job, {k \in DOMAIN args : k < i}) \subseteq AllReported(job, DOMAIN args)
    BY DEF AllReported
  <2> QED BY <1>2, <2>1 DEF Inv, KeepInv
<1>3. CASE pass = "done"
  BY <1>3 DEF Inv, DoneInv
<1> QED BY <1>1, <1>2, <1>3 DEF Inv

(* The types of the variables: what a pass leaves of a call is a number, a    *)
(* string or a kept id, and each report is of an id with one of the three     *)
(* reasons (merge.rs, classify and record).                                  *)
THEOREM MergeTypeCorrect == Spec => []TypeOK
<1>1. Inv => TypeOK
  <2> SUFFICES ASSUME Inv PROVE TypeOK
    OBVIOUS
  <2>1. \A k \in DOMAIN args : args[k].kind \in {"number", "string", "kept"}
    BY Forms, Kinds DEF Inv
  <2>2. \A f \in found : f[1] \in {"number", "string"} /\ f[3] \in Reason
    <3> SUFFICES ASSUME NEW f \in found
                 PROVE  f[1] \in {"number", "string"} /\ f[3] \in Reason
      OBVIOUS
    <3>1. PICK k \in DOMAIN args : f[1] = First(job, k).kind /\ f[3] \in Unlinked(job, First(job, k))
      BY Forms, ReportForm
    <3>2. First(job, k).kind \in {"number", "string"}
      BY Kinds DEF Inv
    <3>3. f[3] \in Reason
      BY <3>1, UnlinkedForm
    <3> QED BY <3>1, <3>2, <3>3
  <2> QED BY <2>1, <2>2 DEF Inv, TypeOK, Reason
<1> QED BY Invariance, <1>1, PTL

-----------------------------------------------------------------------------
LEMMA CandidatesAreModules ==
  ASSUME NEW j, NEW arg
  PROVE  Candidates(j, arg) \subseteq DOMAIN j.mods
BY DEF Candidates, PlainTargets, StringTargets

(* The three ways in which the first pass links a call: to the module its id   *)
(* names, to the one of its chunk, and to the one that the spelling of its     *)
(* chunk's module names.                                                     *)
ByName(j, arg, t) ==
  /\ IsId(j, arg)
  /\ t \in Candidates(j, arg)
  /\ Resolves(j, Candidates(j, arg), Me(j).build, t)

ByChunk(j, k, u) ==
  LET arg == j.calls[k].arg
      chunk == ChunkTargets(j, Me(j).group, j.calls[k].within, arg.id)
  IN  /\ arg.kind = "number"
      /\ u \in chunk
      /\ Resolves(j, chunk, Me(j).build, u)

BySpelling(j, k, t) == \E u : ByChunk(j, k, u) /\ ByName(j, LinkTo(j, u), t)

LinkedBy(j, k, t) ==
  /\ First(j, k) = LinkTo(j, t)
  /\ ByName(j, j.calls[k].arg, t) \/ ByChunk(j, k, t) \/ BySpelling(j, k, t)

LEMMA PlainForm ==
  ASSUME NEW j, NEW a
  PROVE  PlainLinked(j, a) = a \/ \E t : ByName(j, a, t) /\ PlainLinked(j, a) = LinkTo(j, t)
BY LinkSpec DEF PlainLinked, ByName

LEMMA FirstForm ==
  ASSUME NEW j, NEW k
  PROVE  First(j, k) = j.calls[k].arg \/ \E t : LinkedBy(j, k, t)
<1> DEFINE arg == j.calls[k].arg
           mine == ChunkLinked(j, j.calls[k].within, arg)
<1>1. First(j, k) = arg \/ First(j, k) = PlainLinked(j, mine)
  BY DEF First, Linked
<1>2. mine = arg \/ \E u : ByChunk(j, k, u) /\ mine = LinkTo(j, u)
  BY LinkSpec DEF ChunkLinked, ByChunk
<1>3. ASSUME mine = arg, First(j, k) # arg
      PROVE  \E t : LinkedBy(j, k, t)
  <2>1. First(j, k) = PlainLinked(j, arg) /\ First(j, k) # arg
    BY <1>1, <1>3
  <2>2. PICK t : ByName(j, arg, t) /\ PlainLinked(j, arg) = LinkTo(j, t)
    BY <2>1, PlainForm
  <2>3. LinkedBy(j, k, t)
    BY <2>1, <2>2 DEF LinkedBy
  <2> QED BY <2>3
<1>4. ASSUME NEW u, ByChunk(j, k, u), mine = LinkTo(j, u), First(j, k) # arg
      PROVE  \E t : LinkedBy(j, k, t)
  <2>1. First(j, k) = PlainLinked(j, LinkTo(j, u))
    BY <1>1, <1>4
  <2>2. CASE PlainLinked(j, LinkTo(j, u)) = LinkTo(j, u)
    <3>1. LinkedBy(j, k, u)
      BY <1>4, <2>1, <2>2 DEF LinkedBy
    <3> QED BY <3>1
  <2>3. ASSUME NEW t, ByName(j, LinkTo(j, u), t), PlainLinked(j, LinkTo(j, u)) = LinkTo(j, t)
        PROVE  LinkedBy(j, k, t)
    BY <1>4, <2>1, <2>3 DEF LinkedBy, BySpelling
  <2> QED BY <2>2, <2>3, PlainForm
<1> HIDE DEF arg, mine
<1> QED BY <1>2, <1>3, <1>4 DEF arg

(* The candidate of the build in a chunk is the one the call waits for. *)
LEMMA ChunkAnswers ==
  ASSUME NEW k, NEW u, ByChunk(job, k, u)
  PROVE  /\ InChunk(k) = {u}
         /\ u \in DOMAIN job.mods
         /\ ~job.mods[u].opaque
BY DEF ByChunk, Resolves, InBuild, ChunkTargets, PlainTargets, InChunk, Answering, Candidates

(* A string that names t. *)
LEMMA StringAnswers ==
  ASSUME NEW arg, NEW t, arg.kind = "string", ByName(job, arg, t)
  PROVE  /\ arg.id \in job.absent
         /\ InBuild(job, StringTargets(job, arg.id), Me(job).build) = {t}
         /\ t \in DOMAIN job.mods
         /\ ~job.mods[t].opaque
BY DEF ByName, IsId, Candidates, Resolves, StringTargets

(* Each link, the detector's own included, goes to the only module of the      *)
(* build that answers to the id or is in the chunk; a call that had a          *)
(* specifier is linked anew only where that reads as an absent id, and then    *)
(* to the one module which answers to it (merge.rs, resolve_numeric_target).   *)
THEOREM LinksAreUnique == Spec => []LinkedToTheOne
<1>1. Inv => LinkedToTheOne
  <2> SUFFICES ASSUME Inv, pass = "done", NEW k \in DOMAIN args, IsLinked(k)
               PROVE  \E t \in DOMAIN job.mods :
                        /\ args[k] = LinkTo(job, t)
                        /\ ~job.mods[t].opaque
                        /\ \/ ~job.calls[k].own /\ (Answering(k) = {t} \/ InChunk(k) = {t})
                           \/ \E s \in Misread(k) :
                                InBuild(job, StringTargets(job, s), Me(job).build) = {t}
    BY DEF LinkedToTheOne
  <2> DEFINE arg == job.calls[k].arg
  <2>1. /\ job \in Jobs /\ k \in DOMAIN job.calls
        /\ job.calls[k].own => arg.kind = "string"
    BY JobsAssumption DEF Inv
  <2>2. args[k] = First(job, k) /\ First(job, k) # arg
    BY <2>1, Kinds DEF Inv, DoneInv, IsLinked
  <2>3. PICK t : LinkedBy(job, k, t)
    BY <2>2, FirstForm
  <2> First(job, k) = LinkTo(job, t)
    BY <2>3 DEF LinkedBy
  <2>4. CASE ByName(job, arg, t)
    <3>1. t \in DOMAIN job.mods /\ Answering(k) = {t} /\ ~job.mods[t].opaque
      BY <2>4, CandidatesAreModules DEF ByName, Answering, Resolves
    <3>2. CASE job.calls[k].own
      <4>1. arg.id \in Misread(k) /\ InBuild(job, StringTargets(job, arg.id), Me(job).build) = {t}
        BY <2>1, <2>4, <3>2, StringAnswers DEF Misread
      <4> QED BY <2>2, <2>3, <3>1, <4>1
    <3> QED BY <2>2, <2>3, <3>1, <3>2
  <2>5. CASE ByChunk(job, k, t)
    <3>1. ~job.calls[k].own
      BY <2>1, <2>5 DEF ByChunk
    <3> QED BY <2>2, <2>3, <2>5, <3>1, ChunkAnswers
  <2>6. CASE BySpelling(job, k, t)
    <3>1. PICK u : ByChunk(job, k, u) /\ ByName(job, LinkTo(job, u), t)
      BY <2>6 DEF BySpelling
    <3> DEFINE s == LinkTo(job, u).id
    <3>2. /\ s \in job.absent /\ InBuild(job, StringTargets(job, s), Me(job).build) = {t}
          /\ t \in DOMAIN job.mods /\ ~job.mods[t].opaque
      <4>1. LinkTo(job, u).kind = "string"
        BY DEF LinkTo
      <4> QED BY <3>1, <4>1, StringAnswers
    <3>3. s \in Misread(k)
      BY <3>1, <3>2, ChunkAnswers DEF Misread
    <3> QED BY <2>2, <2>3, <3>2, <3>3
  <2> QED BY <2>3, <2>4, <2>5, <2>6 DEF LinkedBy
<1> QED BY Invariance, <1>1, PTL

-----------------------------------------------------------------------------
(* When the first pass is skipped, a module that answers to a name in the      *)
(* caller's build does not answer to it in its own.                          *)
LEMMA SkippedShadows ==
  ASSUME NEW j, ~CanRewrite(j), NEW arg, NEW t, ByName(j, arg, t)
  PROVE  \E u \in Candidates(j, arg) \ {t} : SameBuild(j.mods[u].build, j.mods[t].build)
<1>1. t \in Candidates(j, arg) /\ t \in DOMAIN j.mods /\ ~j.mods[t].opaque
  BY CandidatesAreModules DEF ByName, Resolves
<1>2. CASE arg.kind = "number"
  BY <1>1, <1>2 DEF CanRewrite, Resolves, InBuild, Candidates, PlainTargets, SameBuild
<1>3. CASE arg.kind # "number"
  BY <1>1, <1>3 DEF CanRewrite, Resolves, InBuild, Candidates, StringTargets, SameBuild
<1> QED BY <1>2, <1>3

(* What becomes of a load: linked if one module answers to its id, unless the  *)
(* first pass was skipped; kept and reported if none does.                    *)
LEMMA LoadAnswered ==
  ASSUME Inv, pass = "done", NEW k \in Loads, NEW t, ByName(job, job.calls[k].arg, t)
  PROVE  /\ ~IsReported(k)
         /\ \/ args[k] = LinkTo(job, t)
            \/ args[k] = job.calls[k].arg /\ Shadowed(k, t)
            \/ LinkTo(job, t).id \in job.absent /\ args[k] = KeptArg(LinkTo(job, t))
<1> DEFINE arg == job.calls[k].arg
<1>1. /\ job \in Jobs /\ k \in DOMAIN job.calls /\ k \in DOMAIN args
      /\ ~job.calls[k].bound /\ job.calls[k].within = NoChunk /\ Me(job).factory
      /\ IsId(job, arg)
      /\ args[k] = Kept(job, First(job, k))
  BY DEF Inv, DoneInv, Loads, Second
<1>2. Unlinked(job, arg) = {}
  BY UnlinkedForm DEF ByName
<1>3. ~IsReported(k)
  <2> SUFFICES ASSUME NEW f \in found, f[1] = arg.kind, f[2] = arg.id PROVE FALSE
    BY DEF IsReported
  <2>1. PICK m \in DOMAIN args : /\ f[1] = First(job, m).kind /\ f[2] = First(job, m).id
                                 /\ f[3] \in Unlinked(job, First(job, m))
    BY Forms, ReportForm
  <2>2. Unlinked(job, First(job, m)) = Unlinked(job, arg)
    BY <2>1 DEF Unlinked, IsId, Candidates
  <2> QED BY <1>2, <2>1, <2>2
<1>4. ChunkLinked(job, NoChunk, arg) = arg
  BY DEF ChunkLinked
<1>5. CASE CanRewrite(job)
  <2>1. First(job, k) = LinkTo(job, t)
    <3>1. First(job, k) = Link(job, Candidates(job, arg), arg)
      BY <1>1, <1>4, <1>5 DEF First, Linked, PlainLinked
    <3>2. \A u : Resolves(job, Candidates(job, arg), Me(job).build, u) => u = t
      BY DEF ByName, Resolves
    <3> HIDE DEF arg
    <3> QED BY <3>1, <3>2, LinkSpec DEF ByName, arg
  <2>2. LinkTo(job, t).kind = "string"
    BY DEF LinkTo
  <2>3. CASE Unlinked(job, LinkTo(job, t)) = {}
    BY <1>1, <1>3, <2>1, <2>3 DEF Kept
  <2>4. CASE Unlinked(job, LinkTo(job, t)) # {}
    <3>1. LinkTo(job, t).id \in job.absent
      BY <2>2, <2>4 DEF Unlinked, IsId
    <3> QED BY <1>1, <1>3, <2>1, <2>2, <2>4, <3>1 DEF Kept, KeptArg
  <2> QED BY <2>3, <2>4
<1>6. CASE ~CanRewrite(job)
  <2>1. args[k] = arg
    BY <1>1, <1>2, <1>6 DEF First, Kept
  <2>2. Shadowed(k, t)
    BY <1>6, SkippedShadows DEF Shadowed
  <2> QED BY <1>3, <2>1, <2>2
<1> QED BY <1>5, <1>6

LEMMA LoadUnanswered ==
  ASSUME Inv, pass = "done", NEW k \in Loads, \A t : ~ByName(job, job.calls[k].arg, t)
  PROVE  IsReported(k) /\ args[k] = KeptArg(job.calls[k].arg)
<1> DEFINE arg == job.calls[k].arg
<1>1. /\ job \in Jobs /\ k \in DOMAIN job.calls /\ k \in DOMAIN args
      /\ ~job.calls[k].bound /\ job.calls[k].within = NoChunk /\ Me(job).factory
      /\ IsId(job, arg)
      /\ args[k] = Kept(job, First(job, k))
      /\ Reported(job, k) \subseteq found
  BY DEF Inv, DoneInv, Loads, Second, AllReported
<1>2. First(job, k) = arg
  <2>1. ChunkLinked(job, NoChunk, arg) = arg
    BY DEF ChunkLinked
  <2>2. First(job, k) = arg \/ First(job, k) = PlainLinked(job, arg)
    BY <1>1, <2>1 DEF First, Linked
  <2> QED BY <2>2, PlainForm
<1>3. Unlinked(job, arg) # {} /\ Unlinked(job, arg) \subseteq Reason
  BY <1>1, UnlinkedForm DEF ByName
<1>4. PICK r \in Reason : r \in Unlinked(job, arg)
  BY <1>3
<1>5. <<arg.kind, arg.id, r>> \in found
  BY <1>1, <1>2, <1>4 DEF Reported, Report
<1> QED BY <1>1, <1>2, <1>3, <1>5 DEF IsReported, Reason, Kept, KeptArg

(* Whatever builds the inputs are of and however specifiers are spelled, each  *)
(* load is linked or reported, and never both, but for the exceptions the      *)
(* property names (merge.rs:325 and 1023); nothing else is reported.          *)
THEOREM EveryCallAccounted == Spec => []CallsAccounted
<1>1. Inv => CallsAccounted
  <2> SUFFICES ASSUME Inv, pass = "done" PROVE CallsAccounted
    BY DEF CallsAccounted
  <2>1. ASSUME NEW k \in Loads
        PROVE  LET arg == job.calls[k].arg
               IN  \/ \E t \in Answering(k) :
                        /\ Answering(k) = {t} /\ ~job.mods[t].opaque
                        /\ ~IsReported(k)
                        /\ \/ args[k] = LinkTo(job, t)
                           \/ args[k] = arg /\ Shadowed(k, t)
                           \/ LinkTo(job, t).id \in job.absent /\ args[k] = KeptArg(LinkTo(job, t))
                   \/ /\ \A t \in Answering(k) : Answering(k) = {t} => job.mods[t].opaque
                      /\ IsReported(k)
                      /\ args[k] = KeptArg(arg)
    <3> DEFINE arg == job.calls[k].arg
    <3>1. \A t : ByName(job, arg, t) <=> t \in Answering(k) /\ Answering(k) = {t} /\ ~job.mods[t].opaque
      BY <2>1 DEF ByName, Resolves, Answering, InBuild, Loads
    <3>2. CASE \E t : ByName(job, arg, t)
      BY <2>1, <3>1, <3>2, LoadAnswered
    <3>3. CASE \A t : ~ByName(job, arg, t)
      <4>1. IsReported(k) /\ args[k] = KeptArg(arg)
        BY <2>1, <3>3, LoadUnanswered
      <4> QED BY <3>1, <3>3, <4>1
    <3> QED BY <3>2, <3>3
  <2>2. ASSUME NEW f \in found
        PROVE  \/ \E k \in Loads : job.calls[k].arg.kind = f[1] /\ job.calls[k].arg.id = f[2]
               \/ /\ f[1] = "string" /\ f[2] \in job.absent
                  /\ \/ \E k \in DOMAIN job.calls : job.calls[k].own /\ job.calls[k].arg.id = f[2]
                     \/ \E t \in DOMAIN job.mods : LinkTo(job, t).id = f[2]
    <3>1. Me(job).factory
      BY <2>2 DEF Inv, DoneInv
    <3>2. PICK k \in DOMAIN args :
            /\ ~job.calls[k].bound /\ job.calls[k].within = NoChunk
            /\ f[1] = First(job, k).kind /\ f[2] = First(job, k).id
            /\ f[3] \in Unlinked(job, First(job, k))
      BY <2>2, Forms, ReportForm
    <3>3. job \in Jobs /\ k \in DOMAIN job.calls /\ IsId(job, First(job, k))
      BY <3>2, UnlinkedForm DEF Inv
    <3>4. CASE First(job, k) = job.calls[k].arg /\ ~job.calls[k].own
      <4>1. k \in Loads
        BY <3>1, <3>2, <3>3, <3>4 DEF Loads
      <4> QED BY <3>2, <3>4, <4>1
    <3>5. CASE First(job, k) = job.calls[k].arg /\ job.calls[k].own
      <4>1. First(job, k).kind = "string"
        BY <3>3, <3>5, JobsAssumption
      <4> QED BY <3>2, <3>3, <3>5, <4>1 DEF IsId
    <3>6. CASE First(job, k) # job.calls[k].arg
      <4>1. PICK t : LinkedBy(job, k, t)
        BY <3>6, FirstForm
      <4>2. t \in DOMAIN job.mods
        BY <4>1, CandidatesAreModules, ChunkAnswers DEF ByName, BySpelling, LinkedBy
      <4>3. First(job, k).kind = "string"
        BY <4>1 DEF LinkTo, LinkedBy
      <4> QED BY <3>2, <3>3, <4>1, <4>2, <4>3 DEF IsId, LinkedBy
    <3> QED BY <3>4, <3>5, <3>6
  <2> QED BY <2>1, <2>2 DEF CallsAccounted
<1> QED BY Invariance, <1>1, PTL
=============================================================================
