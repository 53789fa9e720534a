-------------------------- MODULE UnpackJobProofs --------------------------
(***************************************************************************)
(* Theorems about UnpackJob, for every set of jobs: what `finish` returns     *)
(* accounts for every input, no two of its modules have one name, and every   *)
(* specifier resolves.  They rest on three facts about names: a relative      *)
(* specifier reads back as its target, an invented name is free, and the      *)
(* recovery of file names keeps names apart.                                 *)
(***************************************************************************)
EXTENDS UnpackJob, SequenceTheorems, FiniteSetTheorems, TLAPS

(* A path put together of the first k parts of one that agrees with it there  *)
(* and of its own rest is that path.                                         *)
LEMMA SplitPath ==
  ASSUME NEW P, NEW d \in Seq(P), NEW to \in Seq(P), NEW k \in Nat,
         k <= Len(d), k <= Len(to), \A i \in 1..k : d[i] = to[i]
  PROVE  SubSeq(d, 1, k) \o SubSeq(to, k + 1, Len(to)) = to
<1>1. Len(d) \in Nat /\ Len(to) \in Nat
  BY LenProperties
<1>2. /\ \A i \in 1..k : d[i] \in P
      /\ \A i \in (k + 1)..Len(to) : to[i] \in P
  BY <1>1, LenProperties
<1>3. /\ SubSeq(d, 1, k) \in Seq(P)
      /\ Len(SubSeq(d, 1, k)) = k
      /\ \A i \in 1..k : SubSeq(d, 1, k)[i] = d[i]
  BY <1>1, <1>2
<1>4. /\ SubSeq(to, k + 1, Len(to)) \in Seq(P)
      /\ Len(SubSeq(to, k + 1, Len(to))) = Len(to) - k
      /\ \A i \in 1..(Len(to) - k) : SubSeq(to, k + 1, Len(to))[i] = to[k + i]
  BY <1>1, <1>2
<1> DEFINE a == SubSeq(d, 1, k)
           b == SubSeq(to, k + 1, Len(to))
           c == a \o b
<1>5. /\ a \in Seq(P) /\ Len(a) = k
      /\ b \in Seq(P) /\ Len(b) = Len(to) - k
  BY <1>3, <1>4
<1>6. \A i \in 1..k : a[i] = to[i]
  BY <1>3
<1>7. \A i \in 1..(Len(to) - k) : b[i] = to[k + i]
  BY <1>4
<1> HIDE DEF a, b
<1>8. /\ c \in Seq(P)
      /\ Len(c) = Len(to)
      /\ \A i \in 1..Len(c) : c[i] = IF i <= Len(a) THEN a[i] ELSE b[i - Len(a)]
  BY <1>1, <1>5, ConcatProperties
<1> HIDE DEF c
<1>9. ASSUME NEW i \in 1..Len(to)
      PROVE  c[i] = to[i]
  <2>1. i \in Int /\ k \in Int /\ Len(to) \in Int
    BY <1>1
  <2>2. c[i] = IF i <= k THEN a[i] ELSE b[i - k]
    BY <1>5, <1>8
  <2>3. CASE i <= k
    BY <2>1, <2>2, <2>3, <1>6
  <2>4. CASE ~(i <= k)
    <3>1. i - k \in 1..(Len(to) - k) /\ k + (i - k) = i
      BY <2>1, <2>4
    <3> QED BY <3>1, <2>2, <2>4, <1>7
  <2> QED BY <2>3, <2>4
<1>10. c = to
  BY <1>8, <1>9, SeqEqual
<1> QED BY <1>10 DEF a, b, c

(* However many common parts the specifier climbs to, it resolves to its      *)
(* target: a remap can only break a reference it does not rewrite.            *)
THEOREM RelativeRoundTrip ==
  ASSUME NEW P, NEW from \in Seq(P), from # << >>, NEW to \in Seq(P),
         NEW k, Common(k, Dir(from), to)
  PROVE  Resolve(from, RelativeVia(k, from, to)) = to
<1>1. Len(from) \in Nat /\ Len(from) >= 1
  BY EmptySeq, LenProperties
<1>2. \A i \in 1..(Len(from) - 1) : from[i] \in P
  BY <1>1, LenProperties
<1>3. Dir(from) \in Seq(P)
  BY <1>1, <1>2, SubSeqProperties DEF Dir
<1>4. Len(Dir(from)) \in Nat
  BY <1>3, LenProperties
<1>5. /\ k \in Nat /\ k <= Len(Dir(from)) /\ k <= Len(to)
      /\ \A i \in 1..k : Dir(from)[i] = to[i]
  BY <1>4 DEF Common
<1>6. ~(Len(Dir(from)) - k > Len(Dir(from))) /\ Len(Dir(from)) - (Len(Dir(from)) - k) = k
  BY <1>4, <1>5
<1>7. Resolve(from, RelativeVia(k, from, to))
        = SubSeq(Dir(from), 1, k) \o SubSeq(to, k + 1, Len(to))
  BY <1>6 DEF Resolve, RelativeVia
<1> QED BY <1>3, <1>5, <1>7, SplitPath
-----------------------------------------------------------------------------
(* A nonempty set of numbers has a least one.  The sets 0..y of its members    *)
(* are finite, and the strict inclusion of finite sets is well founded.       *)
LEMMA LeastNatural ==
  ASSUME NEW T \in SUBSET Nat, T # {}
  PROVE  \E x \in T : \A y \in T : x <= y
<1>1. PICK n \in T : TRUE
  OBVIOUS
<1> DEFINE S == 0..n
           F == {0..y : y \in {y \in T : y <= n}}
<1>2. IsFiniteSet(S)
  BY <1>1, FS_Interval
<1>3. F \subseteq FiniteSubsetsOf(S)
  BY <1>1, <1>2, FS_FiniteSubsetsOfFinite
<1>4. F # {}
  BY <1>1
<1>5. PICK x \in F : \A y \in F : <<y, x>> \notin StrictSubsetOrdering(S)
  BY <1>3, <1>4, FS_StrictSubsetOrderingWellFounded, WFMin
<1>6. PICK m \in T : m <= n /\ x = 0..m
  BY <1>5
<1>7. ASSUME NEW y \in T, ~(m <= y) PROVE FALSE
  <2>1. y \in Nat /\ m \in Nat /\ n \in Nat /\ y < m /\ y <= n
    BY <1>1, <1>6, <1>7
  <2>2. 0..y \in F
    BY <2>1
  <2>3. 0..y \subseteq 0..m /\ m \in 0..m /\ m \notin 0..y
    BY <2>1
  <2>4. 0..y \subseteq S /\ 0..m \subseteq S
    BY <2>1, <1>6
  <2>5. <<0..y, 0..m>> \in StrictSubsetOrdering(S)
    BY <2>3, <2>4 DEF StrictSubsetOrdering
  <2> QED BY <2>2, <2>5, <1>5, <1>6
<1> QED BY <1>7

(* relative_import_specifier stops at the last common part: there is one. *)
LEMMA LastCommon ==
  ASSUME NEW d \in Seq(Part), NEW to \in Seq(Part)
  PROVE  \E k \in 0..Len(d) : Common(k, d, to) /\ ~Common(k + 1, d, to)
<1> DEFINE T == {k \in Nat : ~Common(k + 1, d, to)}
<1>1. Len(d) \in Nat /\ Len(to) \in Nat
  BY LenProperties
<1>2. Len(d) \in T
  BY <1>1 DEF Common
<1>3. PICK k \in T : \A y \in T : k <= y
  <2> HIDE DEF T
  <2>1. T \subseteq Nat
    BY DEF T
  <2> QED BY <1>2, <2>1, LeastNatural
<1>4. k \in 0..Len(d)
  BY <1>1, <1>2, <1>3
<1>5. CASE k = 0
  BY <1>1, <1>3, <1>5 DEF Common
<1>6. CASE k # 0
  <2>1. k - 1 \in Nat /\ k - 1 < k /\ (k - 1) + 1 = k
    BY <1>4, <1>6
  <2>2. k - 1 \notin T
    BY <1>3, <2>1
  <2>3. Common(k, d, to)
    BY <2>1, <2>2
  <2> QED BY <1>3, <1>4, <2>3
<1> QED BY <1>5, <1>6

Specifiers == [up : Nat, down : Seq(Part)]

(* A specifier is written so that it reads back as its target, from any       *)
(* module of the same directory.                                             *)
LEMMA RelativeResolves ==
  ASSUME NEW from \in Paths, NEW to \in Paths
  PROVE  /\ Resolve(from, Relative(from, to)) = to
         /\ Relative(from, to) \in Specifiers
<1>1. from \in Seq(Part) /\ from # << >> /\ to \in Seq(Part)
  BY DEF Paths
<1>2. Len(from) \in Nat /\ Len(from) >= 1 /\ Len(to) \in Nat
  BY <1>1, EmptySeq, LenProperties
<1>3. \A i \in 1..(Len(from) - 1) : from[i] \in Part
  BY <1>1, <1>2, LenProperties
<1>4. Dir(from) \in Seq(Part)
  BY <1>1, <1>2, <1>3, SubSeqProperties DEF Dir
<1> DEFINE P(k) == Common(k, Dir(from), to) /\ ~Common(k + 1, Dir(from), to)
           c == CHOOSE k \in 0..Len(Dir(from)) : P(k)
<1>5. c \in 0..Len(Dir(from)) /\ P(c)
  <2>1. \E k \in 0..Len(Dir(from)) : P(k)
    BY <1>1, <1>4, LastCommon
  <2> HIDE DEF P
  <2> QED BY <2>1
<1>6. Relative(from, to) = RelativeVia(c, from, to)
  BY DEF Relative
<1>7. Resolve(from, RelativeVia(c, from, to)) = to
  <2> HIDE DEF c
  <2> QED BY <1>1, <1>5, RelativeRoundTrip
<1>8. Len(Dir(from)) \in Nat
  BY <1>4, LenProperties
<1>9. RelativeVia(c, from, to) \in Specifiers
  <2>1. c \in Nat /\ c <= Len(Dir(from)) /\ c <= Len(to)
    BY <1>5, <1>8 DEF Common
  <2>2. Len(Dir(from)) - c \in Nat
    BY <2>1, <1>8
  <2> HIDE DEF c
  <2>3. \A i \in (c + 1)..Len(to) : to[i] \in Part
    BY <2>1, <1>1, <1>2, LenProperties
  <2>4. SubSeq(to, c + 1, Len(to)) \in Seq(Part)
    BY <2>1, <2>3, <1>1, <1>2, SubSeqProperties
  <2> QED BY <2>2, <2>4 DEF RelativeVia, Specifiers
<1> QED BY <1>6, <1>7, <1>9

-----------------------------------------------------------------------------
(* Names *)

(* A suffix goes into the last part of a path. *)
LEMMA SuffixedPath ==
  ASSUME NEW path \in Paths, NEW n \in Nat
  PROVE  Suffixed(path, n) \in Paths /\ Len(Suffixed(path, n)) = Len(path)
<1>1. path \in Seq(Part) /\ path # << >>
  BY DEF Paths
<1>2. Len(path) \in Nat /\ Len(path) >= 1
  BY <1>1, EmptySeq, LenProperties
<1>3. path[Len(path)] \in Part
  BY <1>1, <1>2, ElementOfSeq
<1> DEFINE e == [path[Len(path)] EXCEPT !.tags = Append(@, n)]
<1>4. e \in Part
  BY <1>3, AppendProperties DEF Part
<1>5. Suffixed(path, n) = [path EXCEPT ![Len(path)] = e]
  BY DEF Suffixed
<1> HIDE DEF e
<1>6. Len(path) \in 1..Len(path)
  BY <1>2
<1>7. [path EXCEPT ![Len(path)] = e] \in Seq(Part) /\ Len([path EXCEPT ![Len(path)] = e]) = Len(path)
  BY <1>1, <1>4, <1>6, ExceptSeq
<1>8. Suffixed(path, n) # << >>
  BY <1>2, <1>5, <1>7, EmptySeq
<1> QED BY <1>5, <1>7, <1>8 DEF Paths

(* dedup_filename returns a path nobody has, of the length of what it was given. *)
LEMMA FreeName ==
  ASSUME NEW path \in Paths, NEW taken, NEW name, FirstFree(name, path, taken)
  PROVE  name \in Paths /\ Len(name) = Len(path) /\ CaseKey(name) \notin taken
<1>1. CASE name = path
  BY <1>1 DEF FirstFree
<1>2. CASE name # path
  <2>1. PICK n \in 2..(Cardinality(taken) + 2) : name = Suffixed(path, n)
    BY <1>2 DEF FirstFree
  <2>2. n \in Nat
    BY <2>1
  <2> QED BY <2>1, <2>2, SuffixedPath DEF FirstFree
<1> QED BY <1>1, <1>2

(* The last part of a path, alone. *)
LEMMA LastPart ==
  ASSUME NEW path \in Paths
  PROVE  <<path[Len(path)]>> \in Paths
<1>1. path \in Seq(Part) /\ path # << >>
  BY DEF Paths
<1>2. Len(path) \in Nat /\ Len(path) >= 1
  BY <1>1, EmptySeq, LenProperties
<1>3. path[Len(path)] \in Part
  BY <1>1, <1>2, ElementOfSeq
<1> QED BY <1>3 DEF Paths

(* Below a path is another path, and a longer one. *)
LEMMA ChildPath ==
  ASSUME NEW p \in Paths, NEW q \in Paths
  PROVE  p \o q \in Paths /\ Len(p \o q) = Len(p) + Len(q) /\ Len(p) > 0
<1>1. p \in Seq(Part) /\ p # << >> /\ q \in Seq(Part)
  BY DEF Paths
<1>2. Len(p) \in Nat /\ Len(p) >= 1 /\ Len(q) \in Nat
  BY <1>1, EmptySeq, LenProperties
<1>3. p \o q \in Seq(Part) /\ Len(p \o q) = Len(p) + Len(q)
  BY <1>1, ConcatProperties
<1>4. p \o q # << >>
  BY <1>2, <1>3, EmptySeq
<1> QED BY <1>2, <1>3, <1>4 DEF Paths

KeysApart(ms) == \A i, j \in DOMAIN ms : i # j => CaseKey(ms[i].file) # CaseKey(ms[j].file)

(* build_rename_map keeps names apart: a recovered name is nobody else's     *)
(* recovered name, and nobody else's provisional one.                        *)
LEMMA FinalNamesApart ==
  ASSUME NEW ms, NEW s, KeysApart(ms)
  PROVE  \A i, j \in DOMAIN ms :
           i # j => CaseKey(FinalNames(ms, s)[i]) # CaseKey(FinalNames(ms, s)[j])
<1> DEFINE R == Renamed(ms, s)
<1>1. ASSUME NEW i \in DOMAIN ms
      PROVE  FinalNames(ms, s)[i] = IF i \in R THEN Recovered(s[i]) ELSE ms[i].file
  BY <1>1 DEF FinalNames
<1>2. ASSUME NEW i \in R
      PROVE  i \in DOMAIN ms /\ Candidate(ms, s, i) /\ Unclaimed(ms, s, i)
  BY <1>2 DEF Renamed
<1>3. ASSUME NEW i \in R, NEW k \in DOMAIN ms, i # k
      PROVE  /\ CaseKey(Recovered(s[i])) # CaseKey(ms[k].file)
             /\ k \in R => CaseKey(Recovered(s[i])) # CaseKey(Recovered(s[k]))
  <2>1. Unclaimed(ms, s, i) /\ i \in DOMAIN ms
    BY <1>3, <1>2
  <2>2. k \in R => Candidate(ms, s, k)
    BY <1>2
  <2>3. CaseKey(ms[i].file) # CaseKey(ms[k].file)
    BY <1>3, <2>1 DEF KeysApart
  <2> QED BY <1>3, <2>1, <2>2, <2>3 DEF Unclaimed
<1> SUFFICES ASSUME NEW i \in DOMAIN ms, NEW j \in DOMAIN ms, i # j
             PROVE  CaseKey(FinalNames(ms, s)[i]) # CaseKey(FinalNames(ms, s)[j])
  OBVIOUS
<1>4. i \in R => /\ CaseKey(Recovered(s[i])) # CaseKey(ms[j].file)
                 /\ j \in R => CaseKey(Recovered(s[i])) # CaseKey(Recovered(s[j]))
  BY <1>3
<1>5. j \in R => CaseKey(Recovered(s[j])) # CaseKey(ms[i].file)
  BY <1>3
<1>6. CaseKey(ms[i].file) # CaseKey(ms[j].file)
  BY DEF KeysApart
<1> HIDE DEF R
<1> QED BY <1>1, <1>4, <1>5, <1>6

-----------------------------------------------------------------------------
(* The modules of an input, in the job a state is at. *)

Suggestible(m) == m.suggests # NoName => Recovered(m.suggests) \in Paths \cup {NoPath}

Fit(ins) ==
  /\ ins \in Seq(Pushes)
  /\ \A i \in DOMAIN ins :
       /\ ins[i].form \in Forms \ Failing
       /\ ins[i].modules # << >>
       /\ \A a, b \in DOMAIN ins[i].modules :
            a # b => ins[i].modules[a].orig # ins[i].modules[b].orig
       /\ \A a \in DOMAIN ins[i].modules : Suggestible(ins[i].modules[a])

LEMMA InputFields ==
  ASSUME NEW ins, Fit(ins), NEW i \in DOMAIN ins
  PROVE  /\ ins[i] \in Pushes
         /\ ins[i].file \in Paths
         /\ ins[i].modules \in Seq(Pieces)
         /\ ins[i].form \in {"plain", "facade", "bundle"}
<1>1. ins[i] \in Pushes
  BY ElementOfSeq DEF Fit
<1> QED BY <1>1 DEF Fit, Pushes, Forms, Failing

LEMMA WholePiece ==
  ASSUME NEW file \in Paths, NEW input \in Pushes, NEW part \in BOOLEAN
  PROVE  /\ Whole(file, input, part) \in Pieces
         /\ Whole(file, input, part).orig = file
         /\ Whole(file, input, part).entry = part
         /\ Whole(file, input, part).suggests = NoName
<1> DEFINE A == UNION {m.authored : m \in {input.modules[k] : k \in DOMAIN input.modules}}
           h == \A k \in DOMAIN input.modules : input.modules[k].helper
<1>1. input.modules \in Seq(Pieces)
  BY DEF Pushes
<1>2. \A k \in DOMAIN input.modules : input.modules[k] \in Pieces
  BY <1>1, ElementOfSeq
<1>3. \A k \in DOMAIN input.modules : input.modules[k].authored \subseteq Paths
  BY <1>2 DEF Pieces
<1>4. A \in SUBSET Paths
  BY <1>3
<1>5. Whole(file, input, part)
        = [orig |-> file, entry |-> part, own |-> {}, suggests |-> NoName, helper |-> h,
           authored |-> A]
  BY DEF Whole
<1>6. h \in BOOLEAN
  OBVIOUS
<1> HIDE DEF A, h
<1> QED BY <1>4, <1>5, <1>6 DEF Pieces

(* An input becomes modules of different names, of which one at most is at the *)
(* path of a chunk; what stays whole is one module of the input's own name.   *)
LEMMA ModulesOfInput ==
  ASSUME NEW ins, Fit(ins), NEW raw \in BOOLEAN, NEW i \in DOMAIN ins
  PROVE  LET ms == ModulesOf(ins, raw, i)
         IN  /\ ms \in Seq(Pieces)
             /\ ms # << >>
             /\ \A a, b \in DOMAIN ms : a # b => ms[a].orig # ms[b].orig
             /\ \A a \in DOMAIN ms : Suggestible(ms[a])
             /\ i \in Facades(ins, raw) =>
                  \A a, b \in DOMAIN ms : ms[a].entry /\ ms[b].entry => a = b
             /\ i \in Planned(ins, raw) =>
                  \/ i \in Facades(ins, raw) /\ ms = ins[i].modules
                  \/ /\ Len(ms) = 1 /\ ms[1].orig = ins[i].file
                     /\ i \in Facades(ins, raw) => ms[1].entry
<1> DEFINE ms == ModulesOf(ins, raw, i)
           last == <<ins[i].file[Len(ins[i].file)]>>
<1>1. /\ ins[i] \in Pushes /\ ins[i].file \in Paths /\ ins[i].modules \in Seq(Pieces)
      /\ ins[i].form \in {"plain", "facade", "bundle"}
  BY InputFields
<1>2. ASSUME NEW w \in Pieces, w.suggests = NoName
      PROVE  /\ <<w>> \in Seq(Pieces) /\ <<w>> # << >> /\ Len(<<w>>) = 1 /\ <<w>>[1] = w
             /\ \A a \in DOMAIN <<w>> : a = 1
             /\ \A a \in DOMAIN <<w>> : Suggestible(<<w>>[a])
  BY <1>2 DEF Suggestible
<1>3. CASE ins[i].form = "plain"
  <2> DEFINE file == IF i \in Planned(ins, raw) THEN ins[i].file ELSE last
             w == Whole(file, ins[i], FALSE)
  <2>1. file \in Paths
    BY <1>1, LastPart
  <2>2. w \in Pieces /\ w.orig = file /\ w.suggests = NoName
    <3> HIDE DEF file
    <3> QED BY <1>1, <2>1, WholePiece
  <2>3. i \notin Facades(ins, raw)
    BY <1>3 DEF Facades
  <2>4. ms = <<w>>
    BY <1>3, <2>3 DEF ModulesOf
  <2>5. i \in Planned(ins, raw) => w.orig = ins[i].file
    BY <2>2
  <2> HIDE DEF w
  <2> QED BY <2>2, <2>3, <2>4, <2>5, <1>2
<1>4. CASE i \in Facades(ins, raw) /\ Cardinality(Entries(ins[i])) # 1
  <2> DEFINE w == Whole(ins[i].file, ins[i], TRUE)
  <2>1. w \in Pieces /\ w.orig = ins[i].file /\ w.suggests = NoName /\ w.entry
    BY <1>1, WholePiece
  <2>2. ins[i].form # "plain"
    BY <1>4 DEF Facades
  <2>3. ms = <<w>>
    BY <1>4, <2>2 DEF ModulesOf
  <2> HIDE DEF w
  <2> QED BY <1>4, <2>1, <2>3, <1>2
<1>5. CASE /\ ins[i].form # "plain"
           /\ ~(i \in Facades(ins, raw) /\ Cardinality(Entries(ins[i])) # 1)
  <2>1. ms = ins[i].modules
    BY <1>5 DEF ModulesOf
  <2>2. i \in Planned(ins, raw) => i \in Facades(ins, raw)
    BY <1>5 DEF Planned, Facades
  <2>3. ASSUME i \in Facades(ins, raw)
        PROVE  \A a, b \in DOMAIN ms : ms[a].entry /\ ms[b].entry => a = b
    <3>1. Cardinality(Entries(ins[i])) = 1
      BY <1>5, <2>3
    <3>2. Len(ins[i].modules) \in Nat /\ DOMAIN ins[i].modules = 1..Len(ins[i].modules)
      BY <1>1, LenProperties
    <3>3. IsFiniteSet(1..Len(ins[i].modules))
      BY <3>2, FS_Interval
    <3>4. IsFiniteSet(Entries(ins[i]))
      BY <3>2, <3>3, FS_Subset DEF Entries
    <3>5. PICK x : Entries(ins[i]) = {x}
      BY <3>1, <3>4, FS_Singleton
    <3> QED BY <2>1, <3>5 DEF Entries
  <2> QED BY <1>1, <2>1, <2>2, <2>3 DEF Fit
<1> HIDE DEF ms
<1>6. QED
  <2>1. ms = ModulesOf(ins, raw, i)
    BY DEF ms
  <2> QED BY <1>3, <1>4, <1>5, <2>1

(* A module that keeps the path of its input. *)
Keeper(ins, raw, m) ==
  /\ m.input \in Planned(ins, raw)
  /\ m.entry \/ m.input \notin Facades(ins, raw)

(* What the modules of the merge are: pieces of the inputs, no piece twice. *)
Gathered(ins, raw, ms) ==
  /\ ms \in Seq(Modules)
  /\ \A k \in DOMAIN ms :
       /\ ms[k].input \in DOMAIN ins
       /\ ms[k].nth \in DOMAIN ModulesOf(ins, raw, ms[k].input)
       /\ LET piece == ModulesOf(ins, raw, ms[k].input)[ms[k].nth]
          IN  /\ ms[k].orig = piece.orig /\ ms[k].entry = piece.entry
              /\ ms[k].own = piece.own /\ ms[k].authored = piece.authored
              /\ ms[k].suggests = piece.suggests
  /\ \A j, k \in DOMAIN ms : ms[j].input = ms[k].input /\ ms[j].nth = ms[k].nth => j = k

(* Where they are until recovery: a keeper at its input's path, the other      *)
(* modules of a chunk at least as deep as below it.                          *)
Seated(ins, raw, ms) ==
  \A k \in DOMAIN ms :
    /\ Keeper(ins, raw, ms[k]) => ms[k].file = ins[ms[k].input].file
    /\ ms[k].input \in Facades(ins, raw) /\ ~ms[k].entry =>
         Len(ms[k].file) = Len(ins[ms[k].input].file) + Len(ms[k].orig)
    /\ ms[k].merged = ms[k].file

LEMMA ModuleFields ==
  ASSUME NEW ms \in Seq(Modules), NEW k \in DOMAIN ms
  PROVE  /\ ms[k] \in Modules
         /\ ms[k].file \in Paths /\ ms[k].orig \in Paths /\ ms[k].merged \in Paths
         /\ ms[k].entry \in BOOLEAN /\ ms[k].authored \subseteq Paths
<1>1. ms[k] \in Modules
  BY ElementOfSeq
<1> QED BY <1>1 DEF Modules

(* Two modules of an input had different names there. *)
LEMMA OrigsApart ==
  ASSUME NEW ins, Fit(ins), NEW raw \in BOOLEAN, NEW ms, Gathered(ins, raw, ms),
         NEW a \in DOMAIN ms, NEW b \in DOMAIN ms, ms[a].input = ms[b].input,
         ms[a].orig = ms[b].orig
  PROVE  a = b
<1>1. ms[a].input \in DOMAIN ins
  BY DEF Gathered
<1> DEFINE ps == ModulesOf(ins, raw, ms[a].input)
<1>2. \A x, y \in DOMAIN ps : x # y => ps[x].orig # ps[y].orig
  BY <1>1, ModulesOfInput
<1>3. /\ ms[a].nth \in DOMAIN ps /\ ms[b].nth \in DOMAIN ps
      /\ ms[a].orig = ps[ms[a].nth].orig /\ ms[b].orig = ps[ms[b].nth].orig
  BY DEF Gathered
<1>4. ms[a].nth = ms[b].nth
  BY <1>2, <1>3
<1> QED BY <1>4 DEF Gathered

(* A specifier that names a sibling follows it, whoever wrote it. *)
LEMMA FollowedNamed ==
  ASSUME NEW ins, Fit(ins), NEW raw \in BOOLEAN, NEW ms, Gathered(ins, raw, ms),
         NEW a \in DOMAIN ms, NEW b \in Siblings(ms, ms[a]), NEW old \in Specifiers,
         Resolve(ms[a].orig, old) = ms[b].orig
  PROVE  LET spec == Followed(ins, raw, ms, ms[a], old)
         IN  spec \in Specifiers /\ Resolve(ms[a].file, spec) = ms[b].file
<1> DEFINE named == {k \in Siblings(ms, ms[a]) : ms[k].orig = Resolve(ms[a].orig, old)}
           spec == Followed(ins, raw, ms, ms[a], old)
<1>1. ms \in Seq(Modules) /\ b \in DOMAIN ms
  BY DEF Gathered, Siblings
<1>2. /\ ms[a].file \in Paths /\ ms[a].orig \in Paths
      /\ ms[b].file \in Paths /\ ms[b].orig \in Paths
  BY <1>1, ModuleFields
<1>3. a \in Siblings(ms, ms[a])
  BY DEF Siblings
<1>4. named = {b}
  BY OrigsApart DEF Siblings
<1>5. CASE \A k \in Siblings(ms, ms[a]) : ms[k].file = ms[k].orig
  <2>1. spec = old
    BY <1>5 DEF Followed
  <2> QED BY <1>3, <1>5, <2>1
<1>6. CASE ~\A k \in Siblings(ms, ms[a]) : ms[k].file = ms[k].orig
  <2>1. spec = Relative(ms[a].file, ms[CHOOSE k \in named : TRUE].file)
    <3>1. named # {}
      BY <1>4
    <3> QED BY <1>6, <3>1 DEF Followed
  <2>2. (CHOOSE k \in named : TRUE) = b
    BY <1>4
  <2>3. spec = Relative(ms[a].file, ms[b].file)
    BY <2>1, <2>2
  <2> QED BY <1>2, <2>3, RelativeResolves
<1> QED BY <1>5, <1>6

(* A reference to another input's path, unless it names a sibling, leads to it *)
(* from where its module is: at its input's own path, or below a chunk's,     *)
(* from where it is formed anew.                                             *)
LEMMA FollowedAuthored ==
  ASSUME NEW ins, Fit(ins), NEW raw \in BOOLEAN, NEW ms, Gathered(ins, raw, ms),
         Seated(ins, raw, ms), NEW a \in DOMAIN ms, ms[a].input \in Planned(ins, raw),
         NEW path \in ms[a].authored,
         \A k \in Siblings(ms, ms[a]) :
           ms[k].orig # Resolve(ms[a].orig, Relative(ins[ms[a].input].file, path))
  PROVE  LET spec == Followed(ins, raw, ms, ms[a], Relative(ins[ms[a].input].file, path))
         IN  spec \in Specifiers /\ Resolve(ms[a].file, spec) = path
<1> DEFINE i == ms[a].input
           own == ins[i].file
           old == Relative(own, path)
           named == {k \in Siblings(ms, ms[a]) : ms[k].orig = Resolve(ms[a].orig, old)}
           spec == Followed(ins, raw, ms, ms[a], old)
           ps == ModulesOf(ins, raw, i)
<1>1. ms \in Seq(Modules) /\ i \in DOMAIN ins
  BY DEF Gathered
<1>2. /\ ms[a].file \in Paths /\ ms[a].orig \in Paths /\ path \in Paths /\ own \in Paths
      /\ ms[a].entry \in BOOLEAN
  BY <1>1, ModuleFields, InputFields
<1>3. Resolve(own, old) = path /\ old \in Specifiers
  BY <1>2, RelativeResolves
<1>4. path # NoPath
  BY <1>2, PathAssumption
<1>5. a \in Siblings(ms, ms[a])
  BY DEF Siblings
<1>6. \A k \in Siblings(ms, ms[a]) :
        k \in DOMAIN ms /\ ms[k].nth \in DOMAIN ps /\ ms[k].orig = ps[ms[k].nth].orig
  BY DEF Siblings, Gathered
<1>7. \/ i \in Facades(ins, raw) /\ ps = ins[i].modules
      \/ /\ Len(ps) = 1 /\ ps[1].orig = own
         /\ i \in Facades(ins, raw) => ps[1].entry
  BY <1>1, ModulesOfInput
<1>8. CASE Len(ps) = 1 /\ ps[1].orig = own /\ (i \in Facades(ins, raw) => ps[1].entry)
  <2>1. ps \in Seq(Pieces)
    BY <1>1, ModulesOfInput
  <2>2. DOMAIN ps = {1}
    <3>1. DOMAIN ps = 1..1
      BY <2>1, <1>8, LenProperties
    <3> QED BY <3>1
  <2>3. ms[a].nth = 1 /\ ms[a].entry = ps[1].entry
    BY <1>5, <1>6, <2>2 DEF Gathered
  <2>4. Keeper(ins, raw, ms[a])
    BY <1>8, <2>3 DEF Keeper
  <2>5. ms[a].file = own
    BY <2>4 DEF Seated
  <2>6. \A k \in Siblings(ms, ms[a]) : k = a
    BY <1>6, <2>2, <2>3 DEF Siblings, Gathered
  <2>7. ms[a].orig = own
    BY <1>5, <1>6, <1>8, <2>3
  <2>8. spec = old
    BY <2>5, <2>6, <2>7 DEF Followed
  <2> QED BY <1>3, <2>5, <2>8
<1>9. CASE i \in Facades(ins, raw) /\ ps = ins[i].modules
  <2>2. named = {}
    OBVIOUS
  <2>3. CASE ms[a].entry
    <3>1. ms[a].file = own
      BY <2>3 DEF Seated, Keeper
    <3>2. spec = old
      BY <2>2, <2>3 DEF Followed
    <3> QED BY <1>3, <3>1, <3>2
  <2>4. CASE ~ms[a].entry
    <3>1. Len(ms[a].file) = Len(own) + Len(ms[a].orig)
      BY <1>9, <2>4 DEF Seated
    <3>2. Len(own) > 0 /\ Len(own) \in Nat /\ Len(ms[a].orig) \in Nat
      <4>1. own \in Seq(Part) /\ ms[a].orig \in Seq(Part)
        BY <1>2 DEF Paths
      <4>2. Len(own) > 0
        BY <1>2, ChildPath
      <4> HIDE DEF own
      <4> QED BY <4>1, <4>2, LenProperties
    <3>3. ms[a].file # ms[a].orig
      <4> HIDE DEF own
      <4>1. Len(ms[a].file) # Len(ms[a].orig)
        BY <3>1, <3>2
      <4> QED BY <4>1
    <3>4. ~\A k \in Siblings(ms, ms[a]) : ms[k].file = ms[k].orig
      BY <1>5, <3>3
    <3>5. spec = Relative(ms[a].file, path)
      BY <1>3, <1>4, <1>9, <2>2, <2>4, <3>4 DEF Followed
    <3> QED BY <1>2, <3>5, RelativeResolves
  <2> QED BY <1>2, <2>3, <2>4
<1> QED BY <1>7, <1>8, <1>9

-----------------------------------------------------------------------------
(* Recovery *)

Suggests(ms) == [k \in DOMAIN ms |-> ms[k].suggests]

LEMMA FinalPaths ==
  ASSUME NEW ms \in Seq(Modules), \A k \in DOMAIN ms : Suggestible(ms[k]),
         NEW k \in DOMAIN ms
  PROVE  FinalNames(ms, Suggests(ms))[k] \in Paths
<1> DEFINE s == Suggests(ms)
<1>1. ms[k].file \in Paths
  BY ModuleFields
<1>2. s[k] = ms[k].suggests
  BY DEF Suggests
<1>3. k \in Renamed(ms, s) => Recovered(s[k]) \in Paths
  BY <1>2 DEF Renamed, Candidate, Suggestible
<1>4. FinalNames(ms, s)[k] = IF k \in Renamed(ms, s) THEN Recovered(s[k]) ELSE ms[k].file
  BY DEF FinalNames
<1> QED BY <1>1, <1>3, <1>4

(* A specifier that resolved goes on to, unless its module moves to another   *)
(* directory and its target stays.                                           *)
LEMMA RecoveredEdge ==
  ASSUME NEW ms \in Seq(Modules), KeysApart(ms), \A k \in DOMAIN ms : Suggestible(ms[k]),
         NEW a \in DOMAIN ms, NEW b \in DOMAIN ms, NEW spec \in Specifiers,
         Resolve(ms[a].file, spec) = ms[b].file
  PROVE  LET final == FinalNames(ms, Suggests(ms))
             new == Rewrite(ms, final, a, spec)
         IN  /\ new \in Specifiers
             /\ \/ Resolve(final[a], new) = final[b]
                \/ Dir(final[a]) # Dir(ms[a].file) /\ final[b] = ms[b].file
<1> DEFINE final == FinalNames(ms, Suggests(ms))
           new == Rewrite(ms, final, a, spec)
           renamed == {i \in DOMAIN ms : /\ ms[i].file = Resolve(ms[a].file, spec)
                                         /\ final[i] # ms[i].file}
<1>1. final[a] \in Paths /\ final[b] \in Paths
  BY FinalPaths
<1>2. \A i \in renamed : i = b
  BY DEF KeysApart
<1>3. CASE final[b] = ms[b].file
  <2>1. renamed = {}
    BY <1>2, <1>3
  <2>2. new = spec
    BY <2>1 DEF Rewrite
  <2>3. Dir(final[a]) = Dir(ms[a].file) => Resolve(final[a], spec) = Resolve(ms[a].file, spec)
    BY DEF Resolve
  <2> QED BY <1>3, <2>2, <2>3
<1>4. CASE final[b] # ms[b].file
  <2>1. renamed = {b}
    BY <1>2, <1>4
  <2>2. (CHOOSE i \in renamed : TRUE) = b
    BY <2>1
  <2>3. new = Relative(final[a], final[b])
    BY <2>1, <2>2 DEF Rewrite
  <2>4. new \in Specifiers /\ Resolve(final[a], new) = final[b]
    <3> HIDE DEF final, new
    <3> QED BY <1>1, <2>3, RelativeResolves
  <2> QED BY <2>4
<1> QED BY <1>3, <1>4

-----------------------------------------------------------------------------
(* The inductive invariant. *)

(* Reports are in the order of pushes, one for each that did not fail. *)
PushInv ==
  /\ \A id \in DOMAIN reports : reports[id].push \in DOMAIN job.pushes
  /\ \A i, j \in DOMAIN reports : i < j => reports[i].push < reports[j].push
  /\ \A id \in DOMAIN reports : stage = "push" => reports[id].push < at
  /\ \A p \in DOMAIN job.pushes :
       (\E id \in DOMAIN reports : reports[id].push = p)
         <=> job.pushes[p].form \notin Failing /\ (stage = "push" => p < at)

Doomed(push) == push.form = "plain" /\ push.policy = "Error"

(* The actions of inputs the core processes. *)
Split == {"Unpacked", "Processed"}

(* What is kept has a report, and what has one is kept, skipped or dooms the   *)
(* job.                                                                      *)
KeptInv ==
  /\ \A i \in DOMAIN processed :
       /\ processed[i].push = reports[processed[i].id].push
       /\ reports[processed[i].id].action \in Split
  /\ \A i \in DOMAIN preserved :
       /\ preserved[i].push = reports[preserved[i].id].push
       /\ reports[preserved[i].id].action = "Preserved"
  /\ \A id \in DOMAIN reports :
       /\ Doomed(job.pushes[reports[id].push]) => unmatched
       /\ \/ reports[id].action = "Skipped"
          \/ unmatched
          \/ \E i \in DOMAIN processed : processed[i].id = id
          \/ \E i \in DOMAIN preserved : preserved[i].id = id
  /\ stage \notin {"push", "failed"} => ~unmatched

Merging == {"expand", "name", "rewrite", "recover", "eliminate", "convert"}

(* Which modules there are.  *)
MergeInv ==
  /\ stage \in {"push", "plan"} => mods = << >>
  /\ stage \in {"plan", "rewrite", "recover", "eliminate"} => at = 1
  /\ stage \in Merging =>
       /\ Gathered(Ins, job.raw, mods)
       /\ \A i \in DOMAIN Ins :
            (stage = "expand" => i < at) => \E k \in DOMAIN mods : mods[k].input = i
  /\ stage = "expand" => \A k \in DOMAIN mods : mods[k].input < at
  /\ stage \in {"expand", "name"} => ~Ambiguous(Ins, job.raw)
  /\ stage \in Merging \ {"eliminate", "convert"} => Seated(Ins, job.raw, mods)

Settled(k) == k < at \/ Keeper(Ins, job.raw, mods[k])

(* Names given, and the paths of inputs, are taken and apart. *)
NameInv ==
  /\ stage = "name" =>
       /\ \A i \in Planned(Ins, job.raw) : CaseKey(Ins[i].file) \in seen
       /\ \A k \in DOMAIN mods : k < at => CaseKey(mods[k].file) \in seen
       /\ \A j, k \in DOMAIN mods :
            j # k /\ Settled(j) /\ Settled(k) => CaseKey(mods[j].file) # CaseKey(mods[k].file)
  /\ stage \in {"rewrite", "recover", "eliminate", "convert"} => KeysApart(mods)

EdgeInv ==
  /\ stage = "recover" =>
       \A k \in DOMAIN mods : \A l \in mods[k].links :
         /\ l.to \in DOMAIN mods
         /\ \A t \in DOMAIN mods : LeadsTo(k, l, t) => Resolve(mods[k].file, l.spec) = mods[t].file
  /\ EdgesResolve

(* The output is listed by the reports, under names that are apart. *)
Listed ==
  /\ KeysApart(out)
  /\ \A k \in DOMAIN out : out[k].push = reports[out[k].id].push
  /\ \A k \in DOMAIN out : reports[out[k].id].action # "Skipped"
  /\ \A id \in DOMAIN reports : reports[id].modules = {k \in DOMAIN out : out[k].id = id}

Output == {"convert", "preserve", "done"}

OutInv ==
  /\ stage \notin Output => out = << >>
  /\ stage \in Output => Listed
  /\ stage \in {"preserve", "done"} =>
       \A i \in DOMAIN preserved :
         (stage = "preserve" => i < at) => \E k \in DOMAIN out : out[k].id = preserved[i].id

(* The modules elimination left, as far as the loop over them is. *)
Converted == {k \in DOMAIN mods \ dropped : stage = "convert" => k < at}

(* The module o of the output is what the module k of the merge became. *)
Became(k, o) ==
  /\ out[o].file = mods[k].file
  /\ out[o].id = processed[mods[k].input].id

(* What the output has of the inputs that were processed. *)
LeftInv ==
  stage \in Output =>
    /\ \A i \in DOMAIN processed : \E k \in DOMAIN mods : mods[k].input = i
    /\ \A k \in Converted : \E o \in DOMAIN out : Became(k, o)
    /\ \A o \in DOMAIN out :
         reports[out[o].id].action \in Split => \E k \in Converted : Became(k, o)
    /\ stage = "convert" => \A o \in DOMAIN out : reports[out[o].id].action \in Split

IInv ==
  TypeOK /\ PushInv /\ KeptInv /\ MergeInv /\ NameInv /\ EdgeInv /\ OutInv /\ LeftInv

LEMMA InitInv == Init => IInv
<1> SUFFICES ASSUME Init PROVE IInv
  OBVIOUS
<1>1. /\ reports = << >> /\ processed = << >> /\ preserved = << >>
      /\ mods = << >> /\ out = << >>
      /\ stage = "push" /\ at = 1 /\ job \in Jobs /\ unmatched = FALSE /\ dropped = {}
  BY DEF Init
<1>2. DOMAIN << >> = {}
  OBVIOUS
<1>3. TypeOK
  <2>1. /\ << >> \in Seq(Reports) /\ << >> \in Seq(Inputs) /\ << >> \in Seq(Modules)
        /\ << >> \in Seq(Outputs)
    BY EmptySeq
  <2>2. stage \in Stages /\ at \in Nat \ {0}
    BY <1>1 DEF Stages
  <2>5. unmatched \in BOOLEAN
    BY <1>1
  <2>3. /\ reports \in Seq(Reports) /\ processed \in Seq(Inputs) /\ preserved \in Seq(Inputs)
        /\ mods \in Seq(Modules) /\ out \in Seq(Outputs)
    BY <1>1, <2>1
  <2>4. DOMAIN reports = {} /\ DOMAIN processed = {} /\ DOMAIN preserved = {}
        /\ DOMAIN mods = {} /\ DOMAIN out = {}
    BY <1>1, <1>2
  <2> QED BY <1>1, <2>2, <2>3, <2>4, <2>5 DEF TypeOK
<1>4. job.pushes \in Seq(Pushes)
  BY <1>1, JobsAssumption
<1>5. \A p \in DOMAIN job.pushes : ~(p < 1)
  BY <1>4, LenProperties
<1>6. PushInv /\ KeptInv
  BY <1>1, <1>2, <1>5 DEF PushInv, KeptInv
<1>7. MergeInv
  BY <1>1 DEF MergeInv, Merging
<1>8. NameInv /\ EdgeInv /\ OutInv /\ LeftInv
  BY <1>1 DEF NameInv, EdgeInv, EdgesResolve, OutInv, LeftInv, Output
<1> QED BY <1>3, <1>6, <1>7, <1>8 DEF IInv

(* The inputs of the core are pushes that did not fail. *)
LEMMA InputsFit ==
  ASSUME TypeOK, PushInv, KeptInv
  PROVE  /\ Fit(Ins)
         /\ DOMAIN Ins = DOMAIN processed
         /\ \A i \in DOMAIN processed : processed[i].push \in DOMAIN job.pushes
         /\ \A i \in DOMAIN preserved : preserved[i].push \in DOMAIN job.pushes
         /\ job.raw \in BOOLEAN
<1>1. job \in Jobs /\ job.pushes \in Seq(Pushes) /\ job.raw \in BOOLEAN
  BY JobsAssumption DEF TypeOK
<1>2. processed \in Seq(Inputs) /\ DOMAIN processed = 1..Len(processed) /\ Len(processed) \in Nat
  BY LenProperties DEF TypeOK
<1>3. \A i \in DOMAIN processed : processed[i].push \in DOMAIN job.pushes
                                  /\ job.pushes[processed[i].push].form \notin Failing
  <2> SUFFICES ASSUME NEW i \in DOMAIN processed
               PROVE  /\ processed[i].push \in DOMAIN job.pushes
                      /\ job.pushes[processed[i].push].form \notin Failing
    OBVIOUS
  <2>1. processed[i].id \in DOMAIN reports
    BY DEF TypeOK
  <2>2. processed[i].push = reports[processed[i].id].push
    BY DEF KeptInv
  <2>3. processed[i].push \in DOMAIN job.pushes
    BY <2>1, <2>2 DEF PushInv
  <2> QED BY <2>1, <2>2, <2>3 DEF PushInv
<1>4. \A i \in DOMAIN preserved : preserved[i].push \in DOMAIN job.pushes
  BY DEF TypeOK, PushInv, KeptInv
<1>5. DOMAIN Ins = DOMAIN processed /\ \A i \in DOMAIN Ins : Ins[i] = job.pushes[processed[i].push]
  BY DEF Ins
<1>6. \A p \in DOMAIN job.pushes : job.pushes[p] \in Pushes
  BY <1>1, ElementOfSeq
<1>7. Ins \in Seq(Pushes)
  <2>1. Ins \in [1..Len(processed) -> Pushes]
    BY <1>2, <1>3, <1>5, <1>6 DEF Ins
  <2> QED BY <1>2, <2>1, SeqDef
<1>8. ASSUME NEW i \in DOMAIN Ins
      PROVE  /\ Ins[i].form \in Forms \ Failing
             /\ Ins[i].modules # << >>
             /\ \A a, b \in DOMAIN Ins[i].modules :
                  a # b => Ins[i].modules[a].orig # Ins[i].modules[b].orig
             /\ \A a \in DOMAIN Ins[i].modules : Suggestible(Ins[i].modules[a])
  <2> DEFINE p == processed[i].push
  <2>1. /\ p \in DOMAIN job.pushes /\ Ins[i] = job.pushes[p] /\ Ins[i] \in Pushes
        /\ Ins[i].form \notin Failing
    BY <1>3, <1>5, <1>6, <1>8
  <2> HIDE DEF p
  <2>2. Ins[i].form \in Forms
    BY <2>1 DEF Pushes
  <2>3. /\ Ins[i].modules # << >>
        /\ \A a, b \in DOMAIN Ins[i].modules :
             a # b => Ins[i].modules[a].orig # Ins[i].modules[b].orig
        /\ \A a \in DOMAIN Ins[i].modules : Suggestible(Ins[i].modules[a])
    BY <1>1, <2>1, JobsAssumption DEF Suggestible
  <2> QED BY <2>1, <2>2, <2>3
<1> QED BY <1>1, <1>3, <1>4, <1>5, <1>7, <1>8 DEF Fit

(* Before anything is named and after a failure nothing is claimed of names. *)
LEMMA Unnamed ==
  ASSUME stage' \in {"push", "plan", "failed"}, mods' = << >>, out' = << >>,
         stage' = "plan" => at' = 1
  PROVE  MergeInv' /\ NameInv' /\ EdgeInv' /\ OutInv' /\ LeftInv'
<1>1. MergeInv'
  BY DEF MergeInv, Merging
<1>2. NameInv' /\ OutInv' /\ LeftInv'
  BY DEF NameInv, OutInv, LeftInv, Output
<1>3. EdgeInv'
  BY DEF EdgeInv, EdgesResolve
<1> QED BY <1>1, <1>2, <1>3

ActionNames == {"Unpacked", "Skipped", "Processed", "Preserved"}

(* A push that is accepted: its report comes last, and what is kept of it      *)
(* names that report.                                                        *)
LEMMA AcceptInv ==
  ASSUME IInv, NEW a \in ActionNames, Accept(a), job.pushes[at].form \notin Failing,
         \/ processed' = Append(processed, Kept) /\ preserved' = preserved /\ a \in Split
         \/ preserved' = Append(preserved, Kept) /\ processed' = processed /\ a = "Preserved"
         \/ /\ processed' = processed /\ preserved' = preserved
            /\ a = "Skipped" \/ unmatched',
         unmatched' \in BOOLEAN, unmatched => unmatched',
         Doomed(job.pushes[at]) => unmatched'
  PROVE  IInv'
<1> DEFINE n == Len(reports)
           r == [push |-> at, action |-> a, modules |-> {}]
<1>1. /\ TypeOK /\ PushInv /\ KeptInv /\ MergeInv /\ OutInv
  BY DEF IInv
<1>2. /\ stage = "push" /\ at \in DOMAIN job.pushes /\ reports' = Append(reports, r)
      /\ at' = at + 1 /\ stage' = stage /\ job' = job /\ mods' = mods /\ out' = out
      /\ dropped' = dropped
  BY DEF Accept
<1>3. mods = << >> /\ out = << >>
  BY <1>1, <1>2 DEF MergeInv, OutInv, Output
<1>4. /\ reports \in Seq(Reports) /\ n \in Nat /\ DOMAIN reports = 1..n
      /\ at \in Nat \ {0} /\ job \in Jobs
  BY <1>1, LenProperties DEF TypeOK
<1>5. r \in Reports
  BY <1>4 DEF Reports, ActionNames
<1>6. /\ reports' \in Seq(Reports) /\ Len(reports') = n + 1
      /\ \A id \in 1..n : reports'[id] = reports[id]
      /\ reports'[n + 1] = r
  <2> HIDE DEF r
  <2> QED BY <1>2, <1>4, <1>5, AppendProperties
<1>7. DOMAIN reports' = 1..(n + 1)
  BY <1>6, LenProperties
<1>8. r.push = at /\ r.action = a /\ r.modules = {}
  OBVIOUS
<1> HIDE DEF r, n
<1>9. Kept \in Inputs /\ Kept.id = n + 1 /\ Kept.push = at
  BY <1>4 DEF Kept, Inputs, n
<1>10. /\ processed \in Seq(Inputs) /\ preserved \in Seq(Inputs)
       /\ Len(processed) \in Nat /\ DOMAIN processed = 1..Len(processed)
       /\ Len(preserved) \in Nat /\ DOMAIN preserved = 1..Len(preserved)
  BY <1>1, LenProperties DEF TypeOK
<1>11. ASSUME NEW s \in Seq(Inputs), Len(s) \in Nat, DOMAIN s = 1..Len(s)
       PROVE  /\ Append(s, Kept) \in Seq(Inputs)
              /\ DOMAIN Append(s, Kept) = 1..(Len(s) + 1)
              /\ \A i \in 1..Len(s) : Append(s, Kept)[i] = s[i]
              /\ Append(s, Kept)[Len(s) + 1] = Kept
  <2>1. /\ Append(s, Kept) \in Seq(Inputs) /\ Len(Append(s, Kept)) = Len(s) + 1
        /\ \A i \in 1..Len(s) : Append(s, Kept)[i] = s[i]
        /\ Append(s, Kept)[Len(s) + 1] = Kept
    BY <1>9, <1>11, AppendProperties
  <2> QED BY <2>1, LenProperties
(* Either list grows by the new entry at most. *)
<1>12. /\ processed' \in Seq(Inputs)
       /\ \A i \in DOMAIN processed' :
            \/ i \in DOMAIN processed /\ processed'[i] = processed[i]
            \/ processed'[i] = Kept /\ a \in Split
       /\ \A i \in DOMAIN processed : i \in DOMAIN processed' /\ processed'[i] = processed[i]
  <2>1. CASE processed' = processed
    BY <1>10, <2>1
  <2>2. CASE processed' = Append(processed, Kept) /\ a \in Split
    <3>1. /\ processed' \in Seq(Inputs) /\ DOMAIN processed' = 1..(Len(processed) + 1)
          /\ \A i \in 1..Len(processed) : processed'[i] = processed[i]
          /\ processed'[Len(processed) + 1] = Kept
      BY <1>10, <1>11, <2>2
    <3>2. \A i \in DOMAIN processed' : i \in DOMAIN processed \/ i = Len(processed) + 1
      BY <1>10, <3>1
    <3>3. \A i \in DOMAIN processed : i \in DOMAIN processed' /\ processed'[i] = processed[i]
      BY <1>10, <3>1
    <3>4. \A i \in DOMAIN processed' :
            \/ i \in DOMAIN processed /\ processed'[i] = processed[i]
            \/ processed'[i] = Kept /\ a \in Split
      BY <2>2, <3>1, <3>2, <3>3
    <3> QED BY <3>1, <3>3, <3>4
  <2> QED BY <2>1, <2>2
<1>13. /\ preserved' \in Seq(Inputs)
       /\ \A i \in DOMAIN preserved' :
            \/ i \in DOMAIN preserved /\ preserved'[i] = preserved[i]
            \/ preserved'[i] = Kept /\ a = "Preserved"
       /\ \A i \in DOMAIN preserved : i \in DOMAIN preserved' /\ preserved'[i] = preserved[i]
  <2>1. CASE preserved' = preserved
    BY <1>10, <2>1
  <2>2. CASE preserved' = Append(preserved, Kept) /\ a = "Preserved"
    <3>1. /\ preserved' \in Seq(Inputs) /\ DOMAIN preserved' = 1..(Len(preserved) + 1)
          /\ \A i \in 1..Len(preserved) : preserved'[i] = preserved[i]
          /\ preserved'[Len(preserved) + 1] = Kept
      BY <1>10, <1>11, <2>2
    <3>2. \A i \in DOMAIN preserved' : i \in DOMAIN preserved \/ i = Len(preserved) + 1
      BY <1>10, <3>1
    <3>3. \A i \in DOMAIN preserved : i \in DOMAIN preserved' /\ preserved'[i] = preserved[i]
      BY <1>10, <3>1
    <3>4. \A i \in DOMAIN preserved' :
            \/ i \in DOMAIN preserved /\ preserved'[i] = preserved[i]
            \/ preserved'[i] = Kept /\ a = "Preserved"
      BY <2>2, <3>1, <3>2, <3>3
    <3> QED BY <3>1, <3>3, <3>4
  <2> QED BY <2>1, <2>2
(* One of them grows unless the input is skipped or dooms the job. *)
<1>14. \/ a = "Skipped"
       \/ unmatched'
       \/ \E i \in DOMAIN processed' : processed'[i].id = n + 1
       \/ \E i \in DOMAIN preserved' : preserved'[i].id = n + 1
  <2>1. CASE processed' = Append(processed, Kept)
    <3>1. /\ DOMAIN processed' = 1..(Len(processed) + 1)
          /\ processed'[Len(processed) + 1] = Kept
      BY <1>10, <1>11, <2>1
    <3>2. Len(processed) + 1 \in 1..(Len(processed) + 1)
      BY <1>10
    <3> QED BY <1>9, <3>1, <3>2
  <2>2. CASE preserved' = Append(preserved, Kept)
    <3>1. /\ DOMAIN preserved' = 1..(Len(preserved) + 1)
          /\ preserved'[Len(preserved) + 1] = Kept
      BY <1>10, <1>11, <2>2
    <3>2. Len(preserved) + 1 \in 1..(Len(preserved) + 1)
      BY <1>10
    <3> QED BY <1>9, <3>1, <3>2
  <2> QED BY <2>1, <2>2
<1>15. TypeOK'
  <2>1. /\ stage' \in Stages /\ at' \in Nat \ {0} /\ job' \in Jobs
        /\ mods' \in Seq(Modules) /\ out' \in Seq(Outputs)
    BY <1>1, <1>2, <1>4 DEF TypeOK
  <2>2. \A id \in DOMAIN reports' : reports'[id].modules \subseteq DOMAIN out'
    <3>1. \A id \in 1..n : reports[id].modules \subseteq DOMAIN out
      BY <1>1, <1>4 DEF TypeOK, n
    <3>2. \A id \in 1..(n + 1) : id \in 1..n \/ id = n + 1
      BY <1>4 DEF n
    <3> QED BY <1>2, <1>6, <1>7, <1>8, <3>1, <3>2
  <2>3. DOMAIN mods' = {} /\ DOMAIN out' = {} /\ dropped' \subseteq DOMAIN mods'
    BY <1>1, <1>2, <1>3 DEF TypeOK
  <2>4. \A i \in DOMAIN processed : processed[i].id \in DOMAIN reports'
    BY <1>1, <1>4, <1>7 DEF TypeOK, n
  <2>5. \A i \in DOMAIN preserved : preserved[i].id \in DOMAIN reports'
    BY <1>1, <1>4, <1>7 DEF TypeOK, n
  <2>6. n + 1 \in DOMAIN reports'
    BY <1>4, <1>7 DEF n
  <2>7. /\ \A i \in DOMAIN processed' : processed'[i].id \in DOMAIN reports'
        /\ \A i \in DOMAIN preserved' : preserved'[i].id \in DOMAIN reports'
    BY <1>9, <1>12, <1>13, <2>4, <2>5, <2>6
  <2> QED BY <2>1, <2>2, <2>3, <2>7, <1>6, <1>12, <1>13 DEF TypeOK
<1>16. PushInv'
  <2>1. \A id \in DOMAIN reports' : id \in 1..n \/ id = n + 1
    BY <1>4, <1>7 DEF n
  <2>2. \A id \in 1..n : reports[id].push \in DOMAIN job.pushes /\ reports[id].push < at
    BY <1>1, <1>2, <1>4 DEF PushInv, n
  <2>3. \A id \in DOMAIN reports' : reports'[id].push \in DOMAIN job'.pushes
    BY <1>2, <1>6, <1>8, <2>1, <2>2
  <2>4. job.pushes \in Seq(Pushes) /\ DOMAIN job.pushes \subseteq Nat
    <3>1. job.pushes \in Seq(Pushes)
      BY <1>4, JobsAssumption
    <3>2. DOMAIN job.pushes = 1..Len(job.pushes)
      BY <3>1, LenProperties
    <3> QED BY <3>1, <3>2
  <2>5. \A id \in DOMAIN reports' : reports'[id].push < at'
    <3>1. \A id \in 1..n : reports'[id].push \in Nat /\ reports'[id].push < at
      BY <1>6, <2>2, <2>4
    <3>2. \A id \in 1..n : reports'[id].push < at + 1
      BY <1>4, <3>1
    <3>3. reports'[n + 1].push < at + 1
      BY <1>4, <1>6, <1>8
    <3> QED BY <1>2, <2>1, <3>2, <3>3
  <2>6. \A i, j \in DOMAIN reports' : i < j => reports'[i].push < reports'[j].push
    <3> SUFFICES ASSUME NEW i \in DOMAIN reports', NEW j \in DOMAIN reports', i < j
                 PROVE  reports'[i].push < reports'[j].push
      OBVIOUS
    <3>1. i \in 1..n
      BY <1>4, <1>7 DEF n
    <3>2. CASE j \in 1..n
      BY <1>1, <1>4, <1>6, <3>1, <3>2 DEF PushInv, n
    <3>3. CASE j = n + 1
      BY <1>6, <1>8, <2>2, <3>1, <3>3
    <3> QED BY <2>1, <3>2, <3>3
  <2>7. ASSUME NEW p \in DOMAIN job.pushes
        PROVE  (\E id \in DOMAIN reports' : reports'[id].push = p)
                 <=> job.pushes[p].form \notin Failing /\ p < at'
    <3>1. (\E id \in 1..n : reports[id].push = p)
            <=> job.pushes[p].form \notin Failing /\ p < at
      BY <1>1, <1>2, <1>4, <2>7 DEF PushInv, n
    <3>2. (\E id \in DOMAIN reports' : reports'[id].push = p)
            <=> (\E id \in 1..n : reports[id].push = p) \/ at = p
      <4>1. n + 1 \in DOMAIN reports' /\ 1..n \subseteq DOMAIN reports'
        BY <1>4, <1>7 DEF n
      <4> QED BY <1>6, <1>8, <2>1, <4>1
    <3>3. p \in Nat /\ (p < at' <=> p < at \/ p = at)
      BY <1>2, <1>4, <2>4, <2>7
    <3> QED BY <3>1, <3>2, <3>3
  <2> QED BY <1>2, <2>3, <2>5, <2>6, <2>7 DEF PushInv
<1>17. KeptInv'
  <2>1. \A id \in DOMAIN reports' : id \in 1..n \/ id = n + 1
    BY <1>4, <1>7 DEF n
  <2>2. ASSUME NEW i \in DOMAIN processed'
        PROVE  /\ processed'[i].push = reports'[processed'[i].id].push
               /\ reports'[processed'[i].id].action \in Split
    <3>1. CASE i \in DOMAIN processed /\ processed'[i] = processed[i]
      <4>1. processed[i].id \in 1..n
        BY <1>1, <1>4, <3>1 DEF TypeOK, n
      <4> QED BY <1>1, <1>6, <3>1, <4>1 DEF KeptInv
    <3>2. CASE processed'[i] = Kept /\ a \in Split
      BY <1>6, <1>8, <1>9, <3>2
    <3> QED BY <1>12, <2>2, <3>1, <3>2
  <2>3. ASSUME NEW i \in DOMAIN preserved'
        PROVE  /\ preserved'[i].push = reports'[preserved'[i].id].push
               /\ reports'[preserved'[i].id].action = "Preserved"
    <3>1. CASE i \in DOMAIN preserved /\ preserved'[i] = preserved[i]
      <4>1. preserved[i].id \in 1..n
        BY <1>1, <1>4, <3>1 DEF TypeOK, n
      <4> QED BY <1>1, <1>6, <3>1, <4>1 DEF KeptInv
    <3>2. CASE preserved'[i] = Kept /\ a = "Preserved"
      BY <1>6, <1>8, <1>9, <3>2
    <3> QED BY <1>13, <2>3, <3>1, <3>2
  <2>4. ASSUME NEW id \in DOMAIN reports'
        PROVE  /\ Doomed(job'.pushes[reports'[id].push]) => unmatched'
               /\ \/ reports'[id].action = "Skipped"
                  \/ unmatched'
                  \/ \E i \in DOMAIN processed' : processed'[i].id = id
                  \/ \E i \in DOMAIN preserved' : preserved'[i].id = id
    <3>1. CASE id = n + 1
      BY <1>2, <1>6, <1>8, <1>14, <3>1
    <3>2. CASE id \in 1..n
      <4>1. /\ Doomed(job.pushes[reports[id].push]) => unmatched
            /\ \/ reports[id].action = "Skipped"
               \/ unmatched
               \/ \E i \in DOMAIN processed : processed[i].id = id
               \/ \E i \in DOMAIN preserved : preserved[i].id = id
        BY <1>1, <1>4, <3>2 DEF KeptInv, n
      <4>2. reports'[id] = reports[id]
        BY <1>6, <3>2
      <4> QED BY <1>2, <1>12, <1>13, <4>1, <4>2
    <3> QED BY <2>1, <2>4, <3>1, <3>2
  <2> QED BY <1>2, <2>2, <2>3, <2>4 DEF KeptInv
<1>18. MergeInv' /\ NameInv' /\ EdgeInv' /\ OutInv' /\ LeftInv'
  BY <1>2, <1>3, Unnamed
<1> QED BY <1>15, <1>16, <1>17, <1>18 DEF IInv

LEMMA PushesInv ==
  ASSUME IInv,
         PushSplit \/ PushSkipped \/ PushProcessed \/ PushPreserved \/ PushUnmatched
  PROVE  IInv'
<1>1. unmatched \in BOOLEAN
  BY DEF IInv, TypeOK
<1>2. CASE PushSplit
  <2>1. Accept("Unpacked") /\ job.pushes[at].form \notin Failing /\ ~Doomed(job.pushes[at])
    BY <1>2 DEF PushSplit, Failing, Doomed
  <2>2. processed' = Append(processed, Kept) /\ preserved' = preserved /\ unmatched' = unmatched
    BY <1>2 DEF PushSplit
  <2> QED BY <1>1, <2>1, <2>2, AcceptInv DEF ActionNames, Split
<1>3. CASE PushSkipped
  <2>1. Accept("Skipped") /\ job.pushes[at].form \notin Failing /\ ~Doomed(job.pushes[at])
    BY <1>3 DEF PushSkipped, PlainUnder, Failing, Doomed
  <2>2. processed' = processed /\ preserved' = preserved /\ unmatched' = unmatched
    BY <1>3 DEF PushSkipped
  <2> QED BY <1>1, <2>1, <2>2, AcceptInv DEF ActionNames
<1>4. CASE PushProcessed
  <2>1. Accept("Processed") /\ job.pushes[at].form \notin Failing /\ ~Doomed(job.pushes[at])
    BY <1>4 DEF PushProcessed, PlainUnder, Failing, Doomed
  <2>2. processed' = Append(processed, Kept) /\ preserved' = preserved /\ unmatched' = unmatched
    BY <1>4 DEF PushProcessed
  <2> QED BY <1>1, <2>1, <2>2, AcceptInv DEF ActionNames, Split
<1>5. CASE PushPreserved
  <2>1. Accept("Preserved") /\ job.pushes[at].form \notin Failing /\ ~Doomed(job.pushes[at])
    BY <1>5 DEF PushPreserved, PlainUnder, Failing, Doomed
  <2>2. preserved' = Append(preserved, Kept) /\ processed' = processed /\ unmatched' = unmatched
    BY <1>5 DEF PushPreserved
  <2> QED BY <1>1, <2>1, <2>2, AcceptInv DEF ActionNames
<1>6. CASE PushUnmatched
  <2>1. Accept("Processed") /\ job.pushes[at].form \notin Failing
    BY <1>6 DEF PushUnmatched, PlainUnder, Failing
  <2>2. processed' = processed /\ preserved' = preserved
    BY <1>6 DEF PushUnmatched
  <2>3. unmatched' = TRUE
    BY <1>6 DEF PushUnmatched
  <2>4. unmatched' \in BOOLEAN /\ unmatched'
    BY <2>3
  <2> QED BY <2>1, <2>2, <2>4, AcceptInv DEF ActionNames
<1> QED BY <1>2, <1>3, <1>4, <1>5, <1>6

LEMMA PushFailsInv ==
  ASSUME IInv, PushFails
  PROVE  IInv'
<1>1. /\ stage = "push" /\ at \in DOMAIN job.pushes /\ job.pushes[at].form \in Failing
      /\ at' = at + 1
      /\ UNCHANGED <<stage, job, reports, processed, preserved, unmatched, mods, seen, dropped, out>>
  BY DEF PushFails
<1>2. TypeOK /\ PushInv /\ KeptInv /\ MergeInv /\ OutInv
  BY DEF IInv
<1>3. mods = << >> /\ out = << >>
  BY <1>1, <1>2 DEF MergeInv, OutInv, Output
<1>4. TypeOK'
  <2>1. at' \in Nat \ {0}
    BY <1>1, <1>2 DEF TypeOK
  <2> QED BY <1>1, <1>2, <2>1 DEF TypeOK
<1>5. PushInv'
  <2>1. job.pushes \in Seq(Pushes)
    BY <1>2, JobsAssumption DEF TypeOK
  <2>2. DOMAIN job.pushes = 1..Len(job.pushes)
    BY <2>1, LenProperties
  <2>3. at \in Nat
    BY <1>2 DEF TypeOK
  <2>4. \A p \in DOMAIN job.pushes : p \in Nat /\ (p < at + 1 <=> p < at \/ p = at)
    BY <2>2, <2>3
  <2>5. \A id \in DOMAIN reports : reports[id].push < at + 1
    BY <1>1, <1>2, <2>4 DEF PushInv
  <2> QED BY <1>1, <1>2, <2>4, <2>5 DEF PushInv
<1>6. KeptInv'
  BY <1>1, <1>2 DEF KeptInv
<1>7. MergeInv' /\ NameInv' /\ EdgeInv' /\ OutInv' /\ LeftInv'
  BY <1>1, <1>3, Unnamed
<1> QED BY <1>4, <1>5, <1>6, <1>7 DEF IInv

(* Once the pushes are over their reports and what is kept stay as they are,   *)
(* but for the modules listed.                                               *)
LEMMA Steady ==
  ASSUME PushInv, KeptInv, TypeOK, stage \notin {"push", "failed"}, stage' # "push",
         DOMAIN reports' = DOMAIN reports,
         \A id \in DOMAIN reports : /\ reports'[id].push = reports[id].push
                                    /\ reports'[id].action = reports[id].action,
         UNCHANGED <<job, processed, preserved, unmatched>>
  PROVE  PushInv' /\ KeptInv'
<1>1. PushInv'
  BY DEF PushInv
<1>2. \A i \in DOMAIN processed : processed[i].id \in DOMAIN reports
  BY DEF TypeOK
<1>3. \A i \in DOMAIN preserved : preserved[i].id \in DOMAIN reports
  BY DEF TypeOK
<1>4. KeptInv'
  BY <1>2, <1>3 DEF KeptInv
<1> QED BY <1>1, <1>4

LEMMA FinishInv ==
  ASSUME IInv, Finish
  PROVE  IInv'
<1>1. /\ stage = "push" /\ at = Len(job.pushes) + 1 /\ at' = 1
      /\ stage' = IF reports = << >> \/ unmatched THEN "failed"
                  ELSE IF processed = << >> THEN "preserve" ELSE "plan"
      /\ UNCHANGED <<job, reports, processed, preserved, unmatched, mods, seen, dropped, out>>
  BY DEF Finish
<1>2. TypeOK /\ PushInv /\ KeptInv /\ MergeInv /\ OutInv
  BY DEF IInv
<1>3. mods = << >> /\ out = << >>
  BY <1>1, <1>2 DEF MergeInv, OutInv, Output
<1>4. TypeOK'
  <2>1. stage' \in Stages
    BY <1>1 DEF Stages
  <2>2. at' \in Nat \ {0}
    BY <1>1
  <2> QED BY <1>1, <1>2, <2>1, <2>2 DEF TypeOK
<1>5. stage' \in {"failed", "preserve", "plan"} /\ (stage' # "failed" => ~unmatched)
  BY <1>1
<1>6. PushInv'
  <2>1. job.pushes \in Seq(Pushes)
    BY <1>2, JobsAssumption DEF TypeOK
  <2>2. DOMAIN job.pushes = 1..Len(job.pushes) /\ Len(job.pushes) \in Nat
    BY <2>1, LenProperties
  <2>3. \A p \in DOMAIN job.pushes : p < at
    BY <1>1, <2>2
  <2> QED BY <1>1, <1>2, <1>5, <2>3 DEF PushInv
<1>7. KeptInv'
  <2>1. stage' \notin {"push", "failed"} => ~unmatched'
    BY <1>1, <1>5
  <2> QED BY <1>1, <1>2, <2>1 DEF KeptInv
<1>8. CASE stage' # "preserve"
  <2>1. MergeInv' /\ NameInv' /\ EdgeInv' /\ OutInv' /\ LeftInv'
    BY <1>1, <1>3, <1>5, <1>8, Unnamed
  <2> QED BY <1>4, <1>6, <1>7, <2>1 DEF IInv
<1>9. CASE stage' = "preserve"
  <2>1. processed = << >>
    BY <1>1, <1>9
  <2>2. DOMAIN processed = {} /\ DOMAIN mods = {} /\ DOMAIN out = {}
    BY <1>3, <2>1
  <2>3. MergeInv' /\ NameInv'
    BY <1>9 DEF MergeInv, NameInv, Merging
  <2>4. EdgeInv'
    BY <1>1, <1>9, <2>2 DEF EdgeInv, EdgesResolve
  <2>5. OutInv'
    <3>1. \A id \in DOMAIN reports : reports[id].modules = {}
      BY <1>2, <2>2 DEF TypeOK
    <3>2. preserved \in Seq(Inputs)
      BY <1>2 DEF TypeOK
    <3>3. \A i \in DOMAIN preserved : ~(i < 1)
      BY <3>2, LenProperties
    <3> QED BY <1>1, <1>9, <2>2, <3>1, <3>3 DEF OutInv, Listed, KeysApart
  <2>6. LeftInv'
    BY <1>1, <2>2, <1>9 DEF LeftInv, Converted
  <2> QED BY <1>4, <1>6, <1>7, <2>3, <2>4, <2>5, <2>6 DEF IInv
<1> QED BY <1>8, <1>9

LEMMA PlanInv ==
  ASSUME IInv, PlanPublicPaths
  PROVE  IInv'
<1>1. /\ stage = "plan"
      /\ stage' = IF Ambiguous(Ins, job.raw) THEN "failed" ELSE "expand"
      /\ UNCHANGED <<at, job, reports, processed, preserved, unmatched, mods, seen, dropped, out>>
  BY DEF PlanPublicPaths
<1>2. TypeOK /\ PushInv /\ KeptInv /\ MergeInv /\ OutInv
  BY DEF IInv
<1>3. mods = << >> /\ out = << >>
  BY <1>1, <1>2 DEF MergeInv, OutInv, Output
<1>4. TypeOK'
  <2>1. stage' \in Stages
    BY <1>1 DEF Stages
  <2> QED BY <1>1, <1>2, <2>1 DEF TypeOK
<1>5. PushInv' /\ KeptInv'
  BY <1>1, <1>2, Steady
<1>6. CASE stage' = "failed"
  <2>1. MergeInv' /\ NameInv' /\ EdgeInv' /\ OutInv' /\ LeftInv'
    BY <1>1, <1>3, <1>6, Unnamed
  <2> QED BY <1>4, <1>5, <2>1 DEF IInv
<1>7. CASE stage' = "expand"
  <2>1. Ins' = Ins /\ job' = job /\ mods' = << >> /\ at' = 1 /\ DOMAIN mods' = {}
    BY <1>1, <1>2, <1>3 DEF Ins, MergeInv
  <2>6. \A i \in DOMAIN Ins : ~(i < 1)
    <3>1. Ins \in Seq(Pushes)
      BY <1>2, InputsFit DEF Fit
    <3> QED BY <3>1, LenProperties
  <2>2. ~Ambiguous(Ins, job.raw)
    BY <1>1, <1>7
  <2>3. Gathered(Ins, job.raw, << >>) /\ Seated(Ins, job.raw, << >>)
    BY EmptySeq DEF Gathered, Seated
  <2>4. MergeInv'
    BY <1>7, <2>1, <2>2, <2>3, <2>6 DEF MergeInv, Merging
  <2>5. NameInv' /\ EdgeInv' /\ OutInv' /\ LeftInv'
    BY <1>1, <1>3, <1>7 DEF NameInv, EdgeInv, EdgesResolve, OutInv, LeftInv, Output
  <2> QED BY <1>4, <1>5, <2>4, <2>5 DEF IInv
<1> QED BY <1>1, <1>6, <1>7

-----------------------------------------------------------------------------
(* Naming *)

LEMMA PlacedModule ==
  ASSUME TypeOK, PushInv, KeptInv, NEW i \in DOMAIN Ins,
         NEW k \in DOMAIN ModulesOf(Ins, job.raw, i)
  PROVE  LET m == Placed(i, k)
             piece == ModulesOf(Ins, job.raw, i)[k]
         IN  /\ m \in Modules
             /\ m.input = i /\ m.nth = k /\ m.orig = piece.orig /\ m.entry = piece.entry
             /\ m.own = piece.own /\ m.authored = piece.authored
             /\ m.suggests = piece.suggests
             /\ Keeper(Ins, job.raw, m) => m.file = Ins[i].file
             /\ i \in Facades(Ins, job.raw) /\ ~m.entry =>
                  Len(m.file) = Len(Ins[i].file) + Len(m.orig)
             /\ m.merged = m.file /\ m.links = {}
<1> DEFINE ps == ModulesOf(Ins, job.raw, i)
           piece == ps[k]
           small == [input |-> i, entry |-> piece.entry, orig |-> piece.orig]
           file == Reservation(Ins, job.raw, small)
           m == Placed(i, k)
<1>1. Fit(Ins) /\ job.raw \in BOOLEAN
  BY InputsFit
<1>2. Ins[i].file \in Paths
  BY <1>1, InputFields
<1>3. /\ ps \in Seq(Pieces)
      /\ i \in Planned(Ins, job.raw) =>
           \/ i \in Facades(Ins, job.raw)
           \/ Len(ps) = 1 /\ ps[1].orig = Ins[i].file
  BY <1>1, ModulesOfInput
<1>4. DOMAIN ps = 1..Len(ps) /\ Len(ps) \in Nat /\ k \in 1..Len(ps)
  BY <1>3, LenProperties
<1>5. piece \in Pieces
  <2> HIDE DEF ps
  <2> QED BY <1>3, <1>4, ElementOfSeq
<1>6. i \in Nat /\ k \in Nat
  <2>1. Ins \in Seq(Pushes)
    BY <1>1 DEF Fit
  <2>2. i \in 1..Len(Ins)
    BY <2>1, LenProperties
  <2> QED BY <1>4, <2>2
<1>7. small.input = i /\ small.entry = piece.entry /\ small.orig = piece.orig
  OBVIOUS
<1>8. m = [input |-> i, nth |-> k, orig |-> piece.orig, entry |-> piece.entry, own |-> piece.own,
           authored |-> piece.authored, suggests |-> piece.suggests, file |-> file,
           merged |-> file, reserved |-> FALSE, links |-> {}]
  BY DEF Placed
<1> HIDE DEF small, piece
<1>9. /\ piece.orig \in Paths /\ piece.entry \in BOOLEAN /\ piece.own \in SUBSET Nat
      /\ piece.authored \in SUBSET Paths /\ piece.suggests \in Paths \cup {NoName}
  BY <1>5 DEF Pieces
<1>10. /\ file \in Paths
       /\ i \in Facades(Ins, job.raw) /\ ~piece.entry =>
            Len(file) = Len(Ins[i].file) + Len(piece.orig)
       /\ i \in Facades(Ins, job.raw) /\ piece.entry => file = Ins[i].file
       /\ i \notin Facades(Ins, job.raw) => file = piece.orig
  BY <1>2, <1>7, <1>9, ChildPath DEF Reservation
<1>11. i \in Planned(Ins, job.raw) /\ i \notin Facades(Ins, job.raw) => file = Ins[i].file
  <2>1. Len(ps) = 1 => k = 1
    BY <1>4
  <2> QED BY <1>3, <1>10, <2>1 DEF piece
<1> HIDE DEF file, m
<1>12. m \in Modules
  BY <1>6, <1>8, <1>9, <1>10 DEF Modules
<1>13. Keeper(Ins, job.raw, m) => m.file = Ins[i].file
  BY <1>8, <1>10, <1>11 DEF Keeper
<1>14. QED
  <2>1. /\ m.input = i /\ m.nth = k /\ m.orig = piece.orig /\ m.entry = piece.entry
        /\ m.own = piece.own /\ m.authored = piece.authored
        /\ m.suggests = piece.suggests /\ m.file = file /\ m.merged = file /\ m.links = {}
    BY <1>8
  <2> QED BY <1>10, <1>12, <1>13, <2>1 DEF m, piece

(* Two modules that keep their inputs' paths keep different paths. *)
LEMMA KeepersApart ==
  ASSUME NEW ins, Fit(ins), NEW raw \in BOOLEAN, NEW ms, Gathered(ins, raw, ms),
         Seated(ins, raw, ms), ~Ambiguous(ins, raw),
         NEW a \in DOMAIN ms, NEW b \in DOMAIN ms, a # b,
         Keeper(ins, raw, ms[a]), Keeper(ins, raw, ms[b])
  PROVE  CaseKey(ms[a].file) # CaseKey(ms[b].file)
<1> DEFINE i == ms[a].input
           j == ms[b].input
           ps == ModulesOf(ins, raw, i)
<1>1. /\ ms[a].file = ins[i].file /\ ms[b].file = ins[j].file
      /\ i \in Planned(ins, raw) /\ j \in Planned(ins, raw)
  BY DEF Seated, Keeper
<1>2. CASE i # j
  BY <1>1, <1>2 DEF Ambiguous
<1>3. CASE i = j
  <2>1. i \in DOMAIN ins
    BY DEF Gathered
  <2>2. /\ ps \in Seq(Pieces)
        /\ i \in Facades(ins, raw) =>
             \A x, y \in DOMAIN ps : ps[x].entry /\ ps[y].entry => x = y
        /\ \/ i \in Facades(ins, raw)
           \/ Len(ps) = 1
    BY <1>1, <2>1, ModulesOfInput
  <2>3. /\ ms[a].nth \in DOMAIN ps /\ ms[b].nth \in DOMAIN ps
        /\ ms[a].entry = ps[ms[a].nth].entry /\ ms[b].entry = ps[ms[b].nth].entry
    BY <1>3 DEF Gathered
  <2>4. CASE i \in Facades(ins, raw)
    <3>1. ms[a].entry /\ ms[b].entry
      BY <1>3, <2>4 DEF Keeper
    <3>2. ms[a].nth = ms[b].nth
      BY <2>2, <2>3, <2>4, <3>1
    <3> QED BY <1>3, <3>2 DEF Gathered
  <2>5. CASE Len(ps) = 1
    <3>1. DOMAIN ps = 1..1
      BY <2>2, <2>5, LenProperties
    <3>2. ms[a].nth = ms[b].nth
      BY <2>3, <3>1
    <3> QED BY <1>3, <3>2 DEF Gathered
  <2> QED BY <2>2, <2>4, <2>5
<1> QED BY <1>2, <1>3

LEMMA Joined ==
  ASSUME NEW S, NEW s \in Seq(S), NEW t \in Seq(S)
  PROVE  /\ s \o t \in Seq(S)
         /\ DOMAIN (s \o t) = 1..(Len(s) + Len(t))
         /\ \A k \in 1..Len(s) : (s \o t)[k] = s[k]
         /\ \A k \in 1..Len(t) : (s \o t)[Len(s) + k] = t[k]
<1> DEFINE u == s \o t
<1>1. /\ u \in Seq(S) /\ Len(u) = Len(s) + Len(t)
      /\ \A k \in 1..Len(u) : u[k] = IF k <= Len(s) THEN s[k] ELSE t[k - Len(s)]
  BY ConcatProperties
<1>2. Len(s) \in Nat /\ Len(t) \in Nat
  BY LenProperties
<1> HIDE DEF u
<1>3. DOMAIN u = 1..(Len(s) + Len(t))
  BY <1>1, LenProperties
<1>4. \A k \in 1..Len(s) : u[k] = s[k]
  BY <1>1, <1>2
<1>5. ASSUME NEW k \in 1..Len(t) PROVE u[Len(s) + k] = t[k]
  <2>1. Len(s) + k \in 1..Len(u) /\ ~(Len(s) + k <= Len(s)) /\ (Len(s) + k) - Len(s) = k
    BY <1>1, <1>2
  <2> QED BY <1>1, <2>1
<1> QED BY <1>1, <1>3, <1>4, <1>5 DEF u

LEMMA ExpandInv ==
  ASSUME IInv, Expand
  PROVE  IInv'
<1> DEFINE ps == ModulesOf(Ins, job.raw, at)
           new == Placements(at)
           n == Len(mods)
           raw == job.raw
<1>1. /\ stage = "expand" /\ at \in DOMAIN Ins /\ mods' = mods \o new
      /\ UNCHANGED <<job, reports, processed, preserved, unmatched, dropped, out>>
      /\ \/ /\ at = Len(Ins) /\ stage' = "name" /\ at' = 1
            /\ seen' = {CaseKey(Ins[i].file) : i \in Planned(Ins, raw)}
         \/ /\ at # Len(Ins) /\ at' = at + 1 /\ stage' = stage
  BY DEF Expand
<1>2. TypeOK /\ PushInv /\ KeptInv /\ MergeInv /\ OutInv /\ EdgeInv
  BY DEF IInv
<1>3. /\ Gathered(Ins, raw, mods) /\ Seated(Ins, raw, mods) /\ ~Ambiguous(Ins, raw)
      /\ \A i \in DOMAIN Ins : i < at => \E k \in DOMAIN mods : mods[k].input = i
      /\ \A k \in DOMAIN mods : mods[k].input < at
      /\ out = << >>
  BY <1>1, <1>2 DEF MergeInv, OutInv, Merging, Output
<1>4. Fit(Ins) /\ raw \in BOOLEAN /\ DOMAIN Ins = DOMAIN processed
  BY <1>2, InputsFit
<1>5. Ins \in Seq(Pushes) /\ DOMAIN Ins = 1..Len(Ins) /\ Len(Ins) \in Nat /\ at \in Nat
  <2>1. Ins \in Seq(Pushes)
    BY <1>4 DEF Fit
  <2> QED BY <1>2, <2>1, LenProperties DEF TypeOK
<1>6. Ins' = Ins
  BY <1>1 DEF Ins
<1>7. ps \in Seq(Pieces) /\ ps # << >> /\ DOMAIN ps = 1..Len(ps) /\ Len(ps) \in Nat /\ Len(ps) >= 1
  <2>1. ps \in Seq(Pieces) /\ ps # << >>
    BY <1>1, <1>4, ModulesOfInput
  <2> HIDE DEF ps
  <2> QED BY <2>1, LenProperties, EmptySeq
<1>8. \A k \in DOMAIN ps :
        LET m == Placed(at, k)
            piece == ps[k]
        IN  /\ m \in Modules
            /\ m.input = at /\ m.nth = k /\ m.orig = piece.orig /\ m.entry = piece.entry
            /\ m.own = piece.own /\ m.authored = piece.authored
            /\ m.suggests = piece.suggests
            /\ Keeper(Ins, job.raw, m) => m.file = Ins[at].file
            /\ at \in Facades(Ins, job.raw) /\ ~m.entry =>
                 Len(m.file) = Len(Ins[at].file) + Len(m.orig)
            /\ m.merged = m.file /\ m.links = {}
  BY <1>1, <1>2, PlacedModule
<1>9. /\ new \in Seq(Modules) /\ Len(new) = Len(ps)
      /\ \A k \in 1..Len(ps) : new[k] = Placed(at, k)
  <2>1. new = [k \in DOMAIN ps |-> Placed(at, k)]
    BY DEF Placements
  <2> HIDE DEF ps, new
  <2>2. new \in [1..Len(ps) -> Modules]
    BY <1>7, <1>8, <2>1
  <2>3. new \in Seq(Modules)
    BY <1>7, <2>2, SeqDef
  <2>4. DOMAIN new = 1..Len(ps)
    BY <2>2
  <2>5. Len(new) = Len(ps)
    <3>1. DOMAIN new = 1..Len(new) /\ Len(new) \in Nat
      BY <2>3, LenProperties
    <3> QED BY <1>7, <2>4, <3>1
  <2> QED BY <1>7, <2>1, <2>3, <2>5
<1>10. mods \in Seq(Modules) /\ n \in Nat /\ DOMAIN mods = 1..n
  BY <1>2, LenProperties DEF TypeOK
<1> HIDE DEF ps, new, n
<1>11. /\ mods' \in Seq(Modules) /\ DOMAIN mods' = 1..(n + Len(ps))
       /\ \A k \in 1..n : mods'[k] = mods[k]
       /\ \A k \in 1..Len(ps) : mods'[n + k] = Placed(at, k)
  <2>1. /\ mods \o new \in Seq(Modules)
        /\ DOMAIN (mods \o new) = 1..(Len(mods) + Len(new))
        /\ \A k \in 1..Len(mods) : (mods \o new)[k] = mods[k]
        /\ \A k \in 1..Len(new) : (mods \o new)[Len(mods) + k] = new[k]
    <3>1. mods \in Seq(Modules) /\ new \in Seq(Modules)
      BY <1>9, <1>10
    <3> QED BY ONLY <3>1, Joined
  <2> QED BY <1>1, <1>9, <2>1 DEF n
<1>12. \A k \in DOMAIN mods' : k \in DOMAIN mods \/ \E x \in DOMAIN ps : k = n + x
  <2> SUFFICES ASSUME NEW k \in DOMAIN mods', k \notin DOMAIN mods
               PROVE  \E x \in DOMAIN ps : k = n + x
    OBVIOUS
  <2>1. k - n \in 1..Len(ps) /\ k = n + (k - n)
    BY <1>7, <1>10, <1>11
  <2> QED BY <1>7, <2>1
<1>13. ASSUME NEW k \in DOMAIN mods'
       PROVE  \/ k \in DOMAIN mods /\ mods'[k] = mods[k]
              \/ \E x \in DOMAIN ps : k = n + x /\ mods'[k] = Placed(at, x)
  BY <1>7, <1>10, <1>11, <1>12, <1>13
<1>14. Gathered(Ins, raw, mods')
  <2>1. ASSUME NEW k \in DOMAIN mods'
        PROVE  /\ mods'[k].input \in DOMAIN Ins
               /\ mods'[k].nth \in DOMAIN ModulesOf(Ins, raw, mods'[k].input)
               /\ LET piece == ModulesOf(Ins, raw, mods'[k].input)[mods'[k].nth]
                  IN  /\ mods'[k].orig = piece.orig /\ mods'[k].entry = piece.entry
                      /\ mods'[k].own = piece.own /\ mods'[k].authored = piece.authored
                      /\ mods'[k].suggests = piece.suggests
    <3>1. CASE k \in DOMAIN mods /\ mods'[k] = mods[k]
      BY <1>3, <3>1 DEF Gathered
    <3>2. CASE \E x \in DOMAIN ps : k = n + x /\ mods'[k] = Placed(at, x)
      <4>1. PICK x \in DOMAIN ps : k = n + x /\ mods'[k] = Placed(at, x)
        BY <3>2
      <4>2. /\ mods'[k].input = at /\ mods'[k].nth = x
            /\ mods'[k].orig = ps[x].orig /\ mods'[k].entry = ps[x].entry
            /\ mods'[k].own = ps[x].own /\ mods'[k].authored = ps[x].authored
            /\ mods'[k].suggests = ps[x].suggests
        BY <1>8, <4>1
      <4> QED BY <1>1, <4>1, <4>2 DEF ps
    <3> QED BY <1>13, <2>1, <3>1, <3>2
  <2>2. ASSUME NEW j \in DOMAIN mods', NEW k \in DOMAIN mods',
               mods'[j].input = mods'[k].input, mods'[j].nth = mods'[k].nth
        PROVE  j = k
    <3>1. \A x \in DOMAIN mods' :
            \/ x \in DOMAIN mods /\ mods'[x] = mods[x] /\ mods'[x].input < at
            \/ mods'[x].input = at /\ x = n + mods'[x].nth
      <4> SUFFICES ASSUME NEW x \in DOMAIN mods'
                   PROVE  \/ x \in DOMAIN mods /\ mods'[x] = mods[x] /\ mods'[x].input < at
                          \/ mods'[x].input = at /\ x = n + mods'[x].nth
        OBVIOUS
      <4>1. CASE x \in DOMAIN mods /\ mods'[x] = mods[x]
        BY <1>3, <4>1
      <4>2. CASE \E y \in DOMAIN ps : x = n + y /\ mods'[x] = Placed(at, y)
        <5>1. PICK y \in DOMAIN ps : x = n + y /\ mods'[x] = Placed(at, y)
          BY <4>2
        <5>2. Placed(at, y).input = at /\ Placed(at, y).nth = y
          BY <1>8
        <5> QED BY <5>1, <5>2
      <4> QED BY <1>13, <4>1, <4>2
    <3>2. ~(at < at)
      BY <1>5
    <3>3. CASE j \in DOMAIN mods /\ mods'[j] = mods[j] /\ mods'[j].input < at
      <4>1. k \in DOMAIN mods /\ mods'[k] = mods[k]
        BY <2>2, <3>1, <3>2, <3>3
      <4> QED BY <1>3, <2>2, <3>3, <4>1 DEF Gathered
    <3>4. CASE mods'[j].input = at /\ j = n + mods'[j].nth
      BY <2>2, <3>1, <3>2, <3>4
    <3> QED BY <3>1, <3>3, <3>4
  <2> QED BY <1>11, <2>1, <2>2 DEF Gathered
<1>15. Seated(Ins, raw, mods')
  <2> SUFFICES ASSUME NEW k \in DOMAIN mods'
               PROVE  /\ Keeper(Ins, raw, mods'[k]) => mods'[k].file = Ins[mods'[k].input].file
                      /\ mods'[k].input \in Facades(Ins, raw) /\ ~mods'[k].entry =>
                           Len(mods'[k].file) = Len(Ins[mods'[k].input].file) + Len(mods'[k].orig)
                      /\ mods'[k].merged = mods'[k].file
    BY DEF Seated
  <2>1. CASE k \in DOMAIN mods /\ mods'[k] = mods[k]
    BY <1>3, <2>1 DEF Seated
  <2>2. CASE \E x \in DOMAIN ps : k = n + x /\ mods'[k] = Placed(at, x)
    <3>1. PICK x \in DOMAIN ps : k = n + x /\ mods'[k] = Placed(at, x)
      BY <2>2
    <3> DEFINE m == Placed(at, x)
    <3>2. /\ m.input = at
          /\ Keeper(Ins, job.raw, m) => m.file = Ins[at].file
          /\ at \in Facades(Ins, job.raw) /\ ~m.entry =>
               Len(m.file) = Len(Ins[at].file) + Len(m.orig)
          /\ m.merged = m.file
      BY <1>8
    <3> HIDE DEF m
    <3>3. mods'[k] = m
      BY <3>1 DEF m
    <3> QED BY <3>2, <3>3
  <2> QED BY <1>13, <2>1, <2>2
<1>16. \A i \in DOMAIN Ins : i < at + 1 => \E k \in DOMAIN mods' : mods'[k].input = i
  <2> SUFFICES ASSUME NEW i \in DOMAIN Ins, i < at + 1
               PROVE  \E k \in DOMAIN mods' : mods'[k].input = i
    OBVIOUS
  <2>1. CASE i < at
    <3>1. PICK k \in DOMAIN mods : mods[k].input = i
      BY <1>3, <2>1
    <3>2. k \in DOMAIN mods' /\ mods'[k] = mods[k]
      BY <1>7, <1>10, <1>11
    <3> QED BY <3>1, <3>2
  <2>2. CASE i = at
    <3>1. 1 \in DOMAIN ps /\ n + 1 \in DOMAIN mods'
      BY <1>7, <1>10, <1>11
    <3>2. mods'[n + 1] = Placed(at, 1)
      BY <1>7, <1>11, <3>1
    <3>3. mods'[n + 1].input = at
      BY <1>8, <3>1, <3>2
    <3> QED BY <2>2, <3>1, <3>3
  <2> QED BY <1>5, <2>1, <2>2
<1>17. \A k \in DOMAIN mods' : mods'[k].input < at + 1
  <2> SUFFICES ASSUME NEW k \in DOMAIN mods' PROVE mods'[k].input < at + 1
    OBVIOUS
  <2>1. mods'[k].input \in DOMAIN Ins
    BY <1>14 DEF Gathered
  <2>2. mods'[k].input < at \/ mods'[k].input = at
    <3>1. CASE k \in DOMAIN mods /\ mods'[k] = mods[k]
      BY <1>3, <3>1
    <3>2. CASE \E x \in DOMAIN ps : k = n + x /\ mods'[k] = Placed(at, x)
      <4>1. \A x \in DOMAIN ps : Placed(at, x).input = at
        BY <1>8
      <4> QED BY <3>2, <4>1
    <3> QED BY <1>13, <3>1, <3>2
  <2> QED BY <1>5, <2>1, <2>2
<1>18. TypeOK'
  <2>1. /\ stage' \in Stages /\ at' \in Nat \ {0}
    BY <1>1, <1>5 DEF Stages
  <2>2. \A k \in DOMAIN mods' : mods'[k].input \in DOMAIN processed'
    BY <1>1, <1>4, <1>14 DEF Gathered
  <2>3. DOMAIN mods \subseteq DOMAIN mods'
    BY <1>7, <1>10, <1>11
  <2>4. dropped' \subseteq DOMAIN mods'
    BY <1>1, <1>2, <2>3 DEF TypeOK
  <2> QED BY <1>1, <1>2, <1>11, <2>1, <2>2, <2>4 DEF TypeOK
<1>19. PushInv' /\ KeptInv'
  BY <1>1, <1>2, Steady
<1>20. EdgeInv' /\ OutInv' /\ LeftInv'
  BY <1>1, <1>3 DEF EdgeInv, EdgesResolve, OutInv, LeftInv, Output
<1>21. CASE stage' = "expand"
  <2>1. at' = at + 1
    BY <1>1, <1>21
  <2>2. MergeInv'
    BY <1>1, <1>3, <1>6, <1>14, <1>15, <1>16, <1>17, <1>21, <2>1 DEF MergeInv, Merging
  <2>3. NameInv'
    BY <1>21 DEF NameInv
  <2> QED BY <1>18, <1>19, <1>20, <2>2, <2>3 DEF IInv
<1>22. CASE stage' = "name"
  <2>1. at = Len(Ins) /\ at' = 1 /\ seen' = {CaseKey(Ins[i].file) : i \in Planned(Ins, raw)}
    BY <1>1, <1>22
  <2>2. \A i \in DOMAIN Ins : i < at + 1
    BY <1>5, <2>1
  <2>3. MergeInv'
    BY <1>1, <1>3, <1>6, <1>14, <1>15, <1>16, <1>22, <2>2 DEF MergeInv, Merging
  <2>4. NameInv'
    <3>1. \A i \in Planned(Ins, raw) : CaseKey(Ins[i].file) \in seen'
      BY <2>1
    <3>2. \A k \in DOMAIN mods' : ~(k < at')
      BY <1>11, <2>1
    <3>3. \A j, k \in DOMAIN mods' :
            /\ j # k
            /\ Keeper(Ins, raw, mods'[j])
            /\ Keeper(Ins, raw, mods'[k])
            => CaseKey(mods'[j].file) # CaseKey(mods'[k].file)
      BY <1>3, <1>4, <1>14, <1>15, KeepersApart
    <3> QED BY <1>1, <1>6, <1>22, <3>1, <3>2, <3>3 DEF NameInv, Settled
  <2> QED BY <1>18, <1>19, <1>20, <2>3, <2>4 DEF IInv
<1> QED BY <1>1, <1>21, <1>22

(* The modules before and after a step that gives them names or links. *)
Alike(ms, ns) ==
  /\ DOMAIN ns = DOMAIN ms
  /\ \A k \in DOMAIN ms :
       /\ ns[k].input = ms[k].input /\ ns[k].nth = ms[k].nth
       /\ ns[k].orig = ms[k].orig /\ ns[k].entry = ms[k].entry
       /\ ns[k].own = ms[k].own /\ ns[k].authored = ms[k].authored
       /\ ns[k].suggests = ms[k].suggests

LEMMA StillGathered ==
  ASSUME NEW ins, NEW raw, NEW ms, NEW ns \in Seq(Modules),
         Gathered(ins, raw, ms), Alike(ms, ns)
  PROVE  /\ Gathered(ins, raw, ns)
         /\ \A k \in DOMAIN ms : Keeper(ins, raw, ns[k]) <=> Keeper(ins, raw, ms[k])
<1>1. ASSUME NEW k \in DOMAIN ns
      PROVE  /\ ns[k].input \in DOMAIN ins
             /\ ns[k].nth \in DOMAIN ModulesOf(ins, raw, ns[k].input)
             /\ LET piece == ModulesOf(ins, raw, ns[k].input)[ns[k].nth]
                IN  /\ ns[k].orig = piece.orig /\ ns[k].entry = piece.entry
                    /\ ns[k].own = piece.own /\ ns[k].authored = piece.authored
                    /\ ns[k].suggests = piece.suggests
  BY <1>1 DEF Gathered, Alike
<1>2. \A j, k \in DOMAIN ns : ns[j].input = ns[k].input /\ ns[j].nth = ns[k].nth => j = k
  BY DEF Gathered, Alike
<1>3. Gathered(ins, raw, ns)
  BY <1>1, <1>2 DEF Gathered
<1>4. \A k \in DOMAIN ms : Keeper(ins, raw, ns[k]) <=> Keeper(ins, raw, ms[k])
  BY DEF Alike, Keeper
<1> QED BY <1>3, <1>4

(* One module of a sequence gets another name. *)
LEMMA NamedModule ==
  ASSUME NEW ms \in Seq(Modules), NEW k \in DOMAIN ms, NEW name \in Paths
  PROVE  LET ns == [ms EXCEPT ![k].file = name, ![k].merged = name]
         IN  /\ ns \in Seq(Modules) /\ Alike(ms, ns)
             /\ ns[k].file = name /\ ns[k].merged = name /\ ns[k].links = ms[k].links
             /\ \A j \in DOMAIN ms : j # k => ns[j] = ms[j]
<1> DEFINE m == [ms[k] EXCEPT !.file = name, !.merged = name]
           ns == [ms EXCEPT ![k].file = name, ![k].merged = name]
<1>1. ms[k] \in Modules
  BY ModuleFields
<1>2. m \in Modules
  BY <1>1 DEF Modules
<1>3. /\ m.input = ms[k].input /\ m.nth = ms[k].nth /\ m.orig = ms[k].orig
      /\ m.entry = ms[k].entry /\ m.own = ms[k].own /\ m.authored = ms[k].authored
      /\ m.suggests = ms[k].suggests /\ m.links = ms[k].links
      /\ m.file = name /\ m.merged = name
  BY <1>1 DEF Modules
<1>4. ns = [ms EXCEPT ![k] = m]
  OBVIOUS
<1> HIDE DEF m, ns
<1>5. k \in 1..Len(ms) /\ DOMAIN ms = 1..Len(ms) /\ Len(ms) \in Nat
  BY LenProperties
<1>6. /\ ns \in Seq(Modules) /\ Len(ns) = Len(ms)
      /\ \A j \in 1..Len(ms) : ns[j] = IF j = k THEN m ELSE ms[j]
  BY <1>2, <1>4, <1>5, ExceptSeq
<1>7. DOMAIN ns = DOMAIN ms
  BY <1>5, <1>6, LenProperties
<1>8. ns[k] = m /\ \A j \in DOMAIN ms : j # k => ns[j] = ms[j]
  BY <1>5, <1>6
<1>9. Alike(ms, ns)
  BY <1>3, <1>7, <1>8 DEF Alike
<1> QED BY <1>3, <1>6, <1>8, <1>9 DEF ns

(* One module of a sequence is marked as the file at its input's path. *)
LEMMA MarkedModule ==
  ASSUME NEW ms \in Seq(Modules), NEW k \in DOMAIN ms
  PROVE  LET ns == [ms EXCEPT ![k].reserved = TRUE]
         IN  /\ ns \in Seq(Modules) /\ Alike(ms, ns)
             /\ \A j \in DOMAIN ms : ns[j].file = ms[j].file /\ ns[j].merged = ms[j].merged
<1> DEFINE m == [ms[k] EXCEPT !.reserved = TRUE]
           ns == [ms EXCEPT ![k].reserved = TRUE]
<1>1. ms[k] \in Modules
  BY ModuleFields
<1>2. m \in Modules
  BY <1>1 DEF Modules
<1>3. /\ m.input = ms[k].input /\ m.nth = ms[k].nth /\ m.orig = ms[k].orig
      /\ m.entry = ms[k].entry /\ m.own = ms[k].own /\ m.authored = ms[k].authored
      /\ m.suggests = ms[k].suggests
      /\ m.file = ms[k].file /\ m.merged = ms[k].merged
  BY <1>1 DEF Modules
<1>4. ns = [ms EXCEPT ![k] = m]
  OBVIOUS
<1> HIDE DEF m, ns
<1>5. k \in 1..Len(ms) /\ DOMAIN ms = 1..Len(ms) /\ Len(ms) \in Nat
  BY LenProperties
<1>6. /\ ns \in Seq(Modules) /\ Len(ns) = Len(ms)
      /\ \A j \in 1..Len(ms) : ns[j] = IF j = k THEN m ELSE ms[j]
  BY <1>2, <1>4, <1>5, ExceptSeq
<1>7. DOMAIN ns = DOMAIN ms
  BY <1>5, <1>6, LenProperties
<1>8. ns[k] = m /\ \A j \in DOMAIN ms : j # k => ns[j] = ms[j]
  BY <1>5, <1>6
<1>9. Alike(ms, ns)
  BY <1>3, <1>7, <1>8 DEF Alike
<1> QED BY <1>3, <1>6, <1>8, <1>9 DEF ns

(* Where a step of naming leads, once its modules are known to be as before,  *)
(* seated, and apart from one another.                                       *)
LEMMA NamedOn ==
  ASSUME IInv, stage = "name", at \in DOMAIN mods,
         at' = IF at = Len(mods) THEN 1 ELSE at + 1,
         stage' = IF at = Len(mods) THEN "rewrite" ELSE stage,
         UNCHANGED <<job, reports, processed, preserved, unmatched, dropped, out>>,
         mods' \in Seq(Modules), Alike(mods, mods'), Seated(Ins, job.raw, mods'),
         seen \subseteq seen', CaseKey(mods'[at].file) \in seen',
         \A k \in DOMAIN mods : k < at => mods'[k].file = mods[k].file,
         \A j, k \in DOMAIN mods :
           /\ j # k
           /\ j < at + 1 \/ Keeper(Ins, job.raw, mods[j])
           /\ k < at + 1 \/ Keeper(Ins, job.raw, mods[k])
           => CaseKey(mods'[j].file) # CaseKey(mods'[k].file)
  PROVE  IInv'
<1>1. TypeOK /\ PushInv /\ KeptInv /\ MergeInv /\ NameInv /\ OutInv
  BY DEF IInv
<1>2. /\ Gathered(Ins, job.raw, mods) /\ ~Ambiguous(Ins, job.raw) /\ out = << >>
      /\ \A i \in DOMAIN Ins : \E k \in DOMAIN mods : mods[k].input = i
  BY <1>1 DEF MergeInv, OutInv, Merging, Output
<1>3. mods \in Seq(Modules) /\ DOMAIN mods = 1..Len(mods) /\ Len(mods) \in Nat /\ at \in Nat
  BY <1>1, LenProperties DEF TypeOK
<1>4. DOMAIN mods' = DOMAIN mods /\ \A k \in DOMAIN mods : mods'[k].input = mods[k].input
  BY DEF Alike
<1>5. /\ Gathered(Ins, job.raw, mods')
      /\ \A k \in DOMAIN mods : Keeper(Ins, job.raw, mods'[k]) <=> Keeper(Ins, job.raw, mods[k])
  BY <1>2, StillGathered
<1>6. Ins' = Ins
  BY DEF Ins
<1>7. TypeOK'
  <2>1. stage' \in Stages /\ at' \in Nat \ {0}
    BY <1>3 DEF Stages
  <2>2. \A k \in DOMAIN mods' : mods'[k].input \in DOMAIN processed'
    BY <1>1, <1>4 DEF TypeOK
  <2>3. dropped' \subseteq DOMAIN mods'
    BY <1>1, <1>4 DEF TypeOK
  <2> QED BY <1>1, <2>1, <2>2, <2>3 DEF TypeOK
<1>8. stage' \in {"name", "rewrite"}
  OBVIOUS
<1>9. PushInv' /\ KeptInv'
  BY <1>1, <1>8, Steady
<1>10. MergeInv'
  <2>1. \A i \in DOMAIN Ins : \E k \in DOMAIN mods' : mods'[k].input = i
    BY <1>2, <1>4
  <2> QED BY <1>2, <1>5, <1>6, <1>8, <2>1 DEF MergeInv, Merging
<1>11. EdgeInv' /\ OutInv' /\ LeftInv'
  BY <1>2, <1>8 DEF EdgeInv, EdgesResolve, OutInv, LeftInv, Output
<1>12. CASE at # Len(mods)
  <2>1. stage' = "name" /\ at' = at + 1
    BY <1>12
  <2>2. \A i \in Planned(Ins, job.raw) : CaseKey(Ins[i].file) \in seen'
    BY <1>1 DEF NameInv
  <2>3. ASSUME NEW k \in DOMAIN mods', k < at + 1
        PROVE  CaseKey(mods'[k].file) \in seen'
    <3>1. k < at \/ k = at
      BY <1>3, <1>4, <2>3
    <3>2. k < at => CaseKey(mods[k].file) \in seen
      BY <1>1, <1>4, <2>3 DEF NameInv
    <3> QED BY <1>4, <2>3, <3>1, <3>2
  <2>4. ASSUME NEW j \in DOMAIN mods', NEW k \in DOMAIN mods', j # k,
               j < at + 1 \/ Keeper(Ins, job.raw, mods'[j]),
               k < at + 1 \/ Keeper(Ins, job.raw, mods'[k])
        PROVE  CaseKey(mods'[j].file) # CaseKey(mods'[k].file)
    BY <1>4, <1>5, <2>4
  <2>5. NameInv'
    BY <1>6, <2>1, <2>2, <2>3, <2>4 DEF NameInv, Settled
  <2> QED BY <1>7, <1>9, <1>10, <1>11, <2>5 DEF IInv
<1>13. CASE at = Len(mods)
  <2>1. \A k \in DOMAIN mods : k < at + 1
    BY <1>3, <1>13
  <2>2. KeysApart(mods')
    BY <1>4, <2>1 DEF KeysApart
  <2>3. stage' = "rewrite"
    BY <1>13
  <2>4. NameInv'
    BY <2>2, <2>3 DEF NameInv
  <2> QED BY <1>7, <1>9, <1>10, <1>11, <2>4 DEF IInv
<1> QED BY <1>12, <1>13

LEMMA NameModuleInv ==
  ASSUME IInv, NameModule
  PROVE  IInv'
<1> DEFINE raw == job.raw
           m == mods[at]
<1>1. /\ stage = "name" /\ at \in DOMAIN mods
      /\ at' = IF at = Len(mods) THEN 1 ELSE at + 1
      /\ stage' = IF at = Len(mods) THEN "rewrite" ELSE stage
      /\ UNCHANGED <<job, reports, processed, preserved, unmatched, dropped, out>>
  BY DEF NameModule
<1>2. TypeOK /\ PushInv /\ KeptInv /\ MergeInv /\ NameInv
  BY DEF IInv
<1>3. /\ Gathered(Ins, raw, mods) /\ Seated(Ins, raw, mods) /\ ~Ambiguous(Ins, raw)
  BY <1>1, <1>2 DEF MergeInv, Merging
<1>4. mods \in Seq(Modules) /\ DOMAIN mods = 1..Len(mods) /\ Len(mods) \in Nat /\ at \in Nat
  BY <1>2, LenProperties DEF TypeOK
<1>5. /\ \A i \in Planned(Ins, raw) : CaseKey(Ins[i].file) \in seen
      /\ \A k \in DOMAIN mods : k < at => CaseKey(mods[k].file) \in seen
      /\ \A j, k \in DOMAIN mods :
           /\ j # k
           /\ j < at \/ Keeper(Ins, raw, mods[j])
           /\ k < at \/ Keeper(Ins, raw, mods[k])
           => CaseKey(mods[j].file) # CaseKey(mods[k].file)
  BY <1>1, <1>2 DEF NameInv, Settled
<1>6. \A k \in DOMAIN mods : Keeper(Ins, raw, mods[k]) => CaseKey(mods[k].file) \in seen
  BY <1>3, <1>5 DEF Seated, Keeper
<1>7. Holds(Ins, raw, m) <=> Keeper(Ins, raw, m)
  BY <1>1, <1>3 DEF Holds, Keeper, Seated
<1>8. \A k \in DOMAIN mods : k < at + 1 <=> k < at \/ k = at
  BY <1>4
<1>9. CASE Keeper(Ins, raw, m)
  <2>1. mods' = [mods EXCEPT ![at].reserved = TRUE] /\ seen' = seen
    BY <1>7, <1>9 DEF NameModule
  <2>2. /\ mods' \in Seq(Modules) /\ Alike(mods, mods')
        /\ \A j \in DOMAIN mods : mods'[j].file = mods[j].file /\ mods'[j].merged = mods[j].merged
    BY <1>1, <1>4, <2>1, MarkedModule
  <2>3. \A k \in DOMAIN mods : Keeper(Ins, raw, mods'[k]) <=> Keeper(Ins, raw, mods[k])
    BY <1>3, <2>2, StillGathered
  <2>4. Seated(Ins, raw, mods')
    <3>1. ASSUME NEW k \in DOMAIN mods
          PROVE  /\ Keeper(Ins, raw, mods'[k]) => mods'[k].file = Ins[mods'[k].input].file
                 /\ mods'[k].input \in Facades(Ins, raw) /\ ~mods'[k].entry =>
                      Len(mods'[k].file) = Len(Ins[mods'[k].input].file) + Len(mods'[k].orig)
                 /\ mods'[k].merged = mods'[k].file
      <4>1. /\ mods'[k].file = mods[k].file /\ mods'[k].merged = mods[k].merged
            /\ mods'[k].input = mods[k].input /\ mods'[k].entry = mods[k].entry
            /\ mods'[k].orig = mods[k].orig
        BY <2>2 DEF Alike
      <4> QED BY <1>3, <2>3, <4>1 DEF Seated
    <3>2. DOMAIN mods' = DOMAIN mods
      BY <2>2 DEF Alike
    <3> QED BY <3>1, <3>2 DEF Seated
  <2>5. CaseKey(mods'[at].file) \in seen'
    <3>1. mods'[at].file = m.file
      BY <1>1, <2>2
    <3>2. CaseKey(m.file) \in seen
      BY <1>1, <1>6, <1>9
    <3> QED BY <2>1, <3>1, <3>2
  <2>6. ASSUME NEW j \in DOMAIN mods, NEW k \in DOMAIN mods, j # k,
               j < at + 1 \/ Keeper(Ins, raw, mods[j]),
               k < at + 1 \/ Keeper(Ins, raw, mods[k])
        PROVE  CaseKey(mods'[j].file) # CaseKey(mods'[k].file)
    BY <1>5, <1>8, <1>9, <2>2, <2>6
  <2> QED BY <1>1, <2>1, <2>2, <2>4, <2>5, <2>6, NamedOn
<1>10. CASE ~Keeper(Ins, raw, m)
  <2>1. PICK name :
          /\ FirstFree(name, m.file, seen)
          /\ mods' = [mods EXCEPT ![at].file = name, ![at].merged = name]
          /\ seen' = seen \cup {CaseKey(name)}
    BY <1>7, <1>10 DEF NameModule
  <2>2. name \in Paths /\ Len(name) = Len(m.file) /\ CaseKey(name) \notin seen
    <3>1. m.file \in Paths
      BY <1>1, <1>4, ModuleFields
    <3> QED BY <2>1, <3>1, FreeName
  <2>3. /\ mods' \in Seq(Modules) /\ Alike(mods, mods')
        /\ mods'[at].file = name /\ mods'[at].merged = name
        /\ \A j \in DOMAIN mods : j # at => mods'[j] = mods[j]
    BY <1>1, <1>4, <2>1, <2>2, NamedModule
  <2>4. \A k \in DOMAIN mods : Keeper(Ins, raw, mods'[k]) <=> Keeper(Ins, raw, mods[k])
    BY <1>3, <2>3, StillGathered
  <2>5. Seated(Ins, raw, mods')
    <3>1. ASSUME NEW k \in DOMAIN mods
          PROVE  /\ Keeper(Ins, raw, mods'[k]) => mods'[k].file = Ins[mods'[k].input].file
                 /\ mods'[k].input \in Facades(Ins, raw) /\ ~mods'[k].entry =>
                      Len(mods'[k].file)
                        = Len(Ins[mods'[k].input].file) + Len(mods'[k].orig)
                 /\ mods'[k].merged = mods'[k].file
      <4>1. CASE k # at
        BY <1>3, <2>3, <4>1 DEF Seated
      <4>2. CASE k = at
        <5>1. ~Keeper(Ins, raw, mods'[at])
          BY <1>1, <1>10, <2>4
        <5>2. mods'[at].merged = mods'[at].file
          BY <2>3
        <5>3. /\ mods'[at].input = m.input /\ mods'[at].entry = m.entry
              /\ mods'[at].orig = m.orig
          BY <1>1, <2>3 DEF Alike
        <5>4. m.input \in Facades(Ins, raw) /\ ~m.entry =>
                Len(m.file) = Len(Ins[m.input].file) + Len(m.orig)
          BY <1>1, <1>3 DEF Seated
        <5>5. Len(mods'[at].file) = Len(m.file)
          BY <2>2, <2>3
        <5> QED BY <4>2, <5>1, <5>2, <5>3, <5>4, <5>5
      <4> QED BY <4>1, <4>2
    <3>2. DOMAIN mods' = DOMAIN mods
      BY <2>3 DEF Alike
    <3> QED BY <3>1, <3>2 DEF Seated
  <2>6. CaseKey(mods'[at].file) \in seen' /\ seen \subseteq seen'
    BY <2>1, <2>3
  <2>7. ASSUME NEW j \in DOMAIN mods, NEW k \in DOMAIN mods, j # k,
               j < at + 1 \/ Keeper(Ins, raw, mods[j]),
               k < at + 1 \/ Keeper(Ins, raw, mods[k])
        PROVE  CaseKey(mods'[j].file) # CaseKey(mods'[k].file)
    <3>1. \A x \in DOMAIN mods :
            x # at /\ (x < at + 1 \/ Keeper(Ins, raw, mods[x])) => CaseKey(mods[x].file) \in seen
      BY <1>5, <1>6, <1>8
    <3>2. CASE j # at /\ k # at
      BY <1>5, <1>8, <2>3, <2>7, <3>2
    <3>3. CASE j = at
      BY <2>2, <2>3, <2>7, <3>1, <3>3
    <3>4. CASE k = at
      BY <2>2, <2>3, <2>7, <3>1, <3>4
    <3> QED BY <3>2, <3>3, <3>4
  <2>8. \A k \in DOMAIN mods : k < at => mods'[k].file = mods[k].file
    BY <1>4, <2>3
  <2> QED BY <1>1, <2>3, <2>5, <2>6, <2>7, <2>8, NamedOn
<1> QED BY <1>9, <1>10

-----------------------------------------------------------------------------
(* Specifiers *)

(* Before a name is recovered every specifier resolves to where it leads. *)
LEMMA LinksResolve ==
  ASSUME IInv, stage = "rewrite", NEW k \in DOMAIN mods, NEW l \in Links(mods[k])
  PROVE  /\ l \in Edges
         /\ l.to \in DOMAIN mods
         /\ \A t \in DOMAIN mods :
              LeadsTo(k, l, t) => Resolve(mods[k].file, l.spec) = mods[t].file
<1> DEFINE m == mods[k]
           raw == job.raw
<1>1. TypeOK /\ PushInv /\ KeptInv /\ MergeInv
  BY DEF IInv
<1>2. Gathered(Ins, raw, mods) /\ Seated(Ins, raw, mods)
  BY <1>1 DEF MergeInv, Merging
<1>3. Fit(Ins) /\ raw \in BOOLEAN
  BY <1>1, InputsFit
<1>4. mods \in Seq(Modules) /\ DOMAIN mods = 1..Len(mods) /\ Len(mods) \in Nat
  BY <1>1, LenProperties DEF TypeOK
<1>5. ASSUME NEW j \in Siblings(mods, m),
             l = [spec |-> Followed(Ins, raw, mods, m, Relative(m.orig, mods[j].orig)),
                  to |-> j, authored |-> FALSE]
      PROVE  /\ l \in Edges
             /\ l.to \in DOMAIN mods
             /\ \A t \in DOMAIN mods :
                  LeadsTo(k, l, t) => Resolve(m.file, l.spec) = mods[t].file
  <2> DEFINE old == Relative(m.orig, mods[j].orig)
             spec == Followed(Ins, raw, mods, m, old)
  <2>1. j \in DOMAIN mods
    BY DEF Siblings
  <2>2. m.orig \in Paths /\ mods[j].orig \in Paths
    BY <1>4, <2>1, ModuleFields
  <2>3. old \in Specifiers /\ Resolve(m.orig, old) = mods[j].orig
    BY <2>2, RelativeResolves
  <2>4. spec \in Specifiers /\ Resolve(m.file, spec) = mods[j].file
    <3> HIDE DEF old
    <3> QED BY <1>2, <1>3, <2>3, FollowedNamed
  <2> HIDE DEF spec
  <2>5. l = [spec |-> spec, to |-> j, authored |-> FALSE]
    BY <1>5 DEF spec
  <2>6. l.spec = spec /\ l.to = j /\ l.authored = FALSE /\ l \in Edges
    BY <1>4, <2>1, <2>4, <2>5 DEF Edges, Specifiers
  <2>7. \A t \in DOMAIN mods : LeadsTo(k, l, t) => t = j
    BY <2>6 DEF LeadsTo, ReadsAs
  <2> QED BY <2>1, <2>4, <2>6, <2>7
<1>6. ASSUME NEW j \in DOMAIN mods, m.input \in Planned(Ins, raw), mods[j].file \in m.authored,
             l = [spec |-> Followed(Ins, raw, mods, m, Relative(Ins[m.input].file, mods[j].file)),
                  to |-> j, authored |-> TRUE]
      PROVE  /\ l \in Edges
             /\ l.to \in DOMAIN mods
             /\ \A t \in DOMAIN mods :
                  LeadsTo(k, l, t) => Resolve(m.file, l.spec) = mods[t].file
  <2> DEFINE old == Relative(Ins[m.input].file, mods[j].file)
             spec == Followed(Ins, raw, mods, m, old)
  <2>1. m.input \in DOMAIN Ins /\ mods[j].merged = mods[j].file
    BY <1>2 DEF Gathered, Seated
  <2>2. Ins[m.input].file \in Paths /\ mods[j].file \in Paths
    BY <1>3, <1>4, <2>1, InputFields, ModuleFields
  <2>3. old \in Specifiers
    BY <2>2, RelativeResolves
  <2>4. l.to = j /\ l.authored = TRUE
    BY <1>6
  <2>5. \A t : ReadsAs(k, l, t) <=> t \in Siblings(mods, m) /\ mods[t].orig = Resolve(m.orig, old)
    BY <2>1, <2>4 DEF ReadsAs
  <2>6. /\ spec \in Specifiers
        /\ \A t \in DOMAIN mods : LeadsTo(k, l, t) => Resolve(m.file, spec) = mods[t].file
    <3>1. CASE \E s \in DOMAIN mods : ReadsAs(k, l, s)
      <4>1. \A t \in DOMAIN mods : LeadsTo(k, l, t) <=> ReadsAs(k, l, t)
        BY <3>1 DEF LeadsTo
      <4>2. ASSUME NEW t \in DOMAIN mods, ReadsAs(k, l, t)
            PROVE  spec \in Specifiers /\ Resolve(m.file, spec) = mods[t].file
        <5>1. t \in Siblings(mods, m) /\ Resolve(m.orig, old) = mods[t].orig
          BY <2>5, <4>2
        <5> HIDE DEF old
        <5> QED BY <1>2, <1>3, <2>3, <5>1, FollowedNamed
      <4> HIDE DEF spec
      <4> QED BY <3>1, <4>1, <4>2
    <3>2. CASE ~\E s \in DOMAIN mods : ReadsAs(k, l, s)
      <4>1. \A s \in Siblings(mods, m) : mods[s].orig # Resolve(m.orig, old)
        BY <2>5, <3>2 DEF Siblings
      <4>2. spec \in Specifiers /\ Resolve(m.file, spec) = mods[j].file
        BY <1>2, <1>3, <1>6, <4>1, FollowedAuthored
      <4>3. \A t \in DOMAIN mods : LeadsTo(k, l, t) => t = j
        BY <2>4, <3>2 DEF LeadsTo
      <4> HIDE DEF spec
      <4> QED BY <4>2, <4>3
    <3> QED BY <3>1, <3>2
  <2> HIDE DEF spec
  <2>7. l = [spec |-> spec, to |-> j, authored |-> TRUE]
    BY <1>6 DEF spec
  <2>8. l.spec = spec /\ l \in Edges
    BY <1>4, <2>6, <2>7 DEF Edges, Specifiers
  <2> QED BY <2>4, <2>6, <2>8
<1> QED BY <1>5, <1>6 DEF Links

(* Where a specifier leads is settled by the split and the merge. *)
LEMMA SameTargets ==
  ASSUME Ins' = Ins, DOMAIN mods' = DOMAIN mods,
         \A k \in DOMAIN mods :
           /\ mods'[k].input = mods[k].input /\ mods'[k].orig = mods[k].orig
           /\ mods'[k].merged = mods[k].merged,
         NEW k \in DOMAIN mods, NEW l, l.to \in DOMAIN mods,
         NEW e, e.to = l.to, e.authored = l.authored
  PROVE  \A t \in DOMAIN mods : LeadsTo(k, e, t)' <=> LeadsTo(k, l, t)
<1>1. \A t \in DOMAIN mods : ReadsAs(k, e, t)' <=> ReadsAs(k, l, t)
  BY DEF ReadsAs, Siblings
<1> QED BY <1>1 DEF LeadsTo

(* A specifier leads to some module. *)
LEMMA LeadsSomewhere ==
  ASSUME NEW k, NEW l, l.to \in DOMAIN mods
  PROVE  \E t \in DOMAIN mods : LeadsTo(k, l, t)
<1>1. CASE \E s \in DOMAIN mods : ReadsAs(k, l, s)
  BY <1>1 DEF LeadsTo
<1>2. CASE ~\E s \in DOMAIN mods : ReadsAs(k, l, s)
  BY <1>2 DEF LeadsTo
<1> QED BY <1>1, <1>2

(* The loop over the modules starts with an empty output. *)
LEMMA ConvertStarts ==
  ASSUME TypeOK, out = << >>, UNCHANGED <<reports, out, preserved, processed>>,
         at' = 1, stage' \in {"recover", "eliminate", "convert"},
         \A i \in DOMAIN processed : \E k \in DOMAIN mods' : mods'[k].input = i,
         DOMAIN mods' \subseteq Nat \ {0}
  PROVE  OutInv' /\ LeftInv'
<1>1. DOMAIN out = {} /\ DOMAIN out' = {}
  OBVIOUS
<1>2. \A id \in DOMAIN reports : reports[id].modules = {}
  BY <1>1 DEF TypeOK
<1>3. Listed'
  BY <1>1, <1>2 DEF Listed, KeysApart
<1>4. OutInv'
  BY <1>3 DEF OutInv, Output
<1>5. LeftInv'
  <2>1. stage' = "convert" => Converted' = {}
    <3>1. \A k \in DOMAIN mods' : ~(k < 1)
      OBVIOUS
    <3> QED BY <3>1 DEF Converted
  <2> QED BY <1>1, <2>1 DEF LeftInv, Output
<1> QED BY <1>4, <1>5

LEMMA RewriteInv ==
  ASSUME IInv, RewriteModules
  PROVE  IInv'
<1> DEFINE raw == job.raw
<1>1. /\ stage = "rewrite" /\ stage' \in {"convert", "recover"}
      /\ mods' = [k \in DOMAIN mods |-> [mods[k] EXCEPT !.links = Links(mods[k])]]
      /\ UNCHANGED <<at, job, reports, processed, preserved, unmatched, seen, dropped, out>>
  BY DEF RewriteModules
<1>2. TypeOK /\ PushInv /\ KeptInv /\ MergeInv /\ NameInv /\ OutInv
  BY DEF IInv
<1>3. /\ Gathered(Ins, raw, mods) /\ Seated(Ins, raw, mods) /\ out = << >> /\ at = 1
      /\ \A i \in DOMAIN Ins : \E k \in DOMAIN mods : mods[k].input = i
      /\ KeysApart(mods)
  BY <1>1, <1>2 DEF MergeInv, OutInv, NameInv, Merging, Output
<1>4. mods \in Seq(Modules) /\ DOMAIN mods = 1..Len(mods) /\ Len(mods) \in Nat
  BY <1>2, LenProperties DEF TypeOK
<1>5. Ins' = Ins /\ DOMAIN mods' = DOMAIN mods
  BY <1>1 DEF Ins
<1>6. ASSUME NEW k \in DOMAIN mods
      PROVE  /\ mods'[k] \in Modules
             /\ mods'[k].input = mods[k].input /\ mods'[k].nth = mods[k].nth
             /\ mods'[k].orig = mods[k].orig /\ mods'[k].entry = mods[k].entry
             /\ mods'[k].own = mods[k].own /\ mods'[k].authored = mods[k].authored
             /\ mods'[k].suggests = mods[k].suggests
             /\ mods'[k].file = mods[k].file /\ mods'[k].merged = mods[k].merged
             /\ mods'[k].links = Links(mods[k])
  <2>1. mods'[k] = [mods[k] EXCEPT !.links = Links(mods[k])]
    BY <1>1
  <2>2. mods[k] \in Modules
    BY <1>4, ModuleFields
  <2>3. Links(mods[k]) \in SUBSET Edges
    BY <1>1, LinksResolve
  <2> DEFINE L == Links(mods[k])
  <2> HIDE DEF L
  <2>4. mods'[k] = [mods[k] EXCEPT !.links = L] /\ L \in SUBSET Edges
    BY <2>1, <2>3 DEF L
  <2>5. mods'[k] \in Modules
    BY <2>2, <2>4 DEF Modules
  <2>6. /\ mods'[k].input = mods[k].input /\ mods'[k].nth = mods[k].nth
        /\ mods'[k].orig = mods[k].orig /\ mods'[k].entry = mods[k].entry
        /\ mods'[k].own = mods[k].own /\ mods'[k].authored = mods[k].authored
        /\ mods'[k].suggests = mods[k].suggests
        /\ mods'[k].file = mods[k].file /\ mods'[k].merged = mods[k].merged
        /\ mods'[k].links = L
    BY <2>2, <2>4 DEF Modules
  <2> QED BY <2>5, <2>6 DEF L
<1>7. mods' \in Seq(Modules)
  <2>1. mods' \in [1..Len(mods) -> Modules]
    BY <1>1, <1>4, <1>6
  <2> QED BY <1>4, <2>1, SeqDef
<1>8. Alike(mods, mods')
  BY <1>5, <1>6 DEF Alike
<1>9. /\ Gathered(Ins, raw, mods')
      /\ \A k \in DOMAIN mods : Keeper(Ins, raw, mods'[k]) <=> Keeper(Ins, raw, mods[k])
  BY <1>3, <1>7, <1>8, StillGathered
<1>10. Seated(Ins, raw, mods')
  <2>1. ASSUME NEW k \in DOMAIN mods
        PROVE  /\ Keeper(Ins, raw, mods'[k]) => mods'[k].file = Ins[mods'[k].input].file
               /\ mods'[k].input \in Facades(Ins, raw) /\ ~mods'[k].entry =>
                    Len(mods'[k].file) = Len(Ins[mods'[k].input].file) + Len(mods'[k].orig)
               /\ mods'[k].merged = mods'[k].file
    <3>1. /\ mods'[k].file = mods[k].file /\ mods'[k].merged = mods[k].merged
          /\ mods'[k].input = mods[k].input /\ mods'[k].entry = mods[k].entry
          /\ mods'[k].orig = mods[k].orig
      BY <1>6
    <3> QED BY <1>3, <1>9, <3>1 DEF Seated
  <2> QED BY <1>5, <2>1 DEF Seated
<1>11. TypeOK'
  <2>1. stage' \in Stages
    BY <1>1 DEF Stages
  <2>2. \A k \in DOMAIN mods' : mods'[k].input \in DOMAIN processed'
    BY <1>1, <1>2, <1>5, <1>6 DEF TypeOK
  <2> QED BY <1>1, <1>2, <1>7, <2>1, <2>2 DEF TypeOK
<1>12. PushInv' /\ KeptInv'
  BY <1>1, <1>2, Steady
<1>13. MergeInv'
  <2>1. \A i \in DOMAIN Ins : \E k \in DOMAIN mods' : mods'[k].input = i
    BY <1>3, <1>5, <1>6
  <2> QED BY <1>1, <1>3, <1>5, <1>9, <1>10, <2>1 DEF MergeInv, Merging
<1>14. NameInv'
  BY <1>1, <1>3, <1>5, <1>6 DEF NameInv, KeysApart
<1>15. EdgeInv'
  <2>1. ASSUME NEW k \in DOMAIN mods', NEW l \in mods'[k].links
        PROVE  /\ l.to \in DOMAIN mods'
               /\ \A t \in DOMAIN mods' :
                    LeadsTo(k, l, t)' => Resolve(mods'[k].file, l.spec) = mods'[t].file
    <3>1. k \in DOMAIN mods /\ l \in Links(mods[k])
      BY <1>5, <1>6
    <3>2. /\ l.to \in DOMAIN mods
          /\ \A t \in DOMAIN mods :
               LeadsTo(k, l, t) => Resolve(mods[k].file, l.spec) = mods[t].file
      BY <1>1, <3>1, LinksResolve
    <3>3. \A t \in DOMAIN mods : LeadsTo(k, l, t)' <=> LeadsTo(k, l, t)
      BY <1>5, <1>6, <3>1, <3>2, SameTargets
    <3> QED BY <1>5, <1>6, <3>1, <3>2, <3>3
  <2> QED BY <2>1 DEF EdgeInv, EdgesResolve
<1>16. OutInv' /\ LeftInv'
  <2>1. \A i \in DOMAIN processed : \E k \in DOMAIN mods' : mods'[k].input = i
    BY <1>2, <1>3, <1>5, <1>6, InputsFit
  <2>2. DOMAIN mods' \subseteq Nat \ {0}
    BY <1>4, <1>5
  <2> QED BY <1>1, <1>2, <1>3, <2>1, <2>2, ConvertStarts
<1> QED BY <1>11, <1>12, <1>13, <1>14, <1>15, <1>16 DEF IInv

LEMMA RecoverInv ==
  ASSUME IInv, RecoverNames
  PROVE  IInv'
<1> DEFINE raw == job.raw
           final == FinalNames(mods, Suggests(mods))
           Follow(k) == {[l EXCEPT !.spec = Rewrite(mods, final, k, l.spec)] : l \in mods[k].links}
<1>1. /\ stage = "recover" /\ stage' = "eliminate"
      /\ mods' = [k \in DOMAIN mods |->
                    [mods[k] EXCEPT
                       !.file = final[k],
                       !.links = {[l EXCEPT !.spec = Rewrite(mods, final, k, l.spec)] : l \in @}]]
      /\ UNCHANGED <<at, job, reports, processed, preserved, unmatched, seen, dropped, out>>
  BY DEF RecoverNames, Suggests
<1>2. TypeOK /\ PushInv /\ KeptInv /\ MergeInv /\ NameInv /\ EdgeInv /\ OutInv
  BY DEF IInv
<1>3. /\ Gathered(Ins, raw, mods) /\ Seated(Ins, raw, mods) /\ out = << >> /\ at = 1
      /\ \A i \in DOMAIN Ins : \E k \in DOMAIN mods : mods[k].input = i
      /\ KeysApart(mods)
  BY <1>1, <1>2 DEF MergeInv, OutInv, NameInv, Merging, Output
<1>4. mods \in Seq(Modules) /\ DOMAIN mods = 1..Len(mods) /\ Len(mods) \in Nat
  BY <1>2, LenProperties DEF TypeOK
<1>5. Ins' = Ins /\ DOMAIN mods' = DOMAIN mods
  BY <1>1 DEF Ins
<1>6. Fit(Ins) /\ raw \in BOOLEAN
  BY <1>2, InputsFit
<1>7. \A k \in DOMAIN mods : Suggestible(mods[k])
  <2> SUFFICES ASSUME NEW k \in DOMAIN mods PROVE Suggestible(mods[k])
    OBVIOUS
  <2> DEFINE ps == ModulesOf(Ins, raw, mods[k].input)
  <2>1. /\ mods[k].input \in DOMAIN Ins /\ mods[k].nth \in DOMAIN ps
        /\ mods[k].suggests = ps[mods[k].nth].suggests
    BY <1>3 DEF Gathered
  <2>2. Suggestible(ps[mods[k].nth])
    BY <1>6, <2>1, ModulesOfInput
  <2> QED BY <2>1, <2>2 DEF Suggestible
<1>8. \A k \in DOMAIN mods : final[k] \in Paths
  BY <1>4, <1>7, FinalPaths
<1>9. \A k \in DOMAIN mods : \A l \in mods[k].links : l \in Edges
  <2>1. \A k \in DOMAIN mods : mods[k] \in Modules
    BY <1>4, ModuleFields
  <2> QED BY <2>1 DEF Modules
<1>10. ASSUME NEW k \in DOMAIN mods, NEW l \in mods[k].links
       PROVE  LET spec == Rewrite(mods, final, k, l.spec)
              IN  /\ spec \in Specifiers
                  /\ l.to \in DOMAIN mods
                  /\ \A t \in DOMAIN mods : LeadsTo(k, l, t) =>
                       \/ Resolve(final[k], spec) = final[t]
                       \/ Dir(final[k]) # Dir(mods[k].file) /\ final[t] = mods[t].file
  <2>1. l.spec \in Specifiers
    BY <1>9 DEF Edges, Specifiers
  <2>2. /\ l.to \in DOMAIN mods
        /\ \A t \in DOMAIN mods :
             LeadsTo(k, l, t) => Resolve(mods[k].file, l.spec) = mods[t].file
    BY <1>1, <1>2 DEF EdgeInv
  <2>3. ASSUME NEW t \in DOMAIN mods, LeadsTo(k, l, t)
        PROVE  LET spec == Rewrite(mods, final, k, l.spec)
               IN  /\ spec \in Specifiers
                   /\ \/ Resolve(final[k], spec) = final[t]
                      \/ Dir(final[k]) # Dir(mods[k].file) /\ final[t] = mods[t].file
    BY <1>3, <1>4, <1>7, <2>1, <2>2, <2>3, RecoveredEdge
  <2>4. \E t \in DOMAIN mods : LeadsTo(k, l, t)
    BY <2>2, LeadsSomewhere
  <2> HIDE DEF final
  <2> QED BY <2>2, <2>3, <2>4
<1>11. ASSUME NEW k \in DOMAIN mods, NEW e \in Follow(k)
       PROVE  /\ e \in Edges
              /\ \E l \in mods[k].links :
                   /\ e.to = l.to /\ e.authored = l.authored /\ l.to \in DOMAIN mods
                   /\ \A t \in DOMAIN mods : LeadsTo(k, l, t) =>
                        \/ Resolve(final[k], e.spec) = final[t]
                        \/ Dir(final[k]) # Dir(mods[k].file) /\ final[t] = mods[t].file
  <2>1. PICK l \in mods[k].links : e = [l EXCEPT !.spec = Rewrite(mods, final, k, l.spec)]
    BY <1>11
  <2> DEFINE spec == Rewrite(mods, final, k, l.spec)
  <2>2. /\ spec \in Specifiers
        /\ l.to \in DOMAIN mods
        /\ \A t \in DOMAIN mods : LeadsTo(k, l, t) =>
             \/ Resolve(final[k], spec) = final[t]
             \/ Dir(final[k]) # Dir(mods[k].file) /\ final[t] = mods[t].file
    BY <1>10
  <2> HIDE DEF spec, final
  <2>3. l \in Edges
    BY <1>9
  <2>4. e = [l EXCEPT !.spec = spec]
    BY <2>1 DEF spec
  <2>5. e.spec = spec /\ e.to = l.to /\ e.authored = l.authored /\ e \in Edges
    BY <2>2, <2>3, <2>4 DEF Edges, Specifiers
  <2> QED BY <2>2, <2>5
<1>12. ASSUME NEW k \in DOMAIN mods
       PROVE  mods'[k] = [mods[k] EXCEPT !.file = final[k], !.links = Follow(k)]
  BY <1>1, <1>12
<1>13. \A k \in DOMAIN mods : Follow(k) \in SUBSET Edges
  BY <1>11
<1> HIDE DEF final, Follow
<1>14. ASSUME NEW k \in DOMAIN mods
       PROVE  /\ mods'[k] \in Modules
              /\ mods'[k].input = mods[k].input /\ mods'[k].nth = mods[k].nth
              /\ mods'[k].orig = mods[k].orig /\ mods'[k].entry = mods[k].entry
              /\ mods'[k].own = mods[k].own /\ mods'[k].authored = mods[k].authored
              /\ mods'[k].suggests = mods[k].suggests
              /\ mods'[k].file = final[k] /\ mods'[k].merged = mods[k].merged
              /\ mods'[k].links = Follow(k)
  <2>1. mods[k] \in Modules
    BY <1>4, ModuleFields
  <2>2. mods'[k] = [mods[k] EXCEPT !.file = final[k], !.links = Follow(k)]
    BY <1>12
  <2>3. final[k] \in Paths /\ Follow(k) \in SUBSET Edges
    BY <1>8, <1>13
  <2>4. mods'[k] \in Modules
    BY <2>1, <2>2, <2>3 DEF Modules
  <2>5. /\ mods'[k].input = mods[k].input /\ mods'[k].nth = mods[k].nth
        /\ mods'[k].orig = mods[k].orig /\ mods'[k].entry = mods[k].entry
        /\ mods'[k].own = mods[k].own /\ mods'[k].authored = mods[k].authored
        /\ mods'[k].suggests = mods[k].suggests
        /\ mods'[k].file = final[k] /\ mods'[k].merged = mods[k].merged
        /\ mods'[k].links = Follow(k)
    BY <2>1, <2>2 DEF Modules
  <2> QED BY <2>4, <2>5
<1>15. mods' \in Seq(Modules)
  <2>1. mods' \in [1..Len(mods) -> Modules]
    BY <1>1, <1>4, <1>14
  <2> QED BY <1>4, <2>1, SeqDef
<1>16. Alike(mods, mods')
  BY <1>5, <1>14 DEF Alike
<1>17. Gathered(Ins, raw, mods')
  BY <1>3, <1>15, <1>16, StillGathered
<1>18. TypeOK'
  <2>1. stage' \in Stages
    BY <1>1 DEF Stages
  <2>2. \A k \in DOMAIN mods' : mods'[k].input \in DOMAIN processed'
    BY <1>1, <1>2, <1>5, <1>14 DEF TypeOK
  <2> QED BY <1>1, <1>2, <1>15, <2>1, <2>2 DEF TypeOK
<1>19. PushInv' /\ KeptInv'
  BY <1>1, <1>2, Steady
<1>20. MergeInv'
  <2>1. \A i \in DOMAIN Ins : \E k \in DOMAIN mods' : mods'[k].input = i
    BY <1>3, <1>5, <1>14
  <2> QED BY <1>1, <1>3, <1>5, <1>17, <2>1 DEF MergeInv, Merging
<1>21. NameInv'
  <2>1. \A i, j \in DOMAIN mods : i # j => CaseKey(final[i]) # CaseKey(final[j])
    BY <1>3, FinalNamesApart DEF final
  <2>2. \A i \in DOMAIN mods : mods'[i].file = final[i]
    BY <1>14
  <2>3. KeysApart(mods')
    BY <1>5, <2>1, <2>2 DEF KeysApart
  <2> QED BY <1>1, <2>3 DEF NameInv
<1>22. EdgeInv'
  <2>1. ASSUME NEW k \in DOMAIN mods', NEW t \in DOMAIN mods', NEW e \in mods'[k].links,
               LeadsTo(k, e, t)'
        PROVE  \/ Resolve(mods'[k].file, e.spec) = mods'[t].file
               \/ /\ Dir(mods'[k].file) # Dir(mods'[k].merged)
                  /\ mods'[t].file = mods'[t].merged
    <3>1. k \in DOMAIN mods /\ t \in DOMAIN mods /\ e \in Follow(k)
      BY <1>5, <1>14
    <3>2. PICK l \in mods[k].links :
            /\ e.to = l.to /\ e.authored = l.authored /\ l.to \in DOMAIN mods
            /\ \A u \in DOMAIN mods : LeadsTo(k, l, u) =>
                 \/ Resolve(final[k], e.spec) = final[u]
                 \/ Dir(final[k]) # Dir(mods[k].file) /\ final[u] = mods[u].file
      BY <1>11, <3>1
    <3>3. LeadsTo(k, l, t)
      BY <1>5, <1>14, <2>1, <3>1, <3>2, SameTargets
    <3>4. \A j \in DOMAIN mods : mods'[j].file = final[j] /\ mods'[j].merged = mods[j].file
      BY <1>3, <1>14 DEF Seated
    <3> QED BY <3>1, <3>2, <3>3, <3>4
  <2> QED BY <1>1, <2>1 DEF EdgeInv, EdgesResolve
<1>23. OutInv' /\ LeftInv'
  <2>1. \A i \in DOMAIN processed : \E k \in DOMAIN mods' : mods'[k].input = i
    BY <1>2, <1>3, <1>5, <1>14, InputsFit
  <2>2. DOMAIN mods' \subseteq Nat \ {0}
    BY <1>4, <1>5
  <2> QED BY <1>1, <1>2, <1>3, <2>1, <2>2, ConvertStarts
<1> QED BY <1>18, <1>19, <1>20, <1>21, <1>22, <1>23 DEF IInv

(* Elimination names no module and moves none. *)
LEMMA EliminateInv ==
  ASSUME IInv, Eliminate
  PROVE  IInv'
<1>1. /\ stage = "eliminate" /\ stage' = "convert"
      /\ dropped' \subseteq DOMAIN mods
      /\ UNCHANGED <<at, job, reports, processed, preserved, unmatched, mods, seen, out>>
  BY DEF Eliminate
<1>2. TypeOK /\ PushInv /\ KeptInv /\ MergeInv /\ NameInv /\ EdgeInv /\ OutInv
  BY DEF IInv
<1>3. Ins' = Ins
  BY <1>1 DEF Ins
<1>4. TypeOK'
  <2>1. stage' \in Stages
    BY <1>1 DEF Stages
  <2> QED BY <1>1, <1>2, <2>1 DEF TypeOK
<1>5. PushInv' /\ KeptInv'
  BY <1>1, <1>2, Steady
<1>6. MergeInv' /\ NameInv'
  BY <1>1, <1>2, <1>3 DEF MergeInv, NameInv, Merging
<1>7. EdgeInv'
  BY <1>1, <1>2 DEF EdgeInv, EdgesResolve, LeadsTo, ReadsAs, Ins
<1>8. OutInv' /\ LeftInv'
  <2>1. \A i \in DOMAIN processed : \E k \in DOMAIN mods : mods[k].input = i
    BY <1>1, <1>2, InputsFit DEF MergeInv, Merging
  <2>2. DOMAIN mods \subseteq Nat \ {0}
    <3>1. mods \in Seq(Modules)
      BY <1>2 DEF TypeOK
    <3>2. DOMAIN mods = 1..Len(mods) /\ Len(mods) \in Nat
      BY <3>1, LenProperties
    <3> QED BY <3>2
  <2>3. out = << >> /\ at = 1
    BY <1>1, <1>2 DEF OutInv, MergeInv, Output
  <2> QED BY <1>1, <1>2, <2>1, <2>2, <2>3, ConvertStarts
<1> QED BY <1>4, <1>5, <1>6, <1>7, <1>8 DEF IInv

-----------------------------------------------------------------------------
(* Output *)

(* A function on 1..n is a sequence. *)
LEMMA IntoSeq ==
  ASSUME NEW S, NEW n \in Nat, NEW f \in [1..n -> S]
  PROVE  f \in Seq(S)
  BY SeqDef

(* One more module in the output, of an input whose report lists it, under a   *)
(* name that is free there.                                                  *)
LEMMA GrownOutput ==
  ASSUME TypeOK, Listed, NEW o \in Outputs,
         o.id \in DOMAIN reports, o.push = reports[o.id].push,
         reports[o.id].action # "Skipped",
         \A k \in DOMAIN out : CaseKey(out[k].file) # CaseKey(o.file),
         out' = Append(out, o),
         reports' = [reports EXCEPT ![o.id].modules = @ \cup {Len(out) + 1}]
  PROVE  /\ out' \in Seq(Outputs) /\ reports' \in Seq(Reports)
         /\ DOMAIN reports' = DOMAIN reports
         /\ \A id \in DOMAIN reports : /\ reports'[id].push = reports[id].push
                                       /\ reports'[id].action = reports[id].action
                                       /\ reports'[id].modules \subseteq DOMAIN out'
         /\ \A k \in DOMAIN out' : out'[k].id \in DOMAIN reports
         /\ Len(out) + 1 \in DOMAIN out' /\ out'[Len(out) + 1] = o
         /\ \A k \in DOMAIN out : k \in DOMAIN out' /\ out'[k] = out[k]
         /\ \A k \in DOMAIN out' : k \in DOMAIN out \/ k = Len(out) + 1
         /\ Listed'
<1> DEFINE n == Len(out)
<1>1. out \in Seq(Outputs) /\ reports \in Seq(Reports)
  BY DEF TypeOK
<1>2. DOMAIN out = 1..n /\ n \in Nat
  BY <1>1, LenProperties
<1> HIDE DEF n
<1>3. reports' = [reports EXCEPT ![o.id].modules = @ \cup {n + 1}]
  BY DEF n
<1>4. /\ out' \in Seq(Outputs) /\ Len(out') = n + 1
      /\ \A k \in 1..n : out'[k] = out[k]
      /\ out'[n + 1] = o
  BY <1>1, AppendProperties DEF n
<1>5. DOMAIN out' = 1..(n + 1)
  BY <1>4, LenProperties
<1>6. \A k \in DOMAIN out' : k \in DOMAIN out \/ k = n + 1
  BY <1>2, <1>5
<1>7. n + 1 \in DOMAIN out' /\ n + 1 \notin DOMAIN out /\ DOMAIN out \subseteq DOMAIN out'
  BY <1>2, <1>5
<1>8. \A k \in DOMAIN out : out'[k] = out[k]
  BY <1>2, <1>4
<1>9. DOMAIN reports' = DOMAIN reports
  BY <1>3
<1>10. ASSUME NEW id \in DOMAIN reports
       PROVE  /\ reports'[id] \in Reports
              /\ reports'[id].push = reports[id].push
              /\ reports'[id].action = reports[id].action
              /\ reports'[id].modules
                   = IF id = o.id THEN reports[id].modules \cup {n + 1}
                     ELSE reports[id].modules
  <2>1. reports[id] \in Reports
    BY <1>1, ElementOfSeq
  <2>2. CASE id # o.id
    <3>1. reports'[id] = reports[id]
      BY <1>3, <2>2
    <3> QED BY <2>1, <2>2, <3>1
  <2>3. CASE id = o.id
    <3>1. reports'[id] = [reports[id] EXCEPT !.modules = @ \cup {n + 1}]
      BY <1>3, <2>3
    <3>2. n + 1 \in Nat
      BY <1>2
    <3>3. reports'[id] \in Reports
      BY <2>1, <3>1, <3>2 DEF Reports
    <3>4. /\ reports'[id].push = reports[id].push
          /\ reports'[id].action = reports[id].action
          /\ reports'[id].modules = reports[id].modules \cup {n + 1}
      BY <2>1, <3>1 DEF Reports
    <3> QED BY <2>3, <3>3, <3>4
  <2> QED BY <2>2, <2>3
<1>11. reports' \in Seq(Reports)
  <2>1. DOMAIN reports = 1..Len(reports) /\ Len(reports) \in Nat
    BY <1>1, LenProperties
  <2>2. reports' \in [1..Len(reports) -> Reports]
    <3>1. reports' = [i \in DOMAIN reports' |-> reports'[i]]
      BY <1>3
    <3> QED BY <1>9, <1>10, <2>1, <3>1
  <2> QED BY <2>1, <2>2, IntoSeq
<1>12. ASSUME NEW id \in DOMAIN reports
       PROVE  reports'[id].modules \subseteq DOMAIN out'
  <2> DEFINE M == reports[id].modules
  <2>1. M \subseteq DOMAIN out
    BY DEF TypeOK
  <2>2. reports'[id].modules = M \cup {n + 1} \/ reports'[id].modules = M
    BY <1>10
  <2> HIDE DEF M
  <2> QED BY <1>7, <2>1, <2>2
<1>13. \A k \in DOMAIN out' : out'[k].id \in DOMAIN reports
  BY <1>4, <1>6, <1>8 DEF TypeOK
<1>14. KeysApart(out')
  BY <1>4, <1>6, <1>8 DEF Listed, KeysApart
<1>15. ASSUME NEW k \in DOMAIN out'
       PROVE  /\ out'[k].push = reports'[out'[k].id].push
              /\ reports'[out'[k].id].action # "Skipped"
  <2>1. CASE k \in DOMAIN out
    <3>1. out[k].id \in DOMAIN reports /\ out'[k] = out[k]
      BY <1>8, <2>1 DEF TypeOK
    <3> QED BY <1>10, <2>1, <3>1 DEF Listed
  <2>2. CASE k = n + 1
    BY <1>4, <1>10, <2>2
  <2> QED BY <1>6, <2>1, <2>2
<1>16. ASSUME NEW id \in DOMAIN reports'
       PROVE  reports'[id].modules = {k \in DOMAIN out' : out'[k].id = id}
  <2>1. id \in DOMAIN reports /\ reports[id].modules = {k \in DOMAIN out : out[k].id = id}
    BY <1>9 DEF Listed
  <2>2. CASE id = o.id
    <3>1. {k \in DOMAIN out' : out'[k].id = id} = {k \in DOMAIN out : out[k].id = id} \cup {n + 1}
      BY <1>4, <1>6, <1>7, <1>8, <2>2
    <3> QED BY <1>10, <2>1, <2>2, <3>1
  <2>3. CASE id # o.id
    <3>1. {k \in DOMAIN out' : out'[k].id = id} = {k \in DOMAIN out : out[k].id = id}
      BY <1>4, <1>6, <1>7, <1>8, <2>3
    <3> QED BY <1>10, <2>1, <2>3, <3>1
  <2> QED BY <2>2, <2>3
<1>17. Listed'
  BY <1>14, <1>15, <1>16 DEF Listed
<1> QED BY <1>4, <1>6, <1>7, <1>8, <1>9, <1>10, <1>11, <1>12, <1>13, <1>17 DEF n

(* A round of the loop, given what it left in the output and the reports. *)
LEMMA ConvertInv ==
  ASSUME IInv, ConvertModule
  PROVE  IInv'
<1> DEFINE i == mods[at].input
           o == [file |-> mods[at].file, id |-> processed[i].id, push |-> processed[i].push]
<1>1. /\ stage = "convert" /\ at \in DOMAIN mods
      /\ at' = IF at = Len(mods) THEN 1 ELSE at + 1
      /\ stage' = IF at = Len(mods) THEN "preserve" ELSE stage
      /\ UNCHANGED <<job, processed, preserved, unmatched, mods, seen, dropped>>
  BY DEF ConvertModule
<1>2. \/ at \in dropped /\ out' = out /\ reports' = reports
      \/ /\ at \notin dropped
         /\ out' = Append(out, o)
         /\ reports' = [reports EXCEPT ![o.id].modules = @ \cup {Len(out) + 1}]
  BY DEF ConvertModule, IdOf
<1>3. TypeOK /\ PushInv /\ KeptInv /\ MergeInv /\ NameInv /\ EdgeInv /\ OutInv /\ LeftInv
  BY DEF IInv
<1>4. mods \in Seq(Modules) /\ DOMAIN mods = 1..Len(mods) /\ Len(mods) \in Nat
  BY <1>3, LenProperties DEF TypeOK
<1>5. /\ i \in DOMAIN processed /\ processed[i] \in Inputs /\ processed[i].id \in DOMAIN reports
      /\ processed[i].push = reports[processed[i].id].push
      /\ reports[processed[i].id].action \in Split
  <2>1. i \in DOMAIN processed /\ processed \in Seq(Inputs)
    BY <1>1, <1>3 DEF TypeOK
  <2> HIDE DEF i
  <2> QED BY <1>3, <2>1, ElementOfSeq DEF TypeOK, KeptInv
<1>6. /\ o \in Outputs /\ o.file = mods[at].file
      /\ o.id = processed[i].id /\ o.push = processed[i].push
  <2>1. mods[at].file \in Paths
    BY <1>1, <1>4, ModuleFields
  <2> HIDE DEF i
  <2> QED BY <1>5, <2>1 DEF Outputs, Inputs
<1> HIDE DEF o
<1>7. /\ Listed /\ KeysApart(mods)
      /\ \A k \in DOMAIN out : \E m \in Converted : Became(m, k)
  BY <1>1, <1>3 DEF OutInv, LeftInv, NameInv, Output
<1>8. \A k \in Converted : k \in DOMAIN mods \ dropped /\ k < at
  BY <1>1 DEF Converted
<1>9. \A k \in DOMAIN out : CaseKey(out[k].file) # CaseKey(o.file)
  <2>1. ASSUME NEW k \in DOMAIN out
        PROVE  CaseKey(out[k].file) # CaseKey(o.file)
    <3>1. PICK m \in Converted : Became(m, k)
      BY <1>7
    <3>2. m \in DOMAIN mods /\ m # at /\ out[k].file = mods[m].file
      BY <1>1, <1>4, <1>8, <3>1 DEF Became
    <3> QED BY <1>1, <1>6, <1>7, <3>2 DEF KeysApart
  <2> QED BY <2>1
(* What holds of the output and the reports in either case. *)
<1>10. /\ out' \in Seq(Outputs) /\ reports' \in Seq(Reports)
       /\ DOMAIN reports' = DOMAIN reports
       /\ \A id \in DOMAIN reports : /\ reports'[id].push = reports[id].push
                                     /\ reports'[id].action = reports[id].action
                                     /\ reports'[id].modules \subseteq DOMAIN out'
       /\ \A k \in DOMAIN out' : out'[k].id \in DOMAIN reports
       /\ \A k \in DOMAIN out : k \in DOMAIN out' /\ out'[k] = out[k]
       /\ \/ at \in dropped /\ DOMAIN out' = DOMAIN out
          \/ /\ at \notin dropped
             /\ Len(out) + 1 \in DOMAIN out' /\ out'[Len(out) + 1] = o
             /\ \A k \in DOMAIN out' : k \in DOMAIN out \/ k = Len(out) + 1
       /\ Listed'
  <2>1. CASE at \in dropped
    BY <1>2, <1>3, <1>7, <2>1 DEF TypeOK, Listed
  <2>2. CASE at \notin dropped
    BY <1>2, <1>3, <1>5, <1>6, <1>7, <1>9, <2>2, GrownOutput DEF Split
  <2> QED BY <2>1, <2>2
<1>11. \A k : k \in Converted' <=> k \in Converted \/ (k = at /\ at \notin dropped)
  BY <1>1, <1>4 DEF Converted
<1>12. TypeOK'
  <2>1. stage' \in Stages /\ at' \in Nat \ {0}
    BY <1>1, <1>4 DEF Stages
  <2>2. /\ \A id \in DOMAIN processed' : processed'[id].id \in DOMAIN reports'
        /\ \A id \in DOMAIN preserved' : preserved'[id].id \in DOMAIN reports'
    BY <1>1, <1>3, <1>10 DEF TypeOK
  <2>3. /\ \A id \in DOMAIN reports' : reports'[id].modules \subseteq DOMAIN out'
        /\ \A k \in DOMAIN out' : out'[k].id \in DOMAIN reports'
    BY <1>10
  <2> QED BY <1>1, <1>3, <1>10, <2>1, <2>2, <2>3 DEF TypeOK
<1>13. PushInv' /\ KeptInv'
  BY <1>1, <1>3, <1>10, Steady
<1>14. MergeInv' /\ NameInv'
  <2>1. Ins' = Ins
    BY <1>1 DEF Ins
  <2> QED BY <1>1, <1>3, <2>1 DEF MergeInv, NameInv, Merging
<1>15. EdgeInv'
  BY <1>1, <1>3 DEF EdgeInv, EdgesResolve, LeadsTo, ReadsAs, Ins
<1>16. OutInv'
  <2>1. preserved \in Seq(Inputs)
    BY <1>3 DEF TypeOK
  <2>2. \A k \in DOMAIN preserved : ~(k < 1)
    BY <2>1, LenProperties
  <2>3. stage' \in {"convert", "preserve"} /\ (stage' = "preserve" => at' = 1)
    BY <1>1
  <2> QED BY <1>1, <1>10, <2>2, <2>3 DEF OutInv, Output
<1>17. LeftInv'
  <2>1. \A x \in DOMAIN processed' : \E k \in DOMAIN mods' : mods'[k].input = x
    BY <1>1, <1>3 DEF LeftInv, Output
  <2>2. \A k \in Converted, x \in DOMAIN out : Became(k, x) => x \in DOMAIN out' /\ Became(k, x)'
    BY <1>1, <1>10 DEF Became
  <2>3. \A k, x : k = at /\ x = Len(out) + 1 /\ at \notin dropped =>
          x \in DOMAIN out' /\ Became(k, x)'
    BY <1>1, <1>6, <1>10 DEF Became
  <2>4. ASSUME NEW k \in Converted'
        PROVE  \E x \in DOMAIN out' : Became(k, x)'
    <3>1. CASE k \in Converted
      <4>1. PICK x \in DOMAIN out : Became(k, x)
        BY <1>1, <1>3, <3>1 DEF LeftInv, Output
      <4> QED BY <2>2, <3>1, <4>1
    <3>2. CASE k = at /\ at \notin dropped
      <4>1. PICK x : x = Len(out) + 1
        OBVIOUS
      <4> QED BY <2>3, <3>2, <4>1
    <3> QED BY <1>11, <3>1, <3>2
  <2>5. ASSUME NEW x \in DOMAIN out'
        PROVE  \E k \in Converted' : Became(k, x)'
    <3>1. CASE x \in DOMAIN out
      <4>1. PICK k \in Converted : Became(k, x)
        BY <1>7, <3>1
      <4> QED BY <1>11, <2>2, <3>1, <4>1
    <3>2. CASE at \notin dropped /\ x = Len(out) + 1
      <4>1. PICK k : k = at
        OBVIOUS
      <4>2. k \in Converted' /\ Became(k, x)'
        BY <1>11, <2>3, <3>2, <4>1
      <4> QED BY <4>2
    <3> QED BY <1>10, <3>1, <3>2
  <2>6. ASSUME NEW x \in DOMAIN out'
        PROVE  reports'[out'[x].id].action \in Split
    <3>1. CASE x \in DOMAIN out
      <4>1. out'[x] = out[x] /\ out[x].id \in DOMAIN reports
        BY <1>3, <1>10, <3>1 DEF TypeOK
      <4> QED BY <1>1, <1>3, <1>10, <3>1, <4>1 DEF LeftInv, Output
    <3>2. CASE at \notin dropped /\ x = Len(out) + 1
      BY <1>5, <1>6, <1>10, <3>2
    <3> QED BY <1>10, <3>1, <3>2
  <2> QED BY <2>1, <2>4, <2>5, <2>6 DEF LeftInv
<1> QED BY <1>12, <1>13, <1>14, <1>15, <1>16, <1>17 DEF IInv

LEMMA ReturnInv ==
  ASSUME IInv, Return
  PROVE  IInv'
<1>1. /\ stage = "preserve" /\ at = Len(preserved) + 1 /\ stage' = "done"
      /\ UNCHANGED <<at, job, reports, processed, preserved, unmatched, mods, seen, dropped, out>>
  BY DEF Return
<1>2. TypeOK /\ PushInv /\ KeptInv /\ EdgeInv /\ OutInv /\ LeftInv
  BY DEF IInv
<1>3. TypeOK'
  <2>1. stage' \in Stages
    BY <1>1 DEF Stages
  <2> QED BY <1>1, <1>2, <2>1 DEF TypeOK
<1>4. PushInv' /\ KeptInv'
  BY <1>1, <1>2, Steady
<1>5. MergeInv' /\ NameInv'
  BY <1>1 DEF MergeInv, NameInv, Merging
<1>6. EdgeInv'
  BY <1>1, <1>2 DEF EdgeInv, EdgesResolve, LeadsTo, ReadsAs, Ins
<1>7. OutInv'
  <2>1. preserved \in Seq(Inputs)
    BY <1>2 DEF TypeOK
  <2>2. DOMAIN preserved = 1..Len(preserved) /\ Len(preserved) \in Nat
    BY <2>1, LenProperties
  <2>3. \A i \in DOMAIN preserved : i < at
    BY <1>1, <2>2
  <2> QED BY <1>1, <1>2, <2>3 DEF OutInv, Listed, Output
<1>8. LeftInv'
  BY <1>1, <1>2 DEF LeftInv, Converted, Became, Output
<1> QED BY <1>3, <1>4, <1>5, <1>6, <1>7, <1>8 DEF IInv

LEMMA PreserveInv ==
  ASSUME IInv, PreserveInput
  PROVE  IInv'
<1> DEFINE input == preserved[at]
           file == job.pushes[input.push].file
           path == <<file[Len(file)]>>
           taken == {CaseKey(out[k].file) : k \in DOMAIN out}
           n == Len(out)
<1>1. /\ stage = "preserve" /\ at \in DOMAIN preserved /\ at' = at + 1
      /\ UNCHANGED <<stage, job, processed, preserved, unmatched, mods, seen, dropped>>
  BY DEF PreserveInput
<1>2. PICK name :
        /\ FirstFree(name, path, taken)
        /\ out' = Append(out, [file |-> name, id |-> input.id, push |-> input.push])
        /\ reports' = [reports EXCEPT ![input.id].modules = @ \cup {n + 1}]
  BY DEF PreserveInput
<1>3. TypeOK /\ PushInv /\ KeptInv /\ EdgeInv /\ OutInv /\ LeftInv
  BY DEF IInv
<1>4. /\ out \in Seq(Outputs) /\ preserved \in Seq(Inputs) /\ reports \in Seq(Reports)
      /\ at \in Nat \ {0}
  BY <1>3 DEF TypeOK
<1>5. /\ input \in Inputs /\ input.id \in DOMAIN reports
      /\ input.push = reports[input.id].push /\ reports[input.id].action = "Preserved"
  BY <1>1, <1>3, <1>4, ElementOfSeq DEF TypeOK, KeptInv
<1>6. file \in Paths
  <2>1. input.push \in DOMAIN job.pushes
    BY <1>3, <1>5 DEF PushInv
  <2>2. job.pushes \in Seq(Pushes)
    BY <1>3, JobsAssumption DEF TypeOK
  <2>3. job.pushes[input.push] \in Pushes
    BY <2>1, <2>2, ElementOfSeq
  <2> QED BY <2>3 DEF Pushes
<1>7. name \in Paths /\ CaseKey(name) \notin taken
  <2>1. path \in Paths
    BY <1>6, LastPart
  <2> QED BY <1>2, <2>1, FreeName
<1> HIDE DEF input, path, file, n
<1> DEFINE o == [file |-> name, id |-> input.id, push |-> input.push]
<1>8. o \in Outputs /\ o.file = name /\ o.id = input.id /\ o.push = input.push
  BY <1>5, <1>7 DEF Outputs, Inputs
<1> HIDE DEF o
<1>9. /\ out' = Append(out, o)
      /\ reports' = [reports EXCEPT ![o.id].modules = @ \cup {Len(out) + 1}]
  BY <1>2, <1>8 DEF o, n
<1>10. /\ out' \in Seq(Outputs) /\ reports' \in Seq(Reports)
       /\ DOMAIN reports' = DOMAIN reports
       /\ \A id \in DOMAIN reports : /\ reports'[id].push = reports[id].push
                                     /\ reports'[id].action = reports[id].action
                                     /\ reports'[id].modules \subseteq DOMAIN out'
       /\ \A k \in DOMAIN out' : out'[k].id \in DOMAIN reports
       /\ n + 1 \in DOMAIN out' /\ out'[n + 1] = o
       /\ \A k \in DOMAIN out : k \in DOMAIN out' /\ out'[k] = out[k]
       /\ \A k \in DOMAIN out' : k \in DOMAIN out \/ k = n + 1
       /\ Listed'
  <2>1. Listed /\ \A k \in DOMAIN out : CaseKey(out[k].file) # CaseKey(o.file)
    BY <1>1, <1>3, <1>7, <1>8 DEF OutInv, Output
  <2>2. /\ o.id \in DOMAIN reports /\ o.push = reports[o.id].push
        /\ reports[o.id].action # "Skipped"
    BY <1>5, <1>8
  <2> QED BY <1>3, <1>8, <1>9, <2>1, <2>2, GrownOutput DEF n
<1>11. TypeOK'
  <2>1. at' \in Nat \ {0}
    BY <1>1, <1>4
  <2>2. /\ \A i \in DOMAIN processed' : processed'[i].id \in DOMAIN reports'
        /\ \A i \in DOMAIN preserved' : preserved'[i].id \in DOMAIN reports'
    BY <1>1, <1>3, <1>10 DEF TypeOK
  <2>3. /\ \A id \in DOMAIN reports' : reports'[id].modules \subseteq DOMAIN out'
        /\ \A k \in DOMAIN out' : out'[k].id \in DOMAIN reports'
    BY <1>10
  <2> QED BY <1>1, <1>3, <1>10, <2>1, <2>2, <2>3 DEF TypeOK
<1>12. PushInv' /\ KeptInv'
  BY <1>1, <1>3, <1>10, Steady
<1>13. MergeInv' /\ NameInv'
  BY <1>1 DEF MergeInv, NameInv, Merging
<1>14. EdgeInv'
  <2>1. \A k, l, t : LeadsTo(k, l, t)' <=> LeadsTo(k, l, t)
    BY <1>1 DEF LeadsTo, ReadsAs, Ins
  <2> QED BY <1>1, <1>3, <2>1 DEF EdgeInv, EdgesResolve
<1>15. OutInv'
  <2>1. ASSUME NEW i \in DOMAIN preserved, i < at + 1
        PROVE  \E k \in DOMAIN out' : out'[k].id = preserved[i].id
    <3>1. DOMAIN preserved \subseteq Nat
      <4>1. DOMAIN preserved = 1..Len(preserved)
        BY <1>4, LenProperties
      <4> QED BY <4>1
    <3>2. i < at \/ i = at
      BY <1>4, <2>1, <3>1
    <3>3. CASE i < at
      <4>1. PICK k \in DOMAIN out : out[k].id = preserved[i].id
        BY <1>1, <1>3, <3>3 DEF OutInv
      <4> QED BY <1>10, <4>1
    <3>4. CASE i = at
      BY <1>8, <1>10, <3>4 DEF input
    <3> QED BY <3>2, <3>3, <3>4
  <2> QED BY <1>1, <1>10, <2>1 DEF OutInv, Output
<1>16. LeftInv'
  <2>1. Converted' = Converted
    BY <1>1 DEF Converted
  <2>2. \A k, x : x \in DOMAIN out => (Became(k, x)' <=> Became(k, x))
    BY <1>1, <1>10 DEF Became
  <2>3. ASSUME NEW k \in Converted'
        PROVE  \E x \in DOMAIN out' : Became(k, x)'
    <3>1. PICK x \in DOMAIN out : Became(k, x)
      BY <1>1, <1>3, <2>1 DEF LeftInv, Output
    <3> QED BY <1>10, <2>2, <3>1
  <2>4. ASSUME NEW x \in DOMAIN out', reports'[out'[x].id].action \in Split
        PROVE  \E k \in Converted' : Became(k, x)'
    <3>1. CASE x \in DOMAIN out
      <4>1. out'[x] = out[x] /\ out[x].id \in DOMAIN reports
        BY <1>3, <1>10, <3>1 DEF TypeOK
      <4>2. reports[out[x].id].action \in Split
        BY <1>10, <2>4, <4>1
      <4>3. PICK k \in Converted : Became(k, x)
        BY <1>1, <1>3, <3>1, <4>2 DEF LeftInv, Output
      <4> QED BY <2>1, <2>2, <3>1, <4>3
    <3>2. CASE x = n + 1
      <4>1. reports'[out'[x].id].action = "Preserved"
        BY <1>5, <1>8, <1>10, <3>2
      <4> QED BY <2>4, <4>1 DEF Split
    <3> QED BY <1>10, <3>1, <3>2
  <2>5. \A i \in DOMAIN processed' : \E k \in DOMAIN mods' : mods'[k].input = i
    BY <1>1, <1>3 DEF LeftInv, Output
  <2> QED BY <1>1, <2>3, <2>4, <2>5 DEF LeftInv, Output
<1> QED BY <1>11, <1>12, <1>13, <1>14, <1>15, <1>16 DEF IInv

-----------------------------------------------------------------------------
LEMMA StutterInv ==
  ASSUME IInv, UNCHANGED vars
  PROVE  IInv'
<1>1. TypeOK'
  BY DEF IInv, TypeOK, vars
<1>2. PushInv' /\ KeptInv'
  BY DEF IInv, PushInv, KeptInv, vars
<1>3. Ins' = Ins
  BY DEF Ins, vars
<1>4. MergeInv'
  BY <1>3 DEF IInv, MergeInv, vars
<1>5. NameInv'
  BY <1>3 DEF IInv, NameInv, Settled, vars
<1>6. EdgeInv'
  BY <1>3 DEF IInv, EdgeInv, EdgesResolve, LeadsTo, ReadsAs, vars
<1>7. OutInv' /\ LeftInv'
  BY DEF IInv, OutInv, Listed, LeftInv, Converted, Became, vars
<1> QED BY <1>1, <1>2, <1>4, <1>5, <1>6, <1>7 DEF IInv

LEMMA StepInv == IInv /\ [Next]_vars => IInv'
<1> SUFFICES ASSUME IInv, [Next]_vars PROVE IInv'
  OBVIOUS
<1>1. CASE PushSplit \/ PushSkipped \/ PushProcessed \/ PushPreserved \/ PushUnmatched
  BY <1>1, PushesInv
<1>2. CASE PushFails
  BY <1>2, PushFailsInv
<1>3. CASE Finish
  BY <1>3, FinishInv
<1>4. CASE PlanPublicPaths
  BY <1>4, PlanInv
<1>5. CASE Expand
  BY <1>5, ExpandInv
<1>6. CASE NameModule
  BY <1>6, NameModuleInv
<1>7. CASE RewriteModules
  BY <1>7, RewriteInv
<1>8. CASE RecoverNames
  BY <1>8, RecoverInv
<1>9. CASE ConvertModule
  BY <1>9, ConvertInv
<1>10. CASE PreserveInput
  BY <1>10, PreserveInv
<1>11. CASE Return
  BY <1>11, ReturnInv
<1>12. CASE UNCHANGED vars
  BY <1>12, StutterInv
<1>13. CASE Eliminate
  BY <1>13, EliminateInv
<1> QED BY <1>1, <1>2, <1>3, <1>4, <1>5, <1>6, <1>7, <1>8, <1>9, <1>10, <1>11, <1>12, <1>13
        DEF Next

LEMMA Inductive == Spec => []IInv
<1> QED BY InitInv, StepInv, PTL DEF Spec

(* Every index that is kept names what it indexes, in every job: processed      *)
(* inputs, reports, modules of the output.                                   *)
THEOREM TypeCorrect == Spec => []TypeOK
<1>1. IInv => TypeOK
  BY DEF IInv
<1> QED BY <1>1, Inductive, PTL

(* However many inputs, whichever names they bring and whatever recovery       *)
(* suggests, no two modules of the output share a case-insensitive name.     *)
THEOREM NamesUniqueHolds == Spec => []NamesUnique
<1>1. IInv => NamesUnique
  BY DEF IInv, OutInv, Output, Listed, NamesUnique, KeysApart
<1> QED BY <1>1, Inductive, PTL

(* Every specifier the merge and the recovery leave resolves to the module it *)
(* leads to, the one it meant or the sibling whose name it reads as, but for   *)
(* those of a module that recovery moved away from a target that stayed.     *)
THEOREM EdgesResolveHolds == Spec => []EdgesResolve
<1>1. IInv => EdgesResolve
  BY DEF IInv, EdgeInv
<1> QED BY <1>1, Inductive, PTL

(* Whatever is pushed under whichever policies, the reports of a finished job  *)
(* are those of its pushes, in order, each with the modules that came from it *)
(* and that elimination left.                                                *)
THEOREM InputsAccountedHolds == Spec => []InputsAccounted
<1>1. IInv => InputsAccounted
  <2> SUFFICES ASSUME IInv, stage = "done" PROVE InputsAccounted
    BY DEF InputsAccounted
  <2>1. TypeOK /\ PushInv /\ KeptInv /\ OutInv /\ LeftInv /\ Listed
    BY DEF IInv, OutInv, Output
  <2>2. ~unmatched
    BY <2>1 DEF KeptInv
  <2>3. {reports[id].push : id \in DOMAIN reports}
          = {p \in DOMAIN job.pushes : job.pushes[p].form \notin Failing}
    <3>1. \A id \in DOMAIN reports : reports[id].push \in DOMAIN job.pushes
      BY <2>1 DEF PushInv
    <3>2. \A p \in DOMAIN job.pushes :
            (\E id \in DOMAIN reports : reports[id].push = p) <=> job.pushes[p].form \notin Failing
      BY <2>1 DEF PushInv
    <3> QED BY <3>1, <3>2
  <2>4. \A i, j \in DOMAIN reports : i < j => reports[i].push < reports[j].push
    BY <2>1 DEF PushInv
  <2>5. \A i, j \in DOMAIN reports : reports[i].push = reports[j].push => i = j
    <3>1. reports \in Seq(Reports) /\ job.pushes \in Seq(Pushes)
      BY <2>1, JobsAssumption DEF TypeOK
    <3>2. DOMAIN reports = 1..Len(reports) /\ DOMAIN job.pushes = 1..Len(job.pushes)
      BY <3>1, LenProperties
    <3>3. \A i \in DOMAIN reports : reports[i].push \in Nat
      BY <2>1, <3>2 DEF PushInv
    <3>4. \A i, j \in DOMAIN reports : i < j \/ j < i \/ i = j
      BY <3>2
    <3> QED BY <2>4, <3>3, <3>4
  <2>6. ASSUME NEW id \in DOMAIN reports
        PROVE  /\ reports[id].modules = {k \in DOMAIN out : out[k].push = reports[id].push}
               /\ reports[id].action = "Skipped" => reports[id].modules = {}
               /\ reports[id].action = "Preserved" => reports[id].modules # {}
               /\ reports[id].action \in Split =>
                    /\ From(id) # {}
                    /\ {out[k].file : k \in reports[id].modules}
                         = {mods[k].file : k \in From(id) \ dropped}
               /\ ~(/\ job.pushes[reports[id].push].form = "plain"
                    /\ job.pushes[reports[id].push].policy = "Error")
    <3>1. reports[id].modules = {k \in DOMAIN out : out[k].id = id}
      BY <2>1 DEF Listed
    <3>2. \A k \in DOMAIN out : out[k].id \in DOMAIN reports
                                /\ out[k].push = reports[out[k].id].push
      BY <2>1 DEF Listed, TypeOK
    <3>3. reports[id].modules = {k \in DOMAIN out : out[k].push = reports[id].push}
      BY <2>5, <3>1, <3>2
    <3>4. reports[id].action = "Preserved" => reports[id].modules # {}
      <4> SUFFICES ASSUME reports[id].action = "Preserved"
                   PROVE  \E k \in DOMAIN out : out[k].id = id
        BY <3>1
      <4>1. \E i \in DOMAIN preserved : preserved[i].id = id
        BY <2>1, <2>2 DEF KeptInv, Split
      <4> QED BY <2>1, <4>1 DEF OutInv
    <3>5. reports[id].action = "Skipped" => reports[id].modules = {}
      <4> SUFFICES ASSUME NEW k \in DOMAIN out, out[k].id = id
                   PROVE  reports[id].action # "Skipped"
        BY <3>1
      <4> QED BY <2>1 DEF Listed
    <3>6. ~Doomed(job.pushes[reports[id].push])
      BY <2>1, <2>2 DEF KeptInv
    <3>7. ASSUME reports[id].action \in Split
          PROVE  /\ From(id) # {}
                 /\ {out[k].file : k \in reports[id].modules}
                      = {mods[k].file : k \in From(id) \ dropped}
      <4>1. PICK i \in DOMAIN processed : processed[i].id = id
        BY <2>1, <2>2, <3>7 DEF KeptInv, Split
      <4>2. From(id) # {}
        <5>1. PICK k \in DOMAIN mods : mods[k].input = i
          BY <2>1 DEF LeftInv, Output
        <5>2. k \in From(id)
          BY <4>1, <5>1 DEF From
        <5> QED BY <5>2
      <4>3. ASSUME NEW k \in From(id) \ dropped
            PROVE  \E x \in reports[id].modules : out[x].file = mods[k].file
        <5>1. k \in Converted /\ processed[mods[k].input].id = id
          BY DEF From, Converted
        <5>2. PICK x \in DOMAIN out : Became(k, x)
          BY <2>1, <5>1 DEF LeftInv, Output
        <5> QED BY <3>1, <5>1, <5>2 DEF Became
      <4>4. ASSUME NEW x \in reports[id].modules
            PROVE  \E k \in From(id) \ dropped : mods[k].file = out[x].file
        <5>1. x \in DOMAIN out /\ out[x].id = id
          BY <3>1
        <5>2. PICK k \in Converted : Became(k, x)
          BY <2>1, <3>7, <5>1 DEF LeftInv, Output
        <5>3. k \in From(id) \ dropped
          BY <5>1, <5>2 DEF Became, From, Converted
        <5> QED BY <5>2, <5>3 DEF Became
      <4> QED BY <4>2, <4>3, <4>4
    <3> QED BY <3>3, <3>4, <3>5, <3>6, <3>7 DEF Doomed
  <2> QED BY <2>3, <2>4, <2>6 DEF InputsAccounted, Split
<1> QED BY <1>1, Inductive, PTL
=============================================================================
