------------------------------ MODULE ScopeHoist ------------------------------
(***************************************************************************)
(* Heuristic splitting of a scope-hoisted file (unpacker/scope_hoist.rs,   *)
(* Executable mode): the top-level items are united into classes by seven  *)
(* loops over a union-find, the classes become clusters, bare statements   *)
(* and effects that would never run return to the entry, and clusters that *)
(* import each other are merged.  An item is its position in the file; a   *)
(* name is a model value or a number.                                      *)
(***************************************************************************)
EXTENDS Integers, FiniteSets

CONSTANTS
    N,                  \* number of top-level items
    Names,              \* names bound at top level
    Programs,           \* files to split, see Program below
    MinDeclarations,    \* MIN_DECLARATIONS (10)
    Window,             \* adjacency_window (3)
    PathologicalMin,    \* PATHOLOGICAL_ENTRY_SCC_MIN_CLUSTERS (64)
    Denominator         \* PATHOLOGICAL_ENTRY_SCC_MIN_FRACTION_DENOMINATOR (4)

Items == 1..N

(* What collect_top_level_items finds: the names an item declares, refers  *)
(* to and assigns; which items are module declarations; and which items    *)
(* run code (item_executes_startup_effects).                               *)
Program == [declares : [Items -> SUBSET Names],
            mentions : [Items -> SUBSET Names],
            assigns  : [Items -> SUBSET Names],
            moddecl  : SUBSET Items,
            effects  : SUBSET Items]

(* A name is in mentions or assigns only of items that do not bind it, an  *)
(* assigned name is mentioned, and a statement that binds nothing runs.    *)
WellFormed(p) ==
    /\ \A i \in Items : /\ p.assigns[i] \subseteq p.mentions[i]
                        /\ p.mentions[i] \cap p.declares[i] = {}
    /\ {i \in Items : p.declares[i] = {}} \ p.moddecl \subseteq p.effects

ASSUME ConstantsAssumption ==
    /\ N \in Nat \ {0}
    /\ Programs \subseteq Program
    /\ \A p \in Programs : WellFormed(p)
    /\ {MinDeclarations, Window, PathologicalMin, Denominator} \subseteq Nat

VARIABLES
    stage,          \* the loop or function that runs next
    at,             \* the item a loop is at
    prog,           \* the file, never changed
    graph,          \* its reference graph: refs, writes and firsts of each item
    cls,            \* the union-find: the class of each item
    clusters,       \* the clusters as far as they have been built
    fold,           \* clusters the current fixpoint has decided to fold
    repartitioned   \* the executable extraction has been used

vars == <<stage, at, prog, graph, cls, clusters, fold, repartitioned>>

Loops == <<"duplicates", "mutual", "chain", "inert", "shared", "exclusive", "writes">>
Stages == {"analyze", "extract", "bare", "fold", "merge", "done", "refused"}
             \cup {Loops[k] : k \in DOMAIN Loops}

Cluster == [items : SUBSET Items, entry : BOOLEAN]

Declaring(is) == {i \in is : prog.declares[i] # {}}

-----------------------------------------------------------------------------
(* Reference graph. *)

Declarers(n) == {i \in Items : n \in prog.declares[i]}
IsFirst(i, is) == i \in is /\ \A j \in is : i <= j
IsLast(i, is) == i \in is /\ \A j \in is : j <= i

(* A name stands for the last item that declares it: name_to_item is       *)
(* overwritten by later items.                                             *)
OwnersOf(i, names) == {j \in Items \ {i} : \E n \in names : IsLast(j, Declarers(n))}

(* The first item that declares a name i declares.  A name is declared     *)
(* twice only by var, so that nothing else is united through it.           *)
FirstDeclarers(i) == {j \in Items : \E n \in prog.declares[i] : IsFirst(j, Declarers(n))}

(* firsts is what union_duplicate_var_declarations finds at each of its    *)
(* two uses; the file does not change between them.                        *)
ReferenceGraph == [refs   |-> [i \in Items |-> OwnersOf(i, prog.mentions[i])],
                   writes |-> [i \in Items |-> OwnersOf(i, prog.assigns[i])],
                   firsts |-> [i \in Items |-> FirstDeclarers(i)]]

ReferencedBy(i) == {j \in Items : i \in graph.refs[j]}

-----------------------------------------------------------------------------
(* Union-find: what one iteration unites item i with. *)

Unite(i, js) == LET merged == cls[i] \cup UNION {cls[j] : j \in js}
                IN  [k \in Items |-> IF k \in merged THEN merged ELSE cls[k]]

DuplicatePartners(i) == graph.firsts[i]

MutualPartners(i) == {j \in graph.refs[i] : i \in graph.refs[j]}

(* i + 1 mentions a name of i and refers to nothing outside i's class. *)
ChainPartners(i) ==
    {j \in Items : /\ j = i + 1
                   /\ prog.mentions[j] \cap prog.declares[i] # {}
                   /\ graph.refs[j] \subseteq cls[i]}

SoleConsumers(b) ==
    {c \in Items : /\ prog.declares[b] # {}
                   /\ ReferencedBy(b) = {c}
                   /\ c - b <= Window /\ b - c <= Window}

InertPartners(b) == IF graph.refs[b] = {} THEN SoleConsumers(b) ELSE {}

SharedPartners(i) ==
    {j \in Items : /\ prog.declares[i] # {} /\ prog.declares[j] # {}
                   /\ i < j /\ j <= i + Window
                   /\ graph.refs[i] \cap graph.refs[j] # {}}

(* The consumer's class may refer to at most one class besides b's. *)
ExclusivePartners(b) ==
    {c \in SoleConsumers(b) :
        LET used == UNION {graph.refs[k] : k \in cls[c]} \ (cls[c] \cup cls[b])
        IN  \A s, t \in used : cls[s] = cls[t]}

WrittenOwners(i) == graph.writes[i]

-----------------------------------------------------------------------------
(* Clusters and the imports between them. *)

Imports(c, d) == c # d /\ \E i \in c.items : graph.refs[i] \cap d.items # {}

ImportEdges(cs) == {e \in cs \X cs : Imports(e[1], e[2])}

Closed(S, edges) == \A e \in edges : e[1] \in S => e[2] \in S

(* The clusters of cs reached from those of R. *)
Reached(cs, R) ==
    LET edges  == ImportEdges(cs)
        closed == {S \in SUBSET cs : R \subseteq S /\ Closed(S, edges)}
    IN  {c \in cs : \A S \in closed : c \in S}

Entries(cs) == {c \in cs : c.entry}

Joined(cs, entry) == [items |-> UNION {c.items : c \in cs}, entry |-> entry]

(* Bug: only clusters that import each other directly are joined. *)
CondensedDirect(cs) ==
    LET Component(c) == {c} \cup {d \in cs : Imports(c, d) /\ Imports(d, c)}
    IN  {Joined(Component(c), Entries(Component(c)) # {}) : c \in cs}

(* One cluster of each strongly connected component. *)
Condensed(cs) ==
    LET reach == [c \in cs |-> Reached(cs, {c})]
        Component(c) == {d \in reach[c] : c \in reach[d]}
    IN  {Joined(Component(c), Entries(Component(c)) # {}) : c \in cs}

(* The classes as clusters; material that must stay in the entry is marked.*)
Roots ==
    LET IsEntry(is) == \/ is \cap prog.moddecl # {}
                       \/ Cardinality(Declaring(is)) < 2 /\ Declaring(is) # is
    IN  {[items |-> is, entry |-> IsEntry(is)] : is \in {cls[i] : i \in Items}}

(* Classes of two declarations and no module declaration are modules, the  *)
(* rest is the entry.                                                      *)
Established ==
    LET Own(r) == r.items \cap prog.moddecl = {} /\ Cardinality(Declaring(r.items)) >= 2
        own    == {r \in Roots : Own(r)}
        rest   == Roots \ own
    IN  {Joined({r}, FALSE) : r \in own}
          \cup (IF rest = {} THEN {} ELSE {Joined(rest, TRUE)})

Pathological(cs) ==
    \E c \in Entries(cs) :
        LET component == {d \in Reached(cs, {c}) : c \in Reached(cs, {d})}
        IN  /\ Cardinality(cs) >= PathologicalMin
            /\ Cardinality(component) >= PathologicalMin
            /\ Cardinality(component) * Denominator >= Cardinality(cs)
-----------------------------------------------------------------------------
(* The executable extraction: strongly connected roots are atoms, and each *)
(* singleton atom joins the anchor nearest to it in a topological order.   *)

Earliest(cs) == CHOOSE c \in cs : \E i \in c.items : \A d \in cs : \A j \in d.items : i <= j

(* Bug: the order of the source instead of a topological one. *)
PlacesInSource(as) ==
    [a \in as |-> Cardinality({b \in as : \E i \in b.items : \A j \in a.items : i <= j})]

(* placed[k] is the first k atoms of the order: the ready atom of the       *)
(* earliest item comes next.  An atom's place is how often it is missing.  *)
Places(as) ==
    LET placed[k \in 0..Cardinality(as)] ==
            IF k = 0 THEN {}
            ELSE LET left == as \ placed[k-1]
                 IN  placed[k-1] \cup
                       {Earliest({a \in left : \A b \in left : ~Imports(b, a)})}
    IN  [a \in as |-> Cardinality({k \in 0..Cardinality(as) : a \notin placed[k]})]

Singletons(as) == {a \in as : ~a.entry /\ Cardinality(Declaring(a.items)) = 1}
Anchors(as) == {a \in as : ~a.entry} \ Singletons(as)

(* Without any anchor all is entry; without entry material the latest      *)
(* singleton is.                                                           *)
EntryAtoms(as) ==
    IF Anchors(as) = {} THEN as
    ELSE IF Entries(as) # {} THEN Entries(as)
    ELSE {a \in Singletons(as) : \E i \in a.items : \A b \in Singletons(as) :
                                      \A j \in b.items : j <= i}

(* Of two anchors at the same distance the earlier is nearer. *)
Nearer(a, b, s) ==
    LET Away(c) == IF c < s THEN s - c ELSE c - s
    IN  Away(a) < Away(b) \/ (Away(a) = Away(b) /\ a < b)

Regions(as, pos) ==
    LET singles == Singletons(as) \ EntryAtoms(as)
        Region(a) == {a} \cup {s \in singles : \A b \in Anchors(as) \ {a} :
                                                 Nearer(pos[a], pos[b], pos[s])}
    IN  {Joined(Region(a), FALSE) : a \in Anchors(as)}
          \cup (IF EntryAtoms(as) = {} THEN {} ELSE {Joined(EntryAtoms(as), TRUE)})

Executable == LET atoms == Condensed(Roots) IN Regions(atoms, Places(atoms))

-----------------------------------------------------------------------------
(* Effects return to the entry. *)

(* Statements that bind nothing and are no module declaration. *)
Bare == {i \in Items : prog.declares[i] = {}} \ prog.moddecl

(* is is a union of write groups: it holds an item together with the       *)
(* owners the item assigns to and the first declarers of its names.        *)
WriteClosed(is) ==
    \A i \in Items : \A j \in graph.writes[i] \cup graph.firsts[i] : i \in is <=> j \in is

(* Bug: a bare statement leaves the owners it assigns to behind. *)
MovedItemsAlone == Bare

(* The items of the write groups of the bare statements. *)
MovedItems == LET closed == {is \in SUBSET Items : Bare \subseteq is /\ WriteClosed(is)}
              IN  {i \in Items : \A is \in closed : i \in is}

(* Bug: a cluster that loses an item to the entry is dropped. *)
WithoutItemsDropped(cs, is) == {c \in cs : c.items \cap is = {}}

WithoutItems(cs, is) ==
    {[items |-> c.items \ is, entry |-> c.entry] : c \in {d \in cs : ~(d.items \subseteq is)}}

MovedToEntry(cs) ==
    IF Bare = {} THEN cs
    ELSE WithoutItems(cs \ Entries(cs), MovedItems)
           \cup {[items |-> MovedItems \cup UNION {c.items : c \in Entries(cs)},
                  entry |-> TRUE]}

(* Bug: a cluster that anything imports is taken to run. *)
NeverRunUnimported(cs, folded) ==
    IF Entries(cs) = {} THEN {}
    ELSE {c \in cs \ (Entries(cs) \cup folded) : /\ c.items \cap prog.effects # {}
                                              /\ \A d \in cs : ~Imports(d, c)}

(* Clusters with effects that no entry and no folded cluster imports, even *)
(* through others.  Without an entry nothing is folded.                    *)
NeverRun(cs, folded) ==
    IF Entries(cs) = {} THEN {}
    ELSE {c \in cs \ Reached(cs, Entries(cs) \cup folded) : c.items \cap prog.effects # {}}

Folded(cs, folded) ==
    IF folded = {} THEN cs
    ELSE LET gone == folded \cup Entries(cs)
         IN  (cs \ gone) \cup {Joined(gone, TRUE)}

-----------------------------------------------------------------------------
Init == /\ stage = "analyze"
        /\ at = 1
        /\ prog \in Programs
        /\ graph = [refs |-> [i \in Items |-> {}], writes |-> [i \in Items |-> {}],
                    firsts |-> [i \in Items |-> {}]]
        /\ cls = [i \in Items |-> {i}]
        /\ clusters = {}
        /\ fold = {}
        /\ repartitioned = FALSE

TooFewDeclarations ==
    /\ stage = "analyze"
    /\ Cardinality(Declaring(Items)) < MinDeclarations
    /\ stage' = "refused"
    /\ UNCHANGED <<at, prog, graph, cls, clusters, fold, repartitioned>>

BuildGraph ==
    /\ stage = "analyze"
    /\ Cardinality(Declaring(Items)) >= MinDeclarations
    /\ graph' = ReferenceGraph
    /\ stage' = "duplicates"
    /\ UNCHANGED <<at, prog, cls, clusters, fold, repartitioned>>

(* Bug: the loop index is not reset for the next loop. *)
IterateOn(s, partners, next) ==
    /\ stage = s
    /\ cls' = Unite(at, partners)
    /\ at' = at + 1
    /\ stage' = IF at = N THEN next ELSE s
    /\ UNCHANGED <<prog, graph, clusters, fold, repartitioned>>

(* One iteration of the loop s; next is what follows its last one. *)
Iterate(s, partners, next) ==
    /\ stage = s
    /\ cls' = Unite(at, partners)
    /\ at' = IF at = N THEN 1 ELSE at + 1
    /\ stage' = IF at = N THEN next ELSE s
    /\ UNCHANGED <<prog, graph, clusters, fold, repartitioned>>

UnionDuplicateVars == Iterate("duplicates", DuplicatePartners(at), "mutual")
MutualReferences   == Iterate("mutual", MutualPartners(at), "chain")
AdjacentChain      == Iterate("chain", ChainPartners(at), "inert")
InertHelper        == Iterate("inert", InertPartners(at), "shared")
SharedReference    == Iterate("shared", SharedPartners(at), "exclusive")
ExclusiveConsumer  == Iterate("exclusive", ExclusivePartners(at), "writes")
CrossItemWrites    == Iterate("writes", WrittenOwners(at), "extract")

(* One cluster, or only an entry: the file is not split. *)
NothingToSplit ==
    /\ stage = "extract"
    /\ Cardinality(Established) < 2
    /\ stage' = "refused"
    /\ UNCHANGED <<at, prog, graph, cls, clusters, fold, repartitioned>>

Extract ==
    /\ stage = "extract"
    /\ Cardinality(Established) >= 2
    /\ repartitioned' = Pathological(Established)
    /\ clusters' = IF repartitioned' THEN Executable ELSE Established
    /\ stage' = "bare"
    /\ UNCHANGED <<at, prog, graph, cls, fold>>

MoveBareStatements ==
    /\ stage = "bare"
    /\ clusters' = MovedToEntry(clusters)
    /\ fold' = {}
    /\ stage' = "fold"
    /\ UNCHANGED <<at, prog, graph, cls, repartitioned>>

FoldRound ==
    /\ stage = "fold"
    /\ NeverRun(clusters, fold) # {}
    /\ fold' = fold \cup NeverRun(clusters, fold)
    /\ UNCHANGED <<stage, at, prog, graph, cls, clusters, repartitioned>>

FoldIntoEntry ==
    /\ stage = "fold"
    /\ NeverRun(clusters, fold) = {}
    /\ clusters' = Folded(clusters, fold)
    /\ fold' = {}
    /\ stage' = "merge"
    /\ UNCHANGED <<at, prog, graph, cls, repartitioned>>

MergeCyclic ==
    /\ stage = "merge"
    /\ Cardinality(Condensed(clusters)) >= 2
    /\ clusters' = Condensed(clusters)
    /\ stage' = "done"
    /\ UNCHANGED <<at, prog, graph, cls, fold, repartitioned>>

(* Everything collapsed into one cluster: once more with the executable    *)
(* extraction, unless that is what collapsed.                              *)
Retry ==
    /\ stage = "merge"
    /\ Cardinality(Condensed(clusters)) < 2
    /\ ~repartitioned
    /\ repartitioned' = TRUE
    /\ clusters' = Executable
    /\ stage' = "bare"
    /\ UNCHANGED <<at, prog, graph, cls, fold>>

Collapsed ==
    /\ stage = "merge"
    /\ Cardinality(Condensed(clusters)) < 2
    /\ repartitioned
    /\ stage' = "refused"
    /\ UNCHANGED <<at, prog, graph, cls, clusters, fold, repartitioned>>

Done == stage \in {"done", "refused"} /\ UNCHANGED vars

Next == \/ TooFewDeclarations \/ BuildGraph
        \/ UnionDuplicateVars \/ MutualReferences \/ AdjacentChain \/ InertHelper
        \/ SharedReference \/ ExclusiveConsumer \/ CrossItemWrites
        \/ NothingToSplit \/ Extract \/ MoveBareStatements
        \/ FoldRound \/ FoldIntoEntry \/ MergeCyclic \/ Retry \/ Collapsed \/ Done

Spec == Init /\ [][Next]_vars

-----------------------------------------------------------------------------
(* Stages in which clusters holds a partition of the file. *)
Clustered == {"bare", "fold", "merge", "done"}

TypeOK ==
    /\ stage \in Stages
    /\ at \in Items
    /\ prog \in Program
    /\ graph \in [refs   : [Items -> SUBSET Items],
                  writes : [Items -> SUBSET Items],
                  firsts : [Items -> SUBSET Items]]
    /\ cls \in [Items -> SUBSET Items]
    /\ clusters \subseteq Cluster
    /\ fold \subseteq clusters
    /\ repartitioned \in BOOLEAN

(* However the clusters were extracted, moved, folded and merged, no item  *)
(* is in two of them, none is empty, and at most one is the entry.         *)
ItemsOnce ==
    stage \in Clustered =>
        /\ \A c \in clusters : c.items # {}
        /\ \A c, d \in clusters : c # d => /\ c.items \cap d.items = {}
                                         /\ ~(c.entry /\ d.entry)

(* No item of the file is lost on the way. *)
NothingLost == stage \in Clustered => \A i \in Items : \E c \in clusters : i \in c.items

(* The clusters are a partition of the file at every stage: each item is    *)
(* emitted, and emitted once.                                              *)
Partition == ItemsOnce /\ NothingLost

(* An item is never separated from an item whose binding it assigns, nor   *)
(* from another declaration of one of its vars, not even by a move of bare *)
(* statements to the entry: imported bindings cannot be assigned.          *)
WritersWithOwners ==
    stage \in Clustered =>
        \A c \in clusters : \A i \in c.items :
            graph.writes[i] \cup graph.firsts[i] \subseteq c.items

(* No two of cs import each other, directly or through others. *)
Acyclic(cs) == \A c, d \in cs : d \in Reached(cs, {c}) /\ c \in Reached(cs, {d}) => c = d

(* The emitted modules do not import each other in a cycle. *)
NoImportCycle == stage = "done" => Acyclic(clusters)

(* A file that has an entry runs, when the entry is loaded, every item that *)
(* runs code: its module is imported by the entry, perhaps through others. *)
EffectsRun ==
    stage = "done" /\ Entries(clusters) # {} =>
        \A c \in clusters : c.items \cap prog.effects # {}
            => c \in Reached(clusters, Entries(clusters))

(* Statements that bind nothing are emitted by the entry only. *)
BareInEntry == stage = "done" => \A c \in clusters : c.items \cap Bare # {} => c.entry

(* The regions that extract_executable_clusters makes of the singletons are *)
(* free of cycles among themselves, before any merge; only the entry may   *)
(* be on a cycle.                                                          *)
RegionsAcyclic ==
    stage = "bare" /\ repartitioned => Acyclic(clusters \ Entries(clusters))

(* docs/unpacking.md: the clusters are merged "so the recovered ESM graph  *)
(* preserves the original single-file initialization order".  A module     *)
(* runs after the modules it imports: what the entry imports runs before   *)
(* all of the entry.                                                       *)
InitializationOrder ==
    stage = "done" =>
        \A e \in Entries(clusters) : \A c \in Reached(clusters, {e}) \ {e} :
            \A i \in c.items \cap prog.effects, j \in e.items \cap prog.effects : i < j
=============================================================================
