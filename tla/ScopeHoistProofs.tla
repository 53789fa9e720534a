--------------------------- MODULE ScopeHoistProofs ---------------------------
(***************************************************************************)
(* What the splitter guarantees for every file and every threshold: items  *)
(* emitted once, writers kept with the owners of what they write, no       *)
(* import cycle, bare statements in the entry, effects reachable from it.  *)
(***************************************************************************)
EXTENDS ScopeHoist, FiniteSetTheorems, TLAPS

-----------------------------------------------------------------------------
(* Reachability. *)

(* Reached holds its roots, is closed under imports and is the least such. *)
LEMMA ReachedRoots ==
    ASSUME NEW cs, NEW R, NEW c \in cs, c \in R
    PROVE  c \in Reached(cs, R)
BY DEF Reached

LEMMA ReachedStep ==
    ASSUME NEW cs, NEW R, NEW c \in Reached(cs, R), NEW d \in cs, Imports(c, d)
    PROVE  d \in Reached(cs, R)
<1>1. c \in cs BY DEF Reached
<1>2. <<c, d>> \in ImportEdges(cs) BY <1>1 DEF ImportEdges
<1>3. ASSUME NEW S \in SUBSET cs, R \subseteq S, Closed(S, ImportEdges(cs))
      PROVE  d \in S
  <2>1. c \in S BY <1>3 DEF Reached
  <2> QED BY <1>2, <1>3, <2>1 DEF Closed
<1> QED BY <1>3 DEF Reached

LEMMA ClosedStep ==
    ASSUME NEW cs, NEW S, Closed(S, ImportEdges(cs)),
           NEW c \in cs, c \in S, NEW d \in cs, Imports(c, d)
    PROVE  d \in S
<1>1. <<c, d>> \in ImportEdges(cs) BY DEF ImportEdges
<1> QED BY <1>1 DEF Closed

LEMMA ReachedLeast ==
    ASSUME NEW cs, NEW R, NEW S \in SUBSET cs, R \subseteq S,
           \A c \in S, d \in cs : Imports(c, d) => d \in S
    PROVE  Reached(cs, R) \subseteq S
<1>1. Closed(S, ImportEdges(cs)) BY DEF Closed, ImportEdges
<1> QED BY <1>1 DEF Reached

LEMMA ReachedIn == ASSUME NEW cs, NEW R PROVE Reached(cs, R) \subseteq cs
BY DEF Reached

LEMMA ReachedMore ==
    ASSUME NEW cs, NEW Q \in SUBSET cs, NEW R \in SUBSET Reached(cs, Q)
    PROVE  Reached(cs, R) \subseteq Reached(cs, Q)
<1>1. \A c \in Reached(cs, Q), d \in cs : Imports(c, d) => d \in Reached(cs, Q)
  BY ReachedStep
<1> QED BY <1>1, ReachedIn, ReachedLeast

-----------------------------------------------------------------------------
(* Condensation. *)

Component(cs, c) == {d \in Reached(cs, {c}) : c \in Reached(cs, {d})}

Merged(cs, c) == Joined(Component(cs, c), Entries(Component(cs, c)) # {})

LEMMA CondensedMerges == ASSUME NEW cs PROVE Condensed(cs) = {Merged(cs, c) : c \in cs}
<1> DEFINE reach == [c \in cs |-> Reached(cs, {c})]
           Comp(c) == {d \in reach[c] : c \in reach[d]}
<1>1. \A c \in cs : Comp(c) = Component(cs, c)
  BY ReachedIn DEF Component
<1> HIDE DEF Comp
<1>2. {Joined(Comp(c), Entries(Comp(c)) # {}) : c \in cs} = {Merged(cs, c) : c \in cs}
  BY <1>1 DEF Merged
<1> QED BY <1>2 DEF Condensed, Comp

LEMMA ComponentFacts ==
    ASSUME NEW cs, NEW c \in cs
    PROVE  /\ c \in Component(cs, c)
           /\ Component(cs, c) \subseteq cs
           /\ \A d \in Component(cs, c) : Component(cs, d) = Component(cs, c)
<1>1. c \in Component(cs, c) BY ReachedRoots DEF Component
<1>2. Component(cs, c) \subseteq cs BY ReachedIn DEF Component
<1>3. ASSUME NEW d \in Component(cs, c)
      PROVE  Component(cs, d) = Component(cs, c)
  <2>1. d \in cs /\ d \in Reached(cs, {c}) /\ c \in Reached(cs, {d})
    BY <1>2 DEF Component
  <2>2. Reached(cs, {d}) = Reached(cs, {c}) BY <2>1, ReachedMore
  <2>3. ASSUME NEW e \in cs
        PROVE  c \in Reached(cs, {e}) <=> d \in Reached(cs, {e})
    <3>1. {e} \in SUBSET cs OBVIOUS
    <3>2. c \in Reached(cs, {e}) => Reached(cs, {c}) \subseteq Reached(cs, {e})
      BY <3>1, ReachedMore
    <3>3. d \in Reached(cs, {e}) => Reached(cs, {d}) \subseteq Reached(cs, {e})
      BY <3>1, ReachedMore
    <3> QED BY <2>1, <3>2, <3>3
  <2> QED BY <2>2, <2>3, ReachedIn DEF Component
<1> QED BY <1>1, <1>2, <1>3

(* The merged cluster holds the items of its component, and is the entry   *)
(* if one of them is.                                                      *)
LEMMA MergedFacts ==
    ASSUME NEW cs, NEW c \in cs
    PROVE  /\ Merged(cs, c).items = UNION {d.items : d \in Component(cs, c)}
           /\ Merged(cs, c).entry = (\E d \in Component(cs, c) : d.entry)
           /\ c.items \subseteq Merged(cs, c).items
           /\ \A d \in Component(cs, c) : Merged(cs, d) = Merged(cs, c)
<1>1. Merged(cs, c).items = UNION {d.items : d \in Component(cs, c)}
  BY DEF Merged, Joined
<1>2. Merged(cs, c).entry = (Entries(Component(cs, c)) # {})
  BY DEF Merged, Joined
<1>3. (Entries(Component(cs, c)) # {}) = (\E d \in Component(cs, c) : d.entry)
  BY DEF Entries
<1>4. c.items \subseteq Merged(cs, c).items
  BY <1>1, ComponentFacts
<1>5. \A d \in Component(cs, c) : Merged(cs, d) = Merged(cs, c)
  BY ComponentFacts DEF Merged
<1> QED BY <1>1, <1>2, <1>3, <1>4, <1>5

(* An import between merged clusters is one between members. *)
LEMMA MergedImports ==
    ASSUME NEW cs, NEW c \in cs, NEW d \in cs, Imports(Merged(cs, c), Merged(cs, d))
    PROVE  \E x \in Component(cs, c), y \in Component(cs, d) : Imports(x, y)
<1>1. PICK i \in Merged(cs, c).items : graph.refs[i] \cap Merged(cs, d).items # {}
  BY DEF Imports
<1>0. /\ Merged(cs, c).items = UNION {e.items : e \in Component(cs, c)}
      /\ Merged(cs, d).items = UNION {e.items : e \in Component(cs, d)}
  BY MergedFacts
<1>2. PICK x \in Component(cs, c) : i \in x.items
  BY <1>0
<1>3. PICK y \in Component(cs, d) : graph.refs[i] \cap y.items # {}
  BY <1>0, <1>1
<1>4. x # y
  <2>1. SUFFICES ASSUME x = y PROVE FALSE OBVIOUS
  <2>2. Merged(cs, x) = Merged(cs, c) BY MergedFacts
  <2>3. Merged(cs, y) = Merged(cs, d) BY MergedFacts
  <2> QED BY <2>1, <2>2, <2>3 DEF Imports
<1> QED BY <1>2, <1>3, <1>4 DEF Imports

(* What a merged cluster reaches are the merges of what a member reaches. *)
LEMMA MergedReach ==
    ASSUME NEW cs, NEW c \in cs,
           NEW m \in Reached(Condensed(cs), {Merged(cs, c)})
    PROVE  \E d \in Reached(cs, {c}) : m = Merged(cs, d)
<1> DEFINE S == {Merged(cs, d) : d \in Reached(cs, {c})}
<1>1. S \in SUBSET Condensed(cs) BY CondensedMerges, ReachedIn
<1>2. {Merged(cs, c)} \subseteq S BY ReachedRoots
<1>3. ASSUME NEW a \in S, NEW b \in Condensed(cs), Imports(a, b)
      PROVE  b \in S
  <2>1. PICK d \in Reached(cs, {c}) : a = Merged(cs, d) OBVIOUS
  <2>2. d \in cs BY ReachedIn
  <2>3. PICK e \in cs : b = Merged(cs, e) BY CondensedMerges
  <2>4. PICK x \in Component(cs, d), y \in Component(cs, e) : Imports(x, y)
    BY <1>3, <2>1, <2>2, <2>3, MergedImports
  <2>5. x \in Reached(cs, {c})
    <3>1. x \in Reached(cs, {d}) BY <2>4 DEF Component
    <3>2. {d} \in SUBSET Reached(cs, {c}) /\ {c} \in SUBSET cs OBVIOUS
    <3> QED BY <3>1, <3>2, ReachedMore
  <2>6. y \in cs BY <2>4, ComponentFacts
  <2>7. y \in Reached(cs, {c}) BY <2>4, <2>5, <2>6, ReachedStep
  <2>8. Merged(cs, y) = Merged(cs, e) BY <2>4, MergedFacts
  <2> QED BY <2>3, <2>7, <2>8
<1> HIDE DEF S
<1>4. m \in S BY <1>1, <1>2, <1>3, ReachedLeast
<1> QED BY <1>4 DEF S

-----------------------------------------------------------------------------
(* Sets of clusters: pairwise disjoint and not empty, one entry at most,   *)
(* and no item apart from what it assigns or declares again.               *)

Disjoint(cs) == /\ \A c \in cs : c.items # {}
                /\ \A c, d \in cs : c # d => c.items \cap d.items = {}

OneEntry(cs) == \A c, d \in cs : c.entry /\ d.entry => c = d

Links(i) == graph.writes[i] \cup graph.firsts[i]

LinksKept(cs) == \A c \in cs : \A i \in c.items : Links(i) \subseteq c.items

(* Condensing disjoint clusters keeps all of this. *)
LEMMA CondensedClusters ==
    ASSUME NEW cs \in SUBSET Cluster PROVE Condensed(cs) \subseteq Cluster
<1>1. ASSUME NEW c \in cs PROVE Merged(cs, c) \in Cluster
  <2>1. Component(cs, c) \subseteq cs BY ComponentFacts
  <2>2. \A d \in Component(cs, c) : d.items \subseteq Items BY <2>1 DEF Cluster
  <2>3. UNION {d.items : d \in Component(cs, c)} \in SUBSET Items BY <2>2
  <2>4. (Entries(Component(cs, c)) # {}) \in BOOLEAN OBVIOUS
  <2> QED BY <2>3, <2>4 DEF Merged, Joined, Cluster
<1> QED BY <1>1, CondensedMerges

LEMMA CondensedMember ==
    ASSUME NEW cs, Disjoint(cs), NEW c \in cs, NEW d \in cs,
           Merged(cs, c).items \cap Merged(cs, d).items # {}
    PROVE  /\ Merged(cs, c) = Merged(cs, d)
           /\ c \in Component(cs, d)
<1>1. /\ Merged(cs, c).items = UNION {e.items : e \in Component(cs, c)}
      /\ Merged(cs, d).items = UNION {e.items : e \in Component(cs, d)}
  BY MergedFacts
<1>2. PICK x \in Component(cs, c), y \in Component(cs, d) : x.items \cap y.items # {}
  BY <1>1
<1>3. x \in cs /\ y \in cs BY ComponentFacts
<1>4. x = y BY <1>2, <1>3 DEF Disjoint
<1>5. Component(cs, x) = Component(cs, c) BY ComponentFacts
<1>6. Component(cs, y) = Component(cs, d) BY ComponentFacts
<1>7. c \in Component(cs, c) BY ComponentFacts
<1> QED BY <1>4, <1>5, <1>6, <1>7 DEF Merged

LEMMA CondensedDisjoint ==
    ASSUME NEW cs, Disjoint(cs) PROVE Disjoint(Condensed(cs))
<1>1. ASSUME NEW c \in cs PROVE Merged(cs, c).items # {}
  <2>1. c.items \subseteq Merged(cs, c).items BY MergedFacts
  <2> QED BY <2>1 DEF Disjoint
<1>2. \A c, d \in cs : Merged(cs, c) # Merged(cs, d)
                         => Merged(cs, c).items \cap Merged(cs, d).items = {}
  BY CondensedMember
<1> QED BY <1>1, <1>2, CondensedMerges DEF Disjoint

LEMMA CondensedOneEntry ==
    ASSUME NEW cs, OneEntry(cs) PROVE OneEntry(Condensed(cs))
<1>1. ASSUME NEW c \in cs, NEW d \in cs, Merged(cs, c).entry, Merged(cs, d).entry
      PROVE  Merged(cs, c) = Merged(cs, d)
  <2>1. Merged(cs, c).entry = (\E e \in Component(cs, c) : e.entry) BY MergedFacts
  <2>2. Merged(cs, d).entry = (\E e \in Component(cs, d) : e.entry) BY MergedFacts
  <2>3. PICK x \in Component(cs, c) : x.entry BY <1>1, <2>1
  <2>4. PICK y \in Component(cs, d) : y.entry BY <1>1, <2>2
  <2>5. x \in cs /\ y \in cs BY ComponentFacts
  <2>6. x = y BY <2>3, <2>4, <2>5 DEF OneEntry
  <2>7. Merged(cs, x) = Merged(cs, c) BY MergedFacts
  <2>8. Merged(cs, y) = Merged(cs, d) BY MergedFacts
  <2> QED BY <2>6, <2>7, <2>8
<1> QED BY <1>1, CondensedMerges DEF OneEntry

LEMMA CondensedLinks ==
    ASSUME NEW cs, LinksKept(cs) PROVE LinksKept(Condensed(cs))
<1>1. ASSUME NEW c \in cs, NEW i \in Merged(cs, c).items
      PROVE  Links(i) \subseteq Merged(cs, c).items
  <2>1. Merged(cs, c).items = UNION {e.items : e \in Component(cs, c)} BY MergedFacts
  <2>2. PICK x \in Component(cs, c) : i \in x.items BY <2>1
  <2>3. x \in cs BY ComponentFacts
  <2>4. Links(i) \subseteq x.items BY <2>2, <2>3 DEF LinksKept
  <2> QED BY <2>1, <2>4
<1> QED BY <1>1, CondensedMerges DEF LinksKept

(* Once disjoint clusters are condensed, no two import each other. *)
LEMMA CondensedAcyclic ==
    ASSUME NEW cs, Disjoint(cs) PROVE Acyclic(Condensed(cs))
<1>1. ASSUME NEW c \in cs, NEW d \in cs,
             Merged(cs, d) \in Reached(Condensed(cs), {Merged(cs, c)}),
             Merged(cs, c) \in Reached(Condensed(cs), {Merged(cs, d)})
      PROVE  Merged(cs, c) = Merged(cs, d)
  <2>1. PICK x \in Reached(cs, {c}) : Merged(cs, d) = Merged(cs, x)
    BY <1>1, MergedReach
  <2>2. PICK y \in Reached(cs, {d}) : Merged(cs, c) = Merged(cs, y)
    BY <1>1, MergedReach
  <2>3. x \in cs /\ y \in cs BY ReachedIn
  <2>4. ASSUME NEW a \in cs, NEW b \in cs, Merged(cs, a) = Merged(cs, b)
        PROVE  a \in Reached(cs, {b}) /\ b \in Reached(cs, {a})
    <3>1. a.items \subseteq Merged(cs, a).items BY MergedFacts
    <3>2. Merged(cs, a).items \cap Merged(cs, b).items # {}
      BY <2>4, <3>1 DEF Disjoint
    <3>3. a \in Component(cs, b) BY <3>2, CondensedMember
    <3> QED BY <3>3 DEF Component
  <2>5. x \in Reached(cs, {d}) /\ d \in Reached(cs, {x}) BY <2>1, <2>3, <2>4
  <2>6. y \in Reached(cs, {c}) /\ c \in Reached(cs, {y}) BY <2>2, <2>3, <2>4
  <2>7. d \in Reached(cs, {c})
    <3>1. {c} \in SUBSET cs /\ {x} \in SUBSET Reached(cs, {c}) OBVIOUS
    <3> QED BY <3>1, <2>5, ReachedMore
  <2>8. c \in Reached(cs, {d})
    <3>1. {d} \in SUBSET cs /\ {y} \in SUBSET Reached(cs, {d}) OBVIOUS
    <3> QED BY <3>1, <2>6, ReachedMore
  <2>9. d \in Component(cs, c) BY <2>7, <2>8 DEF Component
  <2> QED BY <2>9, MergedFacts
<1> QED BY <1>1, CondensedMerges DEF Acyclic

(* And what ran when the entry was loaded still runs. *)
EffectsReached(cs) ==
    Entries(cs) # {} =>
        \A c \in cs : c.items \cap prog.effects # {} => c \in Reached(cs, Entries(cs))

LEMMA CondensedEffects ==
    ASSUME NEW cs, EffectsReached(cs) PROVE EffectsReached(Condensed(cs))
<1> DEFINE ms == Condensed(cs)
<1>1. SUFFICES ASSUME Entries(ms) # {}, NEW c \in cs,
                      Merged(cs, c).items \cap prog.effects # {},
                      NEW S \in SUBSET ms, Entries(ms) \subseteq S,
                      Closed(S, ImportEdges(ms))
               PROVE  Merged(cs, c) \in S
  BY CondensedMerges DEF EffectsReached, Reached
<1> DEFINE T == {d \in cs : Merged(cs, d) \in S}
<1>2. ASSUME NEW d \in cs, d.entry PROVE d \in T
  <2>1. Merged(cs, d).entry = (\E e \in Component(cs, d) : e.entry) BY MergedFacts
  <2>2. d \in Component(cs, d) BY ComponentFacts
  <2>3. Merged(cs, d).entry BY <1>2, <2>1, <2>2
  <2> QED BY <1>1, <2>3, CondensedMerges DEF Entries
<1>3. Entries(cs) # {}
  <2>1. PICK d \in cs : Merged(cs, d).entry BY <1>1, CondensedMerges DEF Entries
  <2>2. Merged(cs, d).entry = (\E e \in Component(cs, d) : e.entry) BY MergedFacts
  <2>3. Component(cs, d) \subseteq cs BY ComponentFacts
  <2> QED BY <2>1, <2>2, <2>3 DEF Entries
<1>4. ASSUME NEW a \in T, NEW b \in cs, Imports(a, b) PROVE b \in T
  <2>1. /\ a.items \subseteq Merged(cs, a).items
        /\ b.items \subseteq Merged(cs, b).items
    BY MergedFacts
  <2>2. Merged(cs, a) = Merged(cs, b) \/ Imports(Merged(cs, a), Merged(cs, b))
    BY <1>4, <2>1 DEF Imports
  <2>3. Imports(Merged(cs, a), Merged(cs, b)) => Merged(cs, b) \in S
    <3>1. Merged(cs, a) \in ms /\ Merged(cs, b) \in ms BY CondensedMerges
    <3>2. Merged(cs, a) \in S OBVIOUS
    <3> HIDE DEF ms
    <3> QED BY <1>1, <3>1, <3>2, ClosedStep
  <2> QED BY <2>2, <2>3
<1>5. Merged(cs, c).items = UNION {e.items : e \in Component(cs, c)} BY MergedFacts
<1>6. PICK x \in Component(cs, c) : x.items \cap prog.effects # {} BY <1>1, <1>5
<1>7. x \in cs BY ComponentFacts
<1>8. x \in Reached(cs, Entries(cs)) BY <1>3, <1>6, <1>7 DEF EffectsReached
<1>9. x \in T
  <2>1. T \in SUBSET cs /\ Entries(cs) \subseteq T BY <1>2 DEF Entries
  <2> HIDE DEF T
  <2> QED BY <1>4, <1>8, <2>1, ReachedLeast
<1>10. Merged(cs, x) = Merged(cs, c) BY MergedFacts
<1> QED BY <1>9, <1>10

-----------------------------------------------------------------------------
(* Joining clusters of a disjoint set. *)

LEMMA JoinedFacts ==
    ASSUME NEW cs, NEW P \in SUBSET cs, NEW e \in BOOLEAN
    PROVE  /\ Joined(P, e).items = UNION {c.items : c \in P}
           /\ Joined(P, e).entry = e
           /\ cs \subseteq Cluster => Joined(P, e) \in Cluster
           /\ Disjoint(cs) /\ P # {} => Joined(P, e).items # {}
           /\ LinksKept(cs) => \A i \in Joined(P, e).items : Links(i) \subseteq Joined(P, e).items
<1>1. Joined(P, e).items = UNION {c.items : c \in P} BY DEF Joined
<1>2. Joined(P, e).entry = e BY DEF Joined
<1>3. ASSUME cs \subseteq Cluster PROVE Joined(P, e) \in Cluster
  <2>1. \A c \in P : c.items \subseteq Items BY <1>3 DEF Cluster
  <2>2. UNION {c.items : c \in P} \in SUBSET Items BY <2>1
  <2> QED BY <2>2 DEF Joined, Cluster
<1>4. ASSUME Disjoint(cs), P # {} PROVE Joined(P, e).items # {}
  BY <1>1, <1>4 DEF Disjoint
<1>5. ASSUME LinksKept(cs), NEW i \in Joined(P, e).items
      PROVE  Links(i) \subseteq Joined(P, e).items
  <2>1. PICK c \in P : i \in c.items BY <1>1
  <2>2. Links(i) \subseteq c.items BY <1>5, <2>1 DEF LinksKept
  <2> QED BY <1>1, <2>1, <2>2
<1> QED BY <1>1, <1>2, <1>3, <1>4, <1>5

LEMMA JoinedApart ==
    ASSUME NEW cs, Disjoint(cs), NEW P \in SUBSET cs, NEW Q \in SUBSET cs, P \cap Q = {},
           NEW d \in BOOLEAN, NEW e \in BOOLEAN
    PROVE  Joined(P, d).items \cap Joined(Q, e).items = {}
<1>1. /\ Joined(P, d).items = UNION {c.items : c \in P}
      /\ Joined(Q, e).items = UNION {c.items : c \in Q}
  BY JoinedFacts
<1>2. \A x \in P, y \in Q : x.items \cap y.items = {} BY DEF Disjoint
<1> QED BY <1>1, <1>2

(* The three facts about a set of clusters, together. *)
Proper(cs) == cs \subseteq Cluster /\ Disjoint(cs) /\ OneEntry(cs) /\ LinksKept(cs)

(* One cluster of each family, and the entry. *)
Families(Own, Fam, E) == {Joined(Fam[a], FALSE) : a \in Own}
                           \cup (IF E = {} THEN {} ELSE {Joined(E, TRUE)})

(* Joining apart families, one of them the entry, gives proper clusters. *)
LEMMA FamiliesProper ==
    ASSUME NEW cs \in SUBSET Cluster, Disjoint(cs), LinksKept(cs),
           NEW Own, NEW Fam \in [Own -> SUBSET cs], NEW E \in SUBSET cs,
           \A a \in Own : Fam[a] # {} /\ Fam[a] \cap E = {},
           \A a, b \in Own : a # b => Fam[a] \cap Fam[b] = {}
    PROVE  Proper(Families(Own, Fam, E))
<1> DEFINE own == {Joined(Fam[a], FALSE) : a \in Own}
           entry == IF E = {} THEN {} ELSE {Joined(E, TRUE)}
<1>1. \A c \in own : c \in Cluster /\ c.items # {} /\ ~c.entry
                     /\ \A i \in c.items : Links(i) \subseteq c.items
  <2>1. SUFFICES ASSUME NEW a \in Own
                 PROVE  LET c == Joined(Fam[a], FALSE)
                        IN  /\ c \in Cluster /\ c.items # {} /\ ~c.entry
                            /\ \A i \in c.items : Links(i) \subseteq c.items
    OBVIOUS
  <2>2. Fam[a] \in SUBSET cs /\ Fam[a] # {} OBVIOUS
  <2>3. PICK F \in SUBSET cs : F = Fam[a] BY <2>2
  <2> QED BY <2>2, <2>3, JoinedFacts
<1>2. \A c \in entry : c \in Cluster /\ c.items # {} /\ c.entry /\ c = Joined(E, TRUE)
                     /\ \A i \in c.items : Links(i) \subseteq c.items
  <2>1. CASE E = {} BY <2>1
  <2>2. CASE E # {}
    <3>1. entry = {Joined(E, TRUE)} BY <2>2
    <3>2. LET c == Joined(E, TRUE)
          IN  /\ c \in Cluster /\ c.items # {} /\ c.entry
              /\ \A i \in c.items : Links(i) \subseteq c.items
      BY <2>2, JoinedFacts
    <3> HIDE DEF entry
    <3> QED BY <3>1, <3>2
  <2> QED BY <2>1, <2>2
<1>3. ASSUME NEW c \in own, NEW d \in own, c # d PROVE c.items \cap d.items = {}
  <2>1. PICK a \in Own : c = Joined(Fam[a], FALSE) OBVIOUS
  <2>2. PICK b \in Own : d = Joined(Fam[b], FALSE) OBVIOUS
  <2>3. a # b BY <1>3, <2>1, <2>2
  <2>4. /\ Fam[a] \in SUBSET cs /\ Fam[b] \in SUBSET cs
        /\ Fam[a] \cap Fam[b] = {}
    BY <2>3
  <2> QED BY <2>1, <2>2, <2>4, JoinedApart
<1>4. ASSUME NEW c \in own, NEW d \in entry PROVE c.items \cap d.items = {}
  <2>1. PICK a \in Own : c = Joined(Fam[a], FALSE) OBVIOUS
  <2>2. d = Joined(E, TRUE) BY <1>2
  <2>3. Fam[a] \in SUBSET cs /\ Fam[a] \cap E = {} OBVIOUS
  <2> QED BY <2>1, <2>2, <2>3, JoinedApart
<1> HIDE DEF own, entry
<1>5. own \cup entry \subseteq Cluster BY <1>1, <1>2
<1>6. Disjoint(own \cup entry) BY <1>1, <1>2, <1>3, <1>4 DEF Disjoint
<1>7. OneEntry(own \cup entry) BY <1>1, <1>2 DEF OneEntry
<1>8. LinksKept(own \cup entry) BY <1>1, <1>2 DEF LinksKept
<1>9. Proper(own \cup entry) BY <1>5, <1>6, <1>7, <1>8 DEF Proper
<1> QED BY <1>9 DEF own, entry, Families

-----------------------------------------------------------------------------
(* The union-find keeps classes: each item is in its own, and two that     *)
(* share an item are the same.                                             *)

Classes(f) == /\ f \in [Items -> SUBSET Items]
              /\ \A i \in Items : i \in f[i]
              /\ \A i \in Items : \A j \in f[i] : f[j] = f[i]

LEMMA UniteClasses ==
    ASSUME Classes(cls), NEW i \in Items, NEW js \in SUBSET Items
    PROVE  /\ Classes(Unite(i, js))
           /\ \A k \in Items : cls[k] \subseteq Unite(i, js)[k]
           /\ js \subseteq Unite(i, js)[i]
<1> DEFINE M == cls[i] \cup UNION {cls[j] : j \in js}
           f == [k \in Items |-> IF k \in M THEN M ELSE cls[k]]
<1>1. f = Unite(i, js) BY DEF Unite
<1>2. M \subseteq Items BY DEF Classes
<1>3. i \in M /\ js \subseteq M BY DEF Classes
<1>4. ASSUME NEW k \in Items, NEW m \in cls[k], m \in M PROVE k \in M /\ cls[k] \subseteq M
  <2>1. cls[m] = cls[k] /\ k \in cls[k] BY DEF Classes
  <2>2. ASSUME NEW j \in Items, m \in cls[j] PROVE cls[j] = cls[k]
    BY <2>1, <2>2 DEF Classes
  <2> QED BY <1>4, <2>1, <2>2
<1> HIDE DEF M
<1>5. \A k \in Items : cls[k] \subseteq f[k]
  <2>1. ASSUME NEW k \in Items, k \in M PROVE cls[k] \subseteq M
    BY <1>4, <2>1 DEF Classes
  <2> QED BY <2>1
<1>6. ASSUME NEW k \in Items, NEW m \in f[k] PROVE f[m] = f[k]
  <2>1. CASE k \in M BY <2>1, <1>2
  <2>2. CASE k \notin M
    <3>1. m \in cls[k] /\ m \in Items BY <2>2 DEF Classes
    <3>2. m \notin M BY <1>4, <2>2, <3>1
    <3>3. cls[m] = cls[k] BY <3>1 DEF Classes
    <3> QED BY <2>2, <3>1, <3>2, <3>3
  <2> QED BY <2>1, <2>2
<1>7. f \in [Items -> SUBSET Items] BY <1>2 DEF Classes
<1>8. \A k \in Items : k \in f[k] BY <1>5 DEF Classes
<1>9. Classes(f) BY <1>6, <1>7, <1>8 DEF Classes
<1>10. f[i] = M BY <1>3
<1> QED BY <1>1, <1>3, <1>5, <1>9, <1>10

-----------------------------------------------------------------------------
(* Extraction. *)

GraphOK == graph \in [refs   : [Items -> SUBSET Items],
                      writes : [Items -> SUBSET Items],
                      firsts : [Items -> SUBSET Items]]

Linked == \A i \in Items : Links(i) \subseteq cls[i]

LEMMA RootsFacts ==
    ASSUME Classes(cls), Linked
    PROVE  Roots \in SUBSET Cluster /\ Disjoint(Roots) /\ LinksKept(Roots)
<1> DEFINE IsEntry(is) == \/ is \cap prog.moddecl # {}
                          \/ Cardinality(Declaring(is)) < 2 /\ Declaring(is) # is
           Root(is) == [items |-> is, entry |-> IsEntry(is)]
<1>0. Roots = {Root(is) : is \in {cls[i] : i \in Items}} BY DEF Roots
<1>10. \A is : IsEntry(is) \in BOOLEAN OBVIOUS
<1> HIDE DEF IsEntry
<1>1. \A r \in Roots : \E i \in Items : r.items = cls[i] /\ i \in r.items /\ r = Root(cls[i])
  BY <1>0 DEF Classes
<1>2. Roots \in SUBSET Cluster
  <2>1. \A i \in Items : cls[i] \in SUBSET Items BY DEF Classes
  <2>2. \A is \in SUBSET Items : Root(is) \in Cluster BY <1>10 DEF Cluster
  <2> HIDE DEF Root
  <2> QED BY <1>1, <2>1, <2>2
<1>3. \A r, s \in Roots : r.items = s.items => r = s
  BY <1>1
<1>4. Disjoint(Roots)
  <2>1. ASSUME NEW r \in Roots, NEW s \in Roots, NEW k \in r.items \cap s.items
        PROVE  r = s
    <3>1. PICK i \in Items : r.items = cls[i] BY <1>1
    <3>2. PICK j \in Items : s.items = cls[j] BY <1>1
    <3>3. cls[i] = cls[j] BY <2>1, <3>1, <3>2 DEF Classes
    <3> QED BY <1>3, <3>1, <3>2, <3>3
  <2> QED BY <1>1, <2>1 DEF Disjoint
<1>5. LinksKept(Roots)
  <2>1. ASSUME NEW r \in Roots, NEW k \in r.items PROVE Links(k) \subseteq r.items
    <3>1. PICK i \in Items : r.items = cls[i] BY <1>1
    <3>2. k \in Items /\ cls[k] = cls[i] BY <2>1, <3>1 DEF Classes
    <3> QED BY <3>1, <3>2 DEF Linked
  <2> QED BY <2>1 DEF LinksKept
<1> QED BY <1>2, <1>4, <1>5

LEMMA EstablishedProper ==
    ASSUME Classes(cls), Linked PROVE Proper(Established)
<1> DEFINE Own(r) == r.items \cap prog.moddecl = {} /\ Cardinality(Declaring(r.items)) >= 2
           own == {r \in Roots : Own(r)}
           rest == Roots \ own
           fam == [r \in own |-> {r}]
<1>1. Established = Families(own, fam, rest)
  <2>1. {Joined({r}, FALSE) : r \in own} = {Joined(fam[r], FALSE) : r \in own} OBVIOUS
  <2>2. Established = {Joined({r}, FALSE) : r \in own}
                        \cup (IF rest = {} THEN {} ELSE {Joined(rest, TRUE)})
    BY DEF Established
  <2> HIDE DEF fam, own, rest
  <2> QED BY <2>1, <2>2 DEF Families
<1>2. own \subseteq Roots /\ rest \in SUBSET Roots /\ own \cap rest = {} OBVIOUS
<1> HIDE DEF own, rest
<1>3. fam \in [own -> SUBSET Roots] BY <1>2
<1>4. \A a \in own : fam[a] # {} /\ fam[a] \cap rest = {} BY <1>2
<1>5. \A a, b \in own : a # b => fam[a] \cap fam[b] = {} OBVIOUS
<1> HIDE DEF fam
<1> QED BY <1>1, <1>2, <1>3, <1>4, <1>5, RootsFacts, FamiliesProper

LEMMA NearerAsymmetric ==
    ASSUME NEW a \in Nat, NEW b \in Nat, NEW s \in Nat, Nearer(a, b, s)
    PROVE  ~Nearer(b, a, s)
BY DEF Nearer

LEMMA RegionsProper ==
    ASSUME NEW as \in SUBSET Cluster, Disjoint(as), LinksKept(as), NEW pos \in [as -> Nat]
    PROVE  Proper(Regions(as, pos))
<1> DEFINE singles == Singletons(as) \ EntryAtoms(as)
           Region(a) == {a} \cup {s \in singles : \A b \in Anchors(as) \ {a} :
                                                 Nearer(pos[a], pos[b], pos[s])}
           own == Anchors(as)
           E == EntryAtoms(as)
           fam == [a \in own |-> Region(a)]
<1>1. Regions(as, pos) = {Joined(Region(a), FALSE) : a \in own}
                           \cup (IF E = {} THEN {} ELSE {Joined(E, TRUE)})
  BY DEF Regions
<1>2. singles \subseteq as /\ singles \cap E = {} /\ singles \cap own = {} /\ own \subseteq as
  BY DEF Singletons, Anchors
<1>3. E \in SUBSET as BY DEF EntryAtoms, Entries, Singletons
<1>4. own \cap E = {} BY DEF EntryAtoms, Anchors, Entries, Singletons
<1> HIDE DEF singles, own, E
<1>5. fam \in [own -> SUBSET as] BY <1>2
<1>6. \A a \in own : fam[a] # {} /\ fam[a] \cap E = {} BY <1>2, <1>4
<1>7. ASSUME NEW a \in own, NEW b \in own, a # b PROVE fam[a] \cap fam[b] = {}
  <2>1. SUFFICES ASSUME NEW s \in Region(a), s \in Region(b) PROVE FALSE OBVIOUS
  <2>2. s \in singles BY <1>2, <1>7, <2>1
  <2>3. s \notin own BY <1>2, <2>2
  <2>4. /\ Nearer(pos[a], pos[b], pos[s])
        /\ Nearer(pos[b], pos[a], pos[s])
    BY <1>7, <2>1, <2>3 DEF own
  <2>5. pos[a] \in Nat /\ pos[b] \in Nat /\ pos[s] \in Nat BY <1>2, <2>2
  <2> QED BY <2>4, <2>5, NearerAsymmetric
<1>8. {Joined(Region(a), FALSE) : a \in own} = {Joined(fam[a], FALSE) : a \in own}
  OBVIOUS
<1> HIDE DEF fam, Region
<1>9. Proper(Families(own, fam, E))
  BY <1>3, <1>5, <1>6, <1>7, FamiliesProper
<1>10. Regions(as, pos) = Families(own, fam, E) BY <1>1, <1>8 DEF Families
<1> QED BY <1>9, <1>10

(* Disjoint clusters are finitely many, so that places are numbers. *)
LEMMA DisjointFinite ==
    ASSUME NEW as \in SUBSET Cluster, Disjoint(as) PROVE IsFiniteSet(as)
<1> DEFINE g == [a \in as |-> CHOOSE i \in a.items : TRUE]
<1>1. \A a \in as : g[a] \in a.items /\ g[a] \in Items
  <2>1. ASSUME NEW a \in as PROVE g[a] \in a.items /\ g[a] \in Items
    <3>1. a.items # {} /\ a.items \subseteq Items BY DEF Disjoint, Cluster
    <3> QED BY <3>1
  <2> QED BY <2>1
<1> HIDE DEF g
<1>2. \A a, b \in as : g[a] = g[b] => a = b BY <1>1 DEF Disjoint
<1>3. g \in Injection(as, Items)
  <2>1. g \in [as -> Items] BY <1>1 DEF g
  <2> QED BY <1>2, <2>1 DEF Injection, IsInjective
<1>4. IsFiniteSet(Items) BY ConstantsAssumption, FS_Interval DEF Items
<1> QED BY <1>3, <1>4, FS_Injection

LEMMA PlacesType ==
    ASSUME NEW as \in SUBSET Cluster, Disjoint(as) PROVE Places(as) \in [as -> Nat]
<1>1. Cardinality(as) \in Nat BY DisjointFinite, FS_CardinalityType
<1>2. IsFiniteSet(0..Cardinality(as))
  <2>1. \A n \in Nat : n \in Int OBVIOUS
  <2>2. \A n \in Nat : IsFiniteSet(0..n) BY <2>1, FS_Interval
  <2> QED BY <1>1, <2>2
<1>3. \A T \in SUBSET (0..Cardinality(as)) : Cardinality(T) \in Nat
  BY <1>2, FS_Subset, FS_CardinalityType
<1> DEFINE placed[k \in 0..Cardinality(as)] ==
             IF k = 0 THEN {}
             ELSE LET left == as \ placed[k-1]
                  IN  placed[k-1] \cup
                        {Earliest({a \in left : \A b \in left : ~Imports(b, a)})}
<1>4. Places(as) = [a \in as |-> Cardinality({k \in 0..Cardinality(as) : a \notin placed[k]})]
  BY DEF Places
<1> HIDE DEF placed
<1>5. \A a \in as : Cardinality({k \in 0..Cardinality(as) : a \notin placed[k]}) \in Nat
  BY <1>3
<1> QED BY <1>4, <1>5

LEMMA ExecutableProper ==
    ASSUME Classes(cls), Linked PROVE Proper(Executable)
<1> DEFINE as == Condensed(Roots)
<1>1. as \in SUBSET Cluster BY RootsFacts, CondensedClusters
<1>2. Disjoint(as) BY RootsFacts, CondensedDisjoint
<1>3. LinksKept(as) BY RootsFacts, CondensedLinks
<1>4. Executable = Regions(as, Places(as)) BY DEF Executable
<1> HIDE DEF as
<1>5. Places(as) \in [as -> Nat] BY <1>1, <1>2, PlacesType
<1> QED BY <1>1, <1>2, <1>3, <1>4, <1>5, RegionsProper

-----------------------------------------------------------------------------
(* Moves to the entry. *)

LEMMA MovedItemsFacts ==
    ASSUME GraphOK
    PROVE  /\ MovedItems \subseteq Items
           /\ Bare \subseteq MovedItems
           /\ \A i \in Items : \A j \in Links(i) : i \in MovedItems <=> j \in MovedItems
<1> DEFINE closed == {is \in SUBSET Items : Bare \subseteq is /\ WriteClosed(is)}
<1>1. MovedItems = {i \in Items : \A is \in closed : i \in is} BY DEF MovedItems
<1>2. \A is \in closed : \A i \in Items : \A j \in Links(i) : i \in is <=> j \in is
  BY DEF WriteClosed, Links
<1>3. \A is \in closed : Bare \subseteq is OBVIOUS
<1>4. Bare \subseteq Items BY DEF Bare
<1>5. \A i \in Items : Links(i) \subseteq Items BY DEF GraphOK, Links
<1> HIDE DEF closed
<1> QED BY <1>1, <1>2, <1>3, <1>4, <1>5

LEMMA MovedProper ==
    ASSUME GraphOK, NEW cs, Proper(cs)
    PROVE  /\ Proper(MovedToEntry(cs))
           /\ \A c \in MovedToEntry(cs) : c.items \cap Bare # {} => c.entry
<1>1. CASE Bare = {} BY <1>1 DEF MovedToEntry
<1>2. CASE Bare # {}
  <2> DEFINE kept == WithoutItems(cs \ Entries(cs), MovedItems)
             old == UNION {c.items : c \in Entries(cs)}
             entry == [items |-> MovedItems \cup old, entry |-> TRUE]
  <2>1. MovedToEntry(cs) = kept \cup {entry} BY <1>2 DEF MovedToEntry
  <2>2. \A d \in kept : \E c \in cs : /\ d.items = c.items \ MovedItems
                                      /\ d.items # {}
                                      /\ ~c.entry
                                      /\ d = [items |-> c.items \ MovedItems, entry |-> c.entry]
    BY DEF WithoutItems, Entries
  <2>3. entry.items = MovedItems \cup old /\ entry.entry = TRUE OBVIOUS
  <2>4. \A c \in cs : c \in Cluster /\ c.items \subseteq Items /\ c.entry \in BOOLEAN
    BY DEF Proper, Cluster
  <2>5. old \subseteq Items BY <2>4 DEF Entries
  <2>6. \A k \in old : \E c \in cs : c.entry /\ k \in c.items /\ c.items \subseteq old
    BY DEF Entries
  <2> HIDE DEF kept, old
  <2>7. entry \in Cluster BY <2>5, MovedItemsFacts DEF Cluster
  <2>8. entry.items # {} BY <1>2, <2>3, MovedItemsFacts
  <2> HIDE DEF entry
  <2>9. kept \subseteq Cluster
    <3>1. ASSUME NEW d \in kept PROVE d \in Cluster
      <4>1. PICK c \in cs : ~c.entry /\ d = [items |-> c.items \ MovedItems, entry |-> c.entry]
        BY <2>2
      <4>2. c.items \ MovedItems \in SUBSET Items /\ c.entry \in BOOLEAN BY <2>4
      <4> QED BY <4>1, <4>2 DEF Cluster
    <3> QED BY <3>1
  <2>10. \A d \in kept : ~d.entry BY <2>2
  <2>11. ASSUME NEW d \in kept, NEW e \in kept, d # e PROVE d.items \cap e.items = {}
    <3>1. PICK c \in cs : d = [items |-> c.items \ MovedItems, entry |-> c.entry] BY <2>2
    <3>2. PICK b \in cs : e = [items |-> b.items \ MovedItems, entry |-> b.entry] BY <2>2
    <3>3. b # c BY <2>11, <3>1, <3>2
    <3>4. b.items \cap c.items = {} BY <3>3 DEF Proper, Disjoint
    <3> QED BY <3>1, <3>2, <3>4
  <2>12. ASSUME NEW d \in kept PROVE d.items \cap entry.items = {}
    <3>1. PICK c \in cs : d.items = c.items \ MovedItems /\ ~c.entry BY <2>2
    <3>2. c.items \cap old = {} BY <2>6, <3>1 DEF Proper, Disjoint
    <3> QED BY <2>3, <3>1, <3>2
  <2>13. Disjoint(kept \cup {entry}) BY <2>2, <2>8, <2>11, <2>12 DEF Disjoint
  <2>14. OneEntry(kept \cup {entry}) BY <2>10 DEF OneEntry
  <2>15. ASSUME NEW d \in kept, NEW i \in d.items PROVE Links(i) \subseteq d.items
    <3>1. PICK c \in cs : d.items = c.items \ MovedItems BY <2>2
    <3>2. Links(i) \subseteq c.items BY <3>1 DEF Proper, LinksKept
    <3>3. i \in Items BY <2>4, <3>1
    <3> QED BY <3>1, <3>2, <3>3, MovedItemsFacts
  <2>16. ASSUME NEW i \in entry.items PROVE Links(i) \subseteq entry.items
    <3>1. CASE i \in MovedItems BY <2>3, <3>1, MovedItemsFacts
    <3>2. CASE i \in old
      <4>1. PICK c \in cs : i \in c.items /\ c.items \subseteq old BY <2>6, <3>2
      <4>2. Links(i) \subseteq c.items BY <4>1 DEF Proper, LinksKept
      <4> QED BY <2>3, <4>1, <4>2
    <3> QED BY <2>3, <3>1, <3>2
  <2>17. LinksKept(kept \cup {entry}) BY <2>15, <2>16 DEF LinksKept
  <2>18. \A c \in kept \cup {entry} : c.items \cap Bare # {} => c.entry
    BY <2>2, <2>3, MovedItemsFacts
  <2> QED BY <2>1, <2>7, <2>9, <2>13, <2>14, <2>17, <2>18 DEF Proper
<1> QED BY <1>1, <1>2

LEMMA FoldedProper ==
    ASSUME NEW cs, Proper(cs), NEW folded \in SUBSET cs
    PROVE  /\ Proper(Folded(cs, folded))
           /\ (\A c \in cs : c.items \cap Bare # {} => c.entry)
                => \A c \in Folded(cs, folded) : c.items \cap Bare # {} => c.entry
<1>1. CASE folded = {} BY <1>1 DEF Folded
<1>2. CASE folded # {}
  <2> DEFINE gone == folded \cup Entries(cs)
             J == Joined(gone, TRUE)
  <2>1. Folded(cs, folded) = (cs \ gone) \cup {J} BY <1>2 DEF Folded
  <2>2. gone \in SUBSET cs /\ gone # {} BY <1>2 DEF Entries
  <2>3. \A c \in cs \ gone : ~c.entry BY DEF Entries
  <2> HIDE DEF gone
  <2>4. /\ J.items = UNION {c.items : c \in gone}
        /\ J.entry = TRUE
        /\ J \in Cluster
        /\ J.items # {}
        /\ \A i \in J.items : Links(i) \subseteq J.items
    BY <2>2, JoinedFacts DEF Proper
  <2> HIDE DEF J
  <2>5. \A c \in cs \ gone : c.items \cap J.items = {}
    BY <2>2, <2>4 DEF Proper, Disjoint
  <2>6. Disjoint((cs \ gone) \cup {J}) BY <2>4, <2>5 DEF Proper, Disjoint
  <2>7. OneEntry((cs \ gone) \cup {J}) BY <2>3, <2>4 DEF OneEntry
  <2>8. LinksKept((cs \ gone) \cup {J}) BY <2>4 DEF Proper, LinksKept
  <2> QED BY <2>1, <2>4, <2>6, <2>7, <2>8 DEF Proper
<1> QED BY <1>1, <1>2

(* When the rounds are over, the entry reaches all effects. *)
LEMMA FoldedEffects ==
    ASSUME NEW cs, NEW folded \in SUBSET cs, NeverRun(cs, folded) = {},
           folded # {} => Entries(cs) # {}
    PROVE  EffectsReached(Folded(cs, folded))
<1>1. Entries(cs) # {} => \A c \in cs : c.items \cap prog.effects # {}
                             => c \in Reached(cs, Entries(cs) \cup folded)
  BY DEF NeverRun
<1>2. CASE folded = {} BY <1>1, <1>2 DEF Folded, EffectsReached
<1>3. CASE folded # {}
  <2> DEFINE gone == folded \cup Entries(cs)
             J == Joined(gone, TRUE)
             new == (cs \ gone) \cup {J}
  <2>1. Folded(cs, folded) = new BY <1>3 DEF Folded
  <2>2. gone \in SUBSET cs BY DEF Entries
  <2>3. J.items = UNION {c.items : c \in gone} /\ J.entry = TRUE BY DEF Joined
  <2>4. \A c \in cs : c.items \cap prog.effects # {} => c \in Reached(cs, gone)
    BY <1>1, <1>3
  <2>5. J \in new OBVIOUS
  <2> HIDE DEF J, gone
  <2>6. ASSUME NEW c \in new, c.items \cap prog.effects # {},
               NEW S \in SUBSET new, Entries(new) \subseteq S, Closed(S, ImportEdges(new))
        PROVE  c \in S
    <3>1. J \in S BY <2>3, <2>5, <2>6 DEF Entries
    <3> DEFINE T == {d \in cs : d \in gone \/ d \in S}
    <3>2. ASSUME NEW a \in T, NEW b \in cs, Imports(a, b) PROVE b \in T
      <4>1. CASE b \in gone BY <4>1
      <4>2. CASE b \notin gone
        <5>1. b \in new BY <4>2
        <5>2. CASE a \in gone
          <6>1. b = J \/ Imports(J, b) BY <2>3, <3>2, <5>2 DEF Imports
          <6> QED BY <2>5, <2>6, <3>1, <5>1, <6>1, ClosedStep
        <5>3. CASE a \notin gone
          <6>1. a \in S /\ a \in new BY <5>3
          <6> QED BY <2>6, <3>2, <5>1, <6>1, ClosedStep
        <5> QED BY <5>2, <5>3
      <4> QED BY <4>1, <4>2
    <3>3. T \in SUBSET cs /\ gone \subseteq T BY <2>2
    <3> HIDE DEF T
    <3>4. Reached(cs, gone) \subseteq T BY <3>2, <3>3, ReachedLeast
    <3>5. CASE c = J BY <3>1, <3>5
    <3>6. CASE c # J
      <4>1. c \in cs /\ c \notin gone BY <3>6
      <4>2. c \in T BY <2>4, <2>6, <3>4, <4>1
      <4> QED BY <4>1, <4>2 DEF T
    <3> QED BY <3>5, <3>6
  <2> HIDE DEF new
  <2>7. EffectsReached(new) BY <2>6 DEF EffectsReached, Reached
  <2> QED BY <2>1, <2>7
<1> QED BY <1>2, <1>3

-----------------------------------------------------------------------------
(* Orders: least numbers, ready atoms, and the topological order that the    *)
(* executable extraction places atoms in.                                    *)

(* A nonempty set of numbers has a least one: among the sets 0..y of its     *)
(* members, one has none of the others as a strict subset.                   *)
LEMMA LeastNatural ==
    ASSUME NEW T \in SUBSET Nat, T # {}
    PROVE  \E x \in T : \A y \in T : x <= y
<1>1. PICK n \in T : TRUE OBVIOUS
<1> DEFINE F == {0..y : y \in {y \in T : y <= n}}
<1>2. IsFiniteSet(0..n) BY <1>1, FS_Interval
<1>3. F \subseteq FiniteSubsetsOf(0..n) BY <1>1, <1>2, FS_FiniteSubsetsOfFinite
<1>4. F # {} BY <1>1
<1>5. PICK x \in F : \A y \in F : <<y, x>> \notin StrictSubsetOrdering(0..n)
  BY <1>3, <1>4, FS_StrictSubsetOrderingWellFounded, WFMin
<1>6. PICK m \in T : m <= n /\ x = 0..m BY <1>5
<1>7. ASSUME NEW y \in T, ~(m <= y) PROVE FALSE
  <2>1. y \in Nat /\ m \in Nat /\ n \in Nat /\ y < m /\ y <= n BY <1>1, <1>6, <1>7
  <2>2. 0..y \in F BY <2>1
  <2>3. 0..y \subseteq 0..m /\ m \in 0..m /\ m \notin 0..y BY <2>1
  <2>4. 0..y \subseteq 0..n /\ 0..m \subseteq 0..n BY <2>1, <1>6
  <2>5. <<0..y, 0..m>> \in StrictSubsetOrdering(0..n) BY <2>3, <2>4 DEF StrictSubsetOrdering
  <2> QED BY <2>2, <2>5, <1>5, <1>6
<1> QED BY <1>7

(* So what holds at 0, and at k + 1 whenever it holds at k, holds up to n.   *)
LEMMA UpTo ==
    ASSUME NEW n \in Nat, NEW H \in SUBSET Nat, 0 \in H,
           \A k \in H : k < n => k + 1 \in H
    PROVE  0..n \subseteq H
<1> DEFINE T == (0..n) \ H
<1>1. SUFFICES ASSUME T # {} PROVE FALSE OBVIOUS
<1>2. T \subseteq Nat OBVIOUS
<1> HIDE DEF T
<1>3. PICK m \in T : \A y \in T : m <= y BY <1>1, <1>2, LeastNatural
<1>4. m \in 0..n /\ m \notin H BY <1>3 DEF T
<1>5. m - 1 \in Nat /\ m - 1 < n /\ m - 1 < m /\ (m - 1) + 1 = m BY <1>4
<1>6. m - 1 \notin T BY <1>2, <1>3, <1>5
<1>7. m - 1 \in H BY <1>5, <1>6, <1>4 DEF T
<1> QED BY <1>4, <1>5, <1>7

(* Finitely many clusters without an import cycle have one that none of      *)
(* them imports: its reach is not part of the reach of another.              *)
LEMMA ReadyExists ==
    ASSUME NEW cs, IsFiniteSet(cs), Acyclic(cs), NEW left \in SUBSET cs, left # {}
    PROVE  \E a \in left : \A b \in left : ~Imports(b, a)
<1> DEFINE Missed(a) == cs \ Reached(cs, {a})
           F == {Missed(a) : a \in left}
<1>1. F \subseteq FiniteSubsetsOf(cs) /\ F # {}
  <2>1. FiniteSubsetsOf(cs) = SUBSET cs BY FS_FiniteSubsetsOfFinite
  <2>2. \A a \in left : Missed(a) \in SUBSET cs OBVIOUS
  <2> HIDE DEF Missed
  <2> QED BY <2>1, <2>2
<1>2. PICK x \in F : \A y \in F : <<y, x>> \notin StrictSubsetOrdering(cs)
  <2> HIDE DEF F
  <2> QED BY <1>1, FS_StrictSubsetOrderingWellFounded, WFMin
<1>3. PICK a \in left : x = Missed(a) BY <1>2
<1>4. ASSUME NEW b \in left, Imports(b, a) PROVE FALSE
  <2>1. a # b /\ a \in cs /\ b \in cs BY <1>4 DEF Imports
  <2>2. b \in Reached(cs, {b}) BY <2>1, ReachedRoots
  <2>3. a \in Reached(cs, {b}) BY <1>4, <2>1, <2>2, ReachedStep
  <2>4. b \notin Reached(cs, {a}) BY <2>1, <2>3 DEF Acyclic
  <2>5. Reached(cs, {a}) \subseteq Reached(cs, {b})
    <3>1. {b} \in SUBSET cs /\ {a} \in SUBSET Reached(cs, {b}) BY <2>1, <2>3
    <3> QED BY <3>1, ReachedMore
  <2>6. Missed(b) \subseteq Missed(a) /\ Missed(b) # Missed(a) BY <2>1, <2>2, <2>4, <2>5
  <2>7. <<Missed(b), Missed(a)>> \in StrictSubsetOrdering(cs)
    BY <2>6 DEF StrictSubsetOrdering
  <2> QED BY <1>2, <1>3, <2>7
<1> QED BY <1>4

(* Earliest picks one of the clusters it is given. *)
LEMMA EarliestIn ==
    ASSUME NEW cs \in SUBSET Cluster, Disjoint(cs), cs # {}
    PROVE  Earliest(cs) \in cs
<1> DEFINE T == UNION {c.items : c \in cs}
<1>1. T \subseteq Nat BY DEF Cluster, Items
<1>2. T # {} BY DEF Disjoint
<1> HIDE DEF T
<1>3. PICK x \in T : \A y \in T : x <= y BY <1>1, <1>2, LeastNatural
<1>4. PICK c \in cs : x \in c.items BY <1>3 DEF T
<1>5. \A d \in cs : \A j \in d.items : x <= j BY <1>3 DEF T
<1>6. \E e \in cs : \E i \in e.items : \A d \in cs : \A j \in d.items : i <= j BY <1>4, <1>5
<1> QED BY <1>6 DEF Earliest

(* What the loop of Places adds to the atoms T it has placed. *)
Ready(as, T) == {a \in as \ T : \A b \in as \ T : ~Imports(b, a)}

PlaceNext(as, T) == T \cup {Earliest(Ready(as, T))}

IsPlacing(as, n, f) == f = [k \in 0..n |-> IF k = 0 THEN {} ELSE PlaceNext(as, f[k-1])]

LEMMA PlacingExists ==
    ASSUME NEW as, NEW n \in Nat PROVE \E f : IsPlacing(as, n, f)
<1> DEFINE H == {m \in Nat : \E f : IsPlacing(as, m, f)}
<1>1. 0 \in H
  <2>1. IsPlacing(as, 0, [k \in 0..0 |-> {}]) BY DEF IsPlacing
  <2> QED BY <2>1
<1>2. ASSUME NEW m \in H PROVE m + 1 \in H
  <2>0. m \in Nat OBVIOUS
  <2>1. PICK f : IsPlacing(as, m, f) OBVIOUS
  <2> DEFINE g == [k \in 0..(m + 1) |-> IF k = m + 1 THEN PlaceNext(as, f[m]) ELSE f[k]]
  <2>2. \A k \in 0..m : f[k] = IF k = 0 THEN {} ELSE PlaceNext(as, f[k-1])
    <3> DEFINE h == [k \in 0..m |-> IF k = 0 THEN {} ELSE PlaceNext(as, f[k-1])]
    <3>1. f = h BY <2>1 DEF IsPlacing
    <3>2. \A k \in 0..m : h[k] = IF k = 0 THEN {} ELSE PlaceNext(as, f[k-1]) OBVIOUS
    <3> HIDE DEF h
    <3> QED BY <3>1, <3>2
  <2>3. ASSUME NEW k \in 0..(m + 1)
        PROVE  g[k] = IF k = 0 THEN {} ELSE PlaceNext(as, g[k-1])
    <3>1. CASE k = m + 1
      <4>1. k - 1 = m /\ k # 0 /\ m \in 0..(m + 1) /\ m # m + 1 BY <3>1
      <4>2. g[m] = f[m] BY <4>1
      <4>3. g[k] = PlaceNext(as, f[m]) BY <3>1
      <4> HIDE DEF g
      <4> QED BY <4>1, <4>2, <4>3
    <3>2. CASE k # m + 1 /\ k # 0
      <4>1. k \in 0..m /\ k - 1 \in 0..(m + 1) /\ k - 1 # m + 1 BY <3>2
      <4>2. g[k] = f[k] /\ g[k-1] = f[k-1] BY <3>2, <4>1
      <4> HIDE DEF g
      <4> QED BY <2>2, <3>2, <4>1, <4>2
    <3>3. CASE k = 0
      <4>1. 0 \in 0..m /\ 0 \in 0..(m + 1) /\ 0 # m + 1 BY <2>0
      <4>2. g[0] = f[0] BY <4>1
      <4>3. f[0] = {} BY <2>2, <4>1
      <4> HIDE DEF g
      <4> QED BY <3>3, <4>2, <4>3
    <3> QED BY <3>1, <3>2, <3>3
  <2>4. g = [k \in 0..(m + 1) |-> g[k]] OBVIOUS
  <2> HIDE DEF g
  <2>5. IsPlacing(as, m + 1, g) BY <2>3, <2>4 DEF IsPlacing
  <2>6. m + 1 \in Nat BY <2>0
  <2>7. \E f1 : IsPlacing(as, m + 1, f1) BY <2>5
  <2> QED BY <2>6, <2>7
<1>3. H \subseteq Nat OBVIOUS
<1> HIDE DEF H
<1>4. 0..n \subseteq H BY <1>1, <1>2, <1>3, UpTo
<1>5. n \in H BY <1>4
<1> QED BY <1>5 DEF H

(* Places counts in how many steps of such a placing an atom is missing. *)
LEMMA PlacesOfPlacing ==
    ASSUME NEW as, IsFiniteSet(as)
    PROVE  \E f : /\ IsPlacing(as, Cardinality(as), f)
                 /\ Places(as) = [a \in as |->
                      Cardinality({k \in 0..Cardinality(as) : a \notin f[k]})]
<1> DEFINE placed[k \in 0..Cardinality(as)] ==
             IF k = 0 THEN {}
             ELSE LET left == as \ placed[k-1]
                  IN  placed[k-1] \cup
                        {Earliest({a \in left : \A b \in left : ~Imports(b, a)})}
<1>1. placed = CHOOSE f : IsPlacing(as, Cardinality(as), f)
  BY DEF IsPlacing, PlaceNext, Ready
<1>2. Places(as) = [a \in as |-> Cardinality({k \in 0..Cardinality(as) : a \notin placed[k]})]
  BY DEF Places
<1>3. Cardinality(as) \in Nat BY FS_CardinalityType
<1> HIDE DEF placed
<1>4. IsPlacing(as, Cardinality(as), placed) BY <1>1, <1>3, PlacingExists
<1> QED BY <1>2, <1>4

(* Each step of a placing adds one atom that no atom left imports, until all *)
(* are placed.                                                               *)
LEMMA PlacingStep ==
    ASSUME NEW as \in SUBSET Cluster, Disjoint(as), Acyclic(as), IsFiniteSet(as),
           NEW T \in SUBSET as, T # as
    PROVE  /\ Earliest(Ready(as, T)) \in as \ T
           /\ \A b \in as \ T : ~Imports(b, Earliest(Ready(as, T)))
<1>1. Ready(as, T) # {}
  <2>1. as \ T \in SUBSET as /\ as \ T # {} OBVIOUS
  <2> QED BY <2>1, ReadyExists DEF Ready
<1>2. Ready(as, T) \in SUBSET Cluster /\ Disjoint(Ready(as, T)) BY DEF Ready, Disjoint
<1>3. Earliest(Ready(as, T)) \in Ready(as, T) BY <1>1, <1>2, EarliestIn
<1> QED BY <1>3 DEF Ready

(* f[k] is the first k of the n atoms. *)
Placing(as, n, f) == Cardinality(as) = n /\ IsPlacing(as, n, f)

LEMMA PlacingFacts ==
    ASSUME NEW as \in SUBSET Cluster, Disjoint(as), Acyclic(as), IsFiniteSet(as),
           NEW n \in Nat, NEW f, Placing(as, n, f)
    PROVE  /\ f[0] = {}
           /\ f[n] = as
           /\ \A k \in 0..n : f[k] \subseteq as
           /\ \A k \in 1..n : /\ f[k] = PlaceNext(as, f[k-1])
                              /\ f[k-1] # as
<1>0. Cardinality(as) = n BY DEF Placing
<1> DEFINE H == {k \in Nat : k <= n => f[k] \subseteq as /\ Cardinality(f[k]) = k}
<1>1. \A k \in 0..n : f[k] = IF k = 0 THEN {} ELSE PlaceNext(as, f[k-1])
  <2> DEFINE h == [k \in 0..n |-> IF k = 0 THEN {} ELSE PlaceNext(as, f[k-1])]
  <2>1. f = h BY DEF Placing, IsPlacing
  <2>2. \A k \in 0..n : h[k] = IF k = 0 THEN {} ELSE PlaceNext(as, f[k-1]) OBVIOUS
  <2> HIDE DEF h
  <2> QED BY <2>1, <2>2
<1>2. \A k : k \in H <=> k \in Nat /\ (k <= n => f[k] \subseteq as /\ Cardinality(f[k]) = k)
  OBVIOUS
<1>3. H \subseteq Nat OBVIOUS
<1> HIDE DEF H
<1>4. f[0] = {}
  <2>1. 0 \in 0..n OBVIOUS
  <2> QED BY <1>1, <2>1
<1>5. 0 \in H
  <2>1. Cardinality(f[0]) = 0 BY <1>4, FS_EmptySet
  <2> QED BY <1>2, <1>4, <2>1
<1>6. ASSUME NEW k \in H, k < n PROVE k + 1 \in H
  <2>1. /\ k \in Nat /\ k + 1 \in Nat /\ k + 1 \in 0..n /\ k + 1 # 0
        /\ (k + 1) - 1 = k /\ k <= n /\ k # n
    BY <1>3, <1>6
  <2>2. f[k] \in SUBSET as /\ Cardinality(f[k]) = k BY <1>2, <2>1
  <2>3. f[k] # as BY <1>0, <2>1, <2>2
  <2>4. f[k + 1] = PlaceNext(as, f[k]) BY <1>1, <2>1
  <2>5. Earliest(Ready(as, f[k])) \in as \ f[k] BY <2>2, <2>3, PlacingStep
  <2>6. IsFiniteSet(f[k]) BY <2>2, FS_Subset
  <2>7. Cardinality(f[k + 1]) = k + 1 BY <2>2, <2>4, <2>5, <2>6, FS_AddElement DEF PlaceNext
  <2>8. f[k + 1] \subseteq as BY <2>2, <2>4, <2>5 DEF PlaceNext
  <2> QED BY <1>2, <2>1, <2>7, <2>8
<1>7. 0..n \subseteq H BY <1>3, <1>5, <1>6, UpTo
<1>8. ASSUME NEW k \in 0..n PROVE f[k] \in SUBSET as /\ Cardinality(f[k]) = k
  <2>1. k \in H /\ k <= n BY <1>7
  <2> QED BY <2>1, <1>2
<1>9. f[n] = as
  <2>1. n \in 0..n OBVIOUS
  <2>2. f[n] \in SUBSET as /\ Cardinality(f[n]) = n BY <1>8, <2>1
  <2> QED BY <1>0, <2>2, FS_Subset
<1>10. ASSUME NEW k \in 1..n PROVE f[k] = PlaceNext(as, f[k-1]) /\ f[k-1] # as
  <2>1. k - 1 \in 0..n /\ k \in 0..n /\ k # 0 /\ k - 1 # n OBVIOUS
  <2>2. Cardinality(f[k-1]) = k - 1 BY <1>8, <2>1
  <2>3. f[k-1] # as BY <1>0, <2>1, <2>2
  <2>4. f[k] = PlaceNext(as, f[k-1]) BY <1>1, <2>1
  <2> QED BY <2>3, <2>4
<1> QED BY <1>4, <1>8, <1>9, <1>10

(* Step r of a placing adds the atom a. *)
PlacedBy(as, n, f, r, a) ==
    /\ a = Earliest(Ready(as, f[r-1])) /\ a \in as \ f[r-1] /\ f[r-1] \in SUBSET as
    /\ \A k \in 0..n : a \in f[k] <=> r <= k

PlaceOf(n, f, a) == Cardinality({k \in 0..n : a \notin f[k]})

(* So an atom's place is the number of the step that adds it. *)
LEMMA PlacedAt ==
    ASSUME NEW as \in SUBSET Cluster, Disjoint(as), Acyclic(as), IsFiniteSet(as),
           NEW n \in Nat, NEW f, Placing(as, n, f), NEW a \in as
    PROVE  \E r \in 1..n : PlacedBy(as, n, f, r, a) /\ PlaceOf(n, f, a) = r
<1> DEFINE T == {k \in 0..n : a \in f[k]}
<1>1. f[0] = {} /\ f[n] = as
  <2>1. f[0] = {} BY PlacingFacts
  <2>2. f[n] = as BY PlacingFacts
  <2> QED BY <2>1, <2>2
<1>16. \A k \in 0..n : f[k] \subseteq as BY PlacingFacts
<1>17. \A k \in 1..n : f[k] = PlaceNext(as, f[k-1]) /\ f[k-1] # as BY PlacingFacts
<1>2. \A k : k \in T <=> k \in 0..n /\ a \in f[k] OBVIOUS
<1>3. T \subseteq Nat OBVIOUS
<1> HIDE DEF T
<1>4. n \in T
  <2>1. n \in 0..n OBVIOUS
  <2> QED BY <1>1, <1>2, <2>1
<1>5. PICK r \in T : \A k \in T : r <= k BY <1>3, <1>4, LeastNatural
<1>6. r \in Nat /\ r \in 0..n /\ a \in f[r] BY <1>2, <1>3, <1>5
<1>7. r # 0 BY <1>1, <1>6
<1>8. r \in 1..n /\ r - 1 \in 0..n /\ ~(r <= r - 1) BY <1>6, <1>7
<1>9. a \notin f[r-1] BY <1>2, <1>5, <1>8
<1>10. f[r] = PlaceNext(as, f[r-1]) /\ f[r-1] \in SUBSET as BY <1>16, <1>17, <1>8
<1>11. a = Earliest(Ready(as, f[r-1])) BY <1>6, <1>9, <1>10 DEF PlaceNext
<1>12. \A k \in 0..n : r <= k => a \in f[k]
  <2> DEFINE G == {k \in Nat : k <= n /\ r <= k => a \in f[k]}
  <2>1. \A k : k \in G <=> k \in Nat /\ (k <= n /\ r <= k => a \in f[k]) OBVIOUS
  <2> HIDE DEF G
  <2>2. 0 \in G BY <1>8, <2>1
  <2>3. ASSUME NEW k \in G, k < n PROVE k + 1 \in G
    <3>1. k \in Nat BY <2>1
    <3>2. k + 1 \in Nat /\ k + 1 \in 1..n /\ (k + 1) - 1 = k /\ k <= n BY <3>1, <2>3
    <3>3. f[k] \subseteq f[k + 1] BY <1>17, <3>2 DEF PlaceNext
    <3>4. r <= k => a \in f[k] BY <2>1, <3>2
    <3>5. r <= k + 1 => r <= k \/ r = k + 1 BY <1>6, <3>1
    <3>6. r <= k + 1 => a \in f[k + 1] BY <1>6, <3>3, <3>4, <3>5
    <3> QED BY <2>1, <3>2, <3>6
  <2>4. G \subseteq Nat BY <2>1
  <2>5. 0..n \subseteq G BY <2>2, <2>3, <2>4, UpTo
  <2>6. ASSUME NEW k \in 0..n, r <= k PROVE a \in f[k]
    <3>1. k \in G /\ k <= n BY <2>5
    <3> QED BY <2>1, <2>6, <3>1
  <2> QED BY <2>6
<1>13. \A k \in 0..n : a \in f[k] => r <= k BY <1>2, <1>5
<1>14. {k \in 0..n : a \notin f[k]} = 0..(r - 1)
  <2>1. ASSUME NEW k \in 0..n PROVE a \notin f[k] <=> k \in 0..(r - 1)
    <3>1. a \in f[k] <=> r <= k BY <1>12, <1>13
    <3> QED BY <1>6, <3>1
  <2>2. \A k \in 0..(r - 1) : k \in 0..n BY <1>8
  <2> QED BY <2>1, <2>2
<1>15. Cardinality(0..(r - 1)) = r
  <2>1. r - 1 \in Int /\ 0 \in Int /\ ~(0 > r - 1) /\ (r - 1) - 0 + 1 = r BY <1>8
  <2> QED BY <2>1, FS_Interval
<1>18. PlacedBy(as, n, f, r, a) BY <1>9, <1>10, <1>11, <1>12, <1>13 DEF PlacedBy
<1>19. PlaceOf(n, f, a) = r BY <1>14, <1>15 DEF PlaceOf
<1> QED BY <1>8, <1>18, <1>19

(* Places puts every atom at a place of its own, after all that import it. *)
LEMMA PlacesOrder ==
    ASSUME NEW as \in SUBSET Cluster, Disjoint(as), Acyclic(as)
    PROVE  /\ \A a \in as : Places(as)[a] \in Nat
           /\ \A a, b \in as : Places(as)[a] = Places(as)[b] => a = b
           /\ \A a, b \in as : Imports(a, b) => Places(as)[a] < Places(as)[b]
<1>1. IsFiniteSet(as) /\ Cardinality(as) \in Nat BY DisjointFinite, FS_CardinalityType
<1>2. PICK f : /\ IsPlacing(as, Cardinality(as), f)
               /\ Places(as) = [a \in as |->
                    Cardinality({k \in 0..Cardinality(as) : a \notin f[k]})]
  BY <1>1, PlacesOfPlacing
<1>3. PICK n : n = Cardinality(as) OBVIOUS
<1>4. /\ n \in Nat /\ Placing(as, n, f)
      /\ Places(as) = [a \in as |-> Cardinality({k \in 0..n : a \notin f[k]})]
  BY <1>1, <1>2, <1>3 DEF Placing
<1>5. ASSUME NEW a \in as
      PROVE  Places(as)[a] \in 1..n /\ PlacedBy(as, n, f, Places(as)[a], a)
  <2>1. PICK r \in 1..n : PlacedBy(as, n, f, r, a) /\ PlaceOf(n, f, a) = r
    BY <1>1, <1>4, PlacedAt
  <2>2. Places(as)[a] = PlaceOf(n, f, a) BY <1>4 DEF PlaceOf
  <2> QED BY <2>1, <2>2
<1>6. ASSUME NEW a \in as, NEW b \in as, Imports(a, b)
      PROVE  Places(as)[a] < Places(as)[b]
  <2>1. PICK q \in 1..n : q = Places(as)[a] /\ PlacedBy(as, n, f, q, a) BY <1>5
  <2>2. PICK r \in 1..n : r = Places(as)[b] /\ PlacedBy(as, n, f, r, b) BY <1>5
  <2>3. f[r-1] \in SUBSET as /\ f[r-1] # as /\ b = Earliest(Ready(as, f[r-1]))
    BY <2>2 DEF PlacedBy
  <2>4. \A c \in as \ f[r-1] : ~Imports(c, b) BY <1>1, <2>3, PlacingStep
  <2>5. a \in f[r-1] BY <1>6, <2>4
  <2>6. n \in Int /\ r \in Int /\ q \in Int /\ r - 1 \in 0..n BY <1>4
  <2>7. q <= r - 1 BY <2>1, <2>5, <2>6 DEF PlacedBy
  <2>8. q < r BY <2>6, <2>7
  <2> QED BY <2>1, <2>2, <2>8
<1>7. \A a \in as : Places(as)[a] \in Nat
  <2>1. 1..n \subseteq Nat BY <1>4
  <2> QED BY <1>5, <2>1
<1>8. ASSUME NEW a \in as, NEW b \in as, Places(as)[a] = Places(as)[b] PROVE a = b
  <2>1. PICK r : r = Places(as)[a] /\ r = Places(as)[b] BY <1>8
  <2>2. PlacedBy(as, n, f, r, a) /\ PlacedBy(as, n, f, r, b) BY <1>5, <2>1
  <2> QED BY <2>2 DEF PlacedBy
<1> QED BY <1>6, <1>7, <1>8

-----------------------------------------------------------------------------
(* Regions: each singleton joins the anchor nearest to it in that order. *)

(* Of different anchors one is the nearest. *)
LEMMA NearerOfKey ==
    ASSUME NEW c \in Nat, NEW d \in Nat, NEW s \in Nat, c # d,
           2 * (IF c < s THEN s - c ELSE c - s) + (IF s < c THEN 1 ELSE 0)
             <= 2 * (IF d < s THEN s - d ELSE d - s) + (IF s < d THEN 1 ELSE 0)
    PROVE  Nearer(c, d, s)
BY DEF Nearer

LEMMA NearestExists ==
    ASSUME NEW A, A # {}, NEW pos, \A a \in A : pos[a] \in Nat,
           \A a, b \in A : pos[a] = pos[b] => a = b, NEW s \in Nat
    PROVE  \E a \in A : \A b \in A \ {a} : Nearer(pos[a], pos[b], s)
<1> DEFINE Key(c) == 2 * (IF c < s THEN s - c ELSE c - s) + (IF s < c THEN 1 ELSE 0)
           T == {Key(pos[a]) : a \in A}
<1>1. \A c \in Nat : Key(c) \in Nat OBVIOUS
<1>2. \A c, d \in Nat : c # d /\ Key(c) <= Key(d) => Nearer(c, d, s) BY NearerOfKey
<1> HIDE DEF Key
<1>3. T \in SUBSET Nat /\ T # {} BY <1>1
<1>4. \A a \in A : Key(pos[a]) \in T OBVIOUS
<1>5. \A x \in T : \E a \in A : x = Key(pos[a]) OBVIOUS
<1> HIDE DEF T
<1>6. PICK x \in T : \A y \in T : x <= y BY <1>3, LeastNatural
<1>7. PICK a \in A : x = Key(pos[a]) BY <1>5
<1>8. ASSUME NEW b \in A \ {a} PROVE Nearer(pos[a], pos[b], s)
  <2>1. pos[a] \in Nat /\ pos[b] \in Nat /\ pos[a] # pos[b] OBVIOUS
  <2>2. Key(pos[a]) <= Key(pos[b]) BY <1>4, <1>6, <1>7
  <2> QED BY <1>2, <2>1, <2>2
<1> QED BY <1>8

(* Nearness splits the order at the middle between two anchors. *)
LEMMA NearerOrdered ==
    ASSUME NEW a \in Nat, NEW b \in Nat, a # b, NEW x \in Nat, NEW y \in Nat, x < y,
           Nearer(a, b, x), Nearer(b, a, y)
    PROVE  a < b
BY DEF Nearer

LEMMA NearerItself ==
    ASSUME NEW a \in Nat, NEW b \in Nat, a # b PROVE Nearer(a, b, a)
BY DEF Nearer

RegionOf(as, pos, a) ==
    {a} \cup {s \in Singletons(as) \ EntryAtoms(as) :
                \A b \in Anchors(as) \ {a} : Nearer(pos[a], pos[b], pos[s])}

LEMMA RegionsAre ==
    ASSUME NEW as, NEW pos
    PROVE  Regions(as, pos) =
             {Joined(RegionOf(as, pos, a), FALSE) : a \in Anchors(as)}
               \cup (IF EntryAtoms(as) = {} THEN {} ELSE {Joined(EntryAtoms(as), TRUE)})
BY DEF Regions, RegionOf

(* Numbers that put every atom at a place of its own, after its importers. *)
Ordered(as, pos) ==
    /\ \A a \in as : pos[a] \in Nat
    /\ \A a, b \in as : pos[a] = pos[b] => a = b
    /\ \A a, b \in as : Imports(a, b) => pos[a] < pos[b]

(* A region imports only regions of later anchors. *)
LEMMA RegionImports ==
    ASSUME NEW as, NEW pos, Ordered(as, pos),
           NEW a \in Anchors(as), NEW b \in Anchors(as), a # b,
           Imports(Joined(RegionOf(as, pos, a), FALSE), Joined(RegionOf(as, pos, b), FALSE))
    PROVE  pos[a] < pos[b]
<1> DEFINE R(x) == RegionOf(as, pos, x)
<1>1. PICK i \in UNION {c.items : c \in R(a)} :
        graph.refs[i] \cap UNION {d.items : d \in R(b)} # {}
  BY DEF Imports, Joined
<1>2. PICK c \in R(a) : i \in c.items BY <1>1
<1>3. PICK d \in R(b) : graph.refs[i] \cap d.items # {} BY <1>1
<1>4. Anchors(as) \subseteq as /\ R(a) \subseteq as /\ R(b) \subseteq as
  BY DEF Anchors, Singletons, RegionOf
<1>5. /\ pos[a] \in Nat /\ pos[b] \in Nat /\ pos[a] # pos[b]
      /\ pos[c] \in Nat /\ pos[d] \in Nat
  BY <1>4 DEF Ordered
<1>6. Nearer(pos[a], pos[b], pos[c])
  <2>1. CASE c = a BY <1>5, <2>1, NearerItself
  <2>2. CASE c # a BY <2>2 DEF RegionOf
  <2> QED BY <2>1, <2>2
<1>7. Nearer(pos[b], pos[a], pos[d])
  <2>1. CASE d = b BY <1>5, <2>1, NearerItself
  <2>2. CASE d # b BY <2>2 DEF RegionOf
  <2> QED BY <2>1, <2>2
<1>8. c # d BY <1>5, <1>6, <1>7, NearerAsymmetric
<1>9. Imports(c, d) BY <1>2, <1>3, <1>8 DEF Imports
<1>10. pos[c] < pos[d] BY <1>4, <1>9 DEF Ordered
<1> QED BY <1>5, <1>6, <1>7, <1>10, NearerOrdered

(* A region has one anchor. *)
LEMMA RegionAnchor ==
    ASSUME NEW as, Disjoint(as), NEW pos, NEW a \in Anchors(as), NEW b \in Anchors(as),
           Joined(RegionOf(as, pos, a), FALSE) = Joined(RegionOf(as, pos, b), FALSE)
    PROVE  a = b
<1>1. /\ a \in as /\ a \in RegionOf(as, pos, a)
      /\ RegionOf(as, pos, b) \subseteq {b} \cup Singletons(as)
      /\ b \in as /\ Singletons(as) \subseteq as /\ a \notin Singletons(as)
  BY DEF Anchors, Singletons, RegionOf
<1>2. PICK i \in a.items : TRUE BY <1>1 DEF Disjoint
<1>3. UNION {c.items : c \in RegionOf(as, pos, a)} = UNION {c.items : c \in RegionOf(as, pos, b)}
  BY DEF Joined
<1>4. PICK e \in RegionOf(as, pos, b) : i \in e.items
  <2>1. i \in UNION {c.items : c \in RegionOf(as, pos, a)} BY <1>1, <1>2
  <2>2. i \in UNION {c.items : c \in RegionOf(as, pos, b)} BY <1>3, <2>1
  <2> QED BY <2>2
<1>5. e = a BY <1>1, <1>2, <1>4 DEF Disjoint
<1> QED BY <1>1, <1>4, <1>5

LEMMA RegionsWithoutCycle ==
    ASSUME NEW as, Disjoint(as), NEW pos, Ordered(as, pos)
    PROVE  Acyclic(Regions(as, pos) \ Entries(Regions(as, pos)))
<1> DEFINE cs == Regions(as, pos) \ Entries(Regions(as, pos))
           Reg(a) == Joined(RegionOf(as, pos, a), FALSE)
           Later(a) == {e \in cs :
                          \E x \in Anchors(as) : e = Reg(x) /\ (x = a \/ pos[a] < pos[x])}
<1>1. ASSUME NEW c \in cs PROVE \E a \in Anchors(as) : c = Reg(a)
  <2>1. c \in Regions(as, pos) /\ ~c.entry BY DEF Entries
  <2>2. c # Joined(EntryAtoms(as), TRUE)
    <3>1. Joined(EntryAtoms(as), TRUE).entry BY DEF Joined
    <3> QED BY <2>1, <3>1
  <2> QED BY <2>1, <2>2, RegionsAre
<1>2. \A a, b \in Anchors(as) : a # b /\ Imports(Reg(a), Reg(b)) => pos[a] < pos[b]
  BY RegionImports
<1>3. \A a, b \in Anchors(as) : Reg(a) = Reg(b) => a = b BY RegionAnchor
<1>4. \A a \in Anchors(as) : pos[a] \in Nat BY DEF Ordered, Anchors
<1> HIDE DEF cs, Reg
<1>5. ASSUME NEW a \in Anchors(as), Reg(a) \in cs PROVE Reached(cs, {Reg(a)}) \subseteq Later(a)
  <2>1. Later(a) \in SUBSET cs /\ {Reg(a)} \subseteq Later(a) BY <1>5
  <2>2. ASSUME NEW c \in Later(a), NEW d \in cs, Imports(c, d) PROVE d \in Later(a)
    <3>1. PICK x \in Anchors(as) : c = Reg(x) /\ (x = a \/ pos[a] < pos[x]) OBVIOUS
    <3>2. PICK y \in Anchors(as) : d = Reg(y) BY <1>1
    <3>3. x # y BY <2>2, <3>1, <3>2 DEF Imports
    <3>4. pos[x] < pos[y] BY <1>2, <2>2, <3>1, <3>2, <3>3
    <3>5. pos[a] \in Nat /\ pos[x] \in Nat /\ pos[y] \in Nat BY <1>4
    <3>6. pos[a] < pos[y] BY <3>1, <3>4, <3>5
    <3> QED BY <3>2, <3>6
  <2> HIDE DEF Later
  <2> QED BY <2>1, <2>2, ReachedLeast
<1>6. ASSUME NEW c \in cs, NEW d \in cs, d \in Reached(cs, {c}), c \in Reached(cs, {d})
      PROVE  c = d
  <2>1. PICK a \in Anchors(as) : c = Reg(a) BY <1>1
  <2>2. PICK b \in Anchors(as) : d = Reg(b) BY <1>1
  <2>3. d \in Later(a) /\ c \in Later(b) BY <1>5, <1>6, <2>1, <2>2
  <2>4. b = a \/ pos[a] < pos[b] BY <1>3, <2>2, <2>3
  <2>5. a = b \/ pos[b] < pos[a] BY <1>3, <2>1, <2>3
  <2>6. a = b
    <3>1. pos[a] \in Nat /\ pos[b] \in Nat BY <1>4
    <3> QED BY <2>4, <2>5, <3>1
  <2> QED BY <2>1, <2>2, <2>6
<1>7. Acyclic(cs) BY <1>6 DEF Acyclic
<1> QED BY <1>7 DEF cs

-----------------------------------------------------------------------------
(* Every item stays in some cluster. *)

Covers(cs) == \A i \in Items : \E c \in cs : i \in c.items

LEMMA RootsCover == ASSUME Classes(cls) PROVE Covers(Roots)
<1> DEFINE IsEntry(is) == \/ is \cap prog.moddecl # {}
                          \/ Cardinality(Declaring(is)) < 2 /\ Declaring(is) # is
           Root(is) == [items |-> is, entry |-> IsEntry(is)]
<1>1. Roots = {Root(is) : is \in {cls[i] : i \in Items}} BY DEF Roots
<1> HIDE DEF IsEntry
<1>2. ASSUME NEW i \in Items PROVE \E r \in Roots : i \in r.items
  <2>1. Root(cls[i]) \in Roots BY <1>1
  <2>2. i \in Root(cls[i]).items BY DEF Classes
  <2> QED BY <2>1, <2>2
<1> QED BY <1>2 DEF Covers

LEMMA CondensedCovers == ASSUME NEW cs, Covers(cs) PROVE Covers(Condensed(cs))
<1>1. ASSUME NEW i \in Items PROVE \E c \in Condensed(cs) : i \in c.items
  <2>1. PICK c \in cs : i \in c.items BY DEF Covers
  <2>2. c.items \subseteq Merged(cs, c).items BY MergedFacts
  <2> QED BY <2>1, <2>2, CondensedMerges
<1> QED BY <1>1 DEF Covers

LEMMA JoinedHas ==
    ASSUME NEW P, NEW c \in P, NEW e, NEW i \in c.items PROVE i \in Joined(P, e).items
BY DEF Joined

LEMMA EstablishedCovers == ASSUME Classes(cls) PROVE Covers(Established)
<1> DEFINE Own(r) == r.items \cap prog.moddecl = {} /\ Cardinality(Declaring(r.items)) >= 2
           own == {r \in Roots : Own(r)}
           rest == Roots \ own
<1>1. Established = {Joined({r}, FALSE) : r \in own}
                      \cup (IF rest = {} THEN {} ELSE {Joined(rest, TRUE)})
  BY DEF Established
<1>2. Roots = own \cup rest OBVIOUS
<1> HIDE DEF own, rest
<1>3. ASSUME NEW i \in Items PROVE \E c \in Established : i \in c.items
  <2>1. PICK r \in Roots : i \in r.items BY RootsCover DEF Covers
  <2>2. CASE r \in own
    <3>1. i \in Joined({r}, FALSE).items BY <2>1, JoinedHas
    <3> QED BY <1>1, <2>2, <3>1
  <2>3. CASE r \in rest
    <3>1. i \in Joined(rest, TRUE).items BY <2>1, <2>3, JoinedHas
    <3> QED BY <1>1, <2>3, <3>1
  <2> QED BY <1>2, <2>2, <2>3
<1> QED BY <1>3 DEF Covers

(* An atom that is no anchor and not in the entry has a nearest anchor. *)
LEMMA RegionsCover ==
    ASSUME NEW as \in SUBSET Cluster, NEW pos, Ordered(as, pos), Covers(as)
    PROVE  Covers(Regions(as, pos))
<1>1. ASSUME NEW a \in as
      PROVE  a \in EntryAtoms(as) \/ \E b \in Anchors(as) : a \in RegionOf(as, pos, b)
  <2>1. CASE a \in EntryAtoms(as) BY <2>1
  <2>2. CASE a \in Anchors(as) BY <2>2 DEF RegionOf
  <2>3. CASE a \notin EntryAtoms(as) /\ a \notin Anchors(as)
    <3>1. Anchors(as) # {} BY <2>3 DEF EntryAtoms
    <3>2. a \in Singletons(as)
      <4>1. Entries(as) # {} => EntryAtoms(as) = Entries(as) BY <3>1 DEF EntryAtoms
      <4>2. ~a.entry BY <2>3, <4>1 DEF Entries
      <4> QED BY <2>3, <4>2 DEF Anchors
    <3>3. Anchors(as) \subseteq as BY DEF Anchors
    <3>4. /\ pos[a] \in Nat /\ \A b \in Anchors(as) : pos[b] \in Nat
          /\ \A b, c \in Anchors(as) : pos[b] = pos[c] => b = c
      BY <3>3 DEF Ordered
    <3>5. PICK b \in Anchors(as) : \A c \in Anchors(as) \ {b} : Nearer(pos[b], pos[c], pos[a])
      BY <3>1, <3>4, NearestExists
    <3> QED BY <2>3, <3>2, <3>5 DEF RegionOf
  <2> QED BY <2>1, <2>2, <2>3
<1>2. ASSUME NEW i \in Items PROVE \E c \in Regions(as, pos) : i \in c.items
  <2>1. PICK a \in as : i \in a.items BY DEF Covers
  <2>2. CASE a \in EntryAtoms(as)
    <3>1. i \in Joined(EntryAtoms(as), TRUE).items BY <2>1, <2>2, JoinedHas
    <3>2. EntryAtoms(as) # {} BY <2>2
    <3> QED BY <3>1, <3>2, RegionsAre
  <2>3. ASSUME NEW b \in Anchors(as), a \in RegionOf(as, pos, b)
        PROVE  \E c \in Regions(as, pos) : i \in c.items
    <3>1. i \in Joined(RegionOf(as, pos, b), FALSE).items BY <2>1, <2>3, JoinedHas
    <3> QED BY <3>1, RegionsAre
  <2> QED BY <1>1, <2>2, <2>3
<1> QED BY <1>2 DEF Covers

LEMMA ExecutableFacts ==
    ASSUME Classes(cls), Linked
    PROVE  Covers(Executable) /\ Acyclic(Executable \ Entries(Executable))
<1> DEFINE as == Condensed(Roots)
<1>1. as \in SUBSET Cluster BY RootsFacts, CondensedClusters
<1>2. Disjoint(as) BY RootsFacts, CondensedDisjoint
<1>3. Acyclic(as) BY RootsFacts, CondensedAcyclic
<1>4. Covers(as) BY RootsCover, CondensedCovers
<1>5. Executable = Regions(as, Places(as)) BY DEF Executable
<1> HIDE DEF as
<1>6. Ordered(as, Places(as)) BY <1>1, <1>2, <1>3, PlacesOrder DEF Ordered
<1> QED BY <1>1, <1>2, <1>4, <1>5, <1>6, RegionsCover, RegionsWithoutCycle

LEMMA MovedCovers ==
    ASSUME GraphOK, NEW cs, Covers(cs) PROVE Covers(MovedToEntry(cs))
<1>1. CASE Bare = {} BY <1>1 DEF MovedToEntry
<1>2. CASE Bare # {}
  <2> DEFINE kept == WithoutItems(cs \ Entries(cs), MovedItems)
             entry == [items |-> MovedItems \cup UNION {c.items : c \in Entries(cs)},
                       entry |-> TRUE]
  <2>1. MovedToEntry(cs) = kept \cup {entry} BY <1>2 DEF MovedToEntry
  <2>2. ASSUME NEW i \in Items PROVE \E d \in kept \cup {entry} : i \in d.items
    <3>1. PICK c \in cs : i \in c.items BY DEF Covers
    <3>2. CASE i \in MovedItems \/ c \in Entries(cs)
      <4>1. i \in entry.items BY <3>1, <3>2
      <4> QED BY <4>1
    <3>3. CASE i \notin MovedItems /\ c \notin Entries(cs)
      <4> DEFINE d == [items |-> c.items \ MovedItems, entry |-> c.entry]
      <4>1. ~(c.items \subseteq MovedItems) BY <3>1, <3>3
      <4>2. d \in kept BY <3>3, <4>1 DEF WithoutItems
      <4>3. i \in d.items BY <3>1, <3>3
      <4> QED BY <4>2, <4>3
    <3> QED BY <3>2, <3>3
  <2> QED BY <2>1, <2>2 DEF Covers
<1> QED BY <1>1, <1>2

LEMMA FoldedCovers ==
    ASSUME NEW cs, NEW folded \in SUBSET cs, Covers(cs) PROVE Covers(Folded(cs, folded))
<1>1. CASE folded = {} BY <1>1 DEF Folded
<1>2. CASE folded # {}
  <2> DEFINE gone == folded \cup Entries(cs)
  <2>1. Folded(cs, folded) = (cs \ gone) \cup {Joined(gone, TRUE)} BY <1>2 DEF Folded
  <2>2. ASSUME NEW i \in Items
        PROVE  \E d \in (cs \ gone) \cup {Joined(gone, TRUE)} : i \in d.items
    <3>1. PICK c \in cs : i \in c.items BY DEF Covers
    <3>2. CASE c \in gone
      <4>1. i \in Joined(gone, TRUE).items BY <3>1, <3>2, JoinedHas
      <4> QED BY <4>1
    <3>3. CASE c \notin gone BY <3>1, <3>3
    <3> QED BY <3>2, <3>3
  <2> QED BY <2>1, <2>2 DEF Covers
<1> QED BY <1>1, <1>2

-----------------------------------------------------------------------------
(* The inductive invariant. *)

(* A loop that unites item i with links[i] is past all items before at. *)
United(links, k) == \A i \in Items : i < k => links[i] \subseteq cls[i]

BareKept(cs) == \A c \in cs : c.items \cap Bare # {} => c.entry

PartitionInv ==
    /\ Classes(cls)
    /\ stage = "analyze" => at = 1
    /\ stage = "duplicates" => United(graph.firsts, at)
    /\ stage \in {"mutual", "chain", "inert", "shared", "exclusive", "writes", "extract"}
                   \cup Clustered => United(graph.firsts, N + 1)
    /\ stage = "writes" => United(graph.writes, at)
    /\ stage \in {"extract"} \cup Clustered => United(graph.writes, N + 1)

ClusterInv ==
    /\ stage \in Clustered => Proper(clusters)
    /\ fold # {} => stage = "fold" /\ Entries(clusters) # {}
    /\ stage \in {"fold", "merge", "done"} => BareKept(clusters)
    /\ stage \in {"merge", "done"} => EffectsReached(clusters)
    /\ stage = "done" => Acyclic(clusters)

IInv == TypeOK /\ PartitionInv /\ ClusterInv

(* In a step that leaves the graph alone, the clusters it computes are     *)
(* judged by the same imports afterwards.                                  *)
LEMMA Judged ==
    ASSUME UNCHANGED <<graph, prog>>, NEW cs, clusters' = cs
    PROVE  /\ Proper(clusters)' <=> Proper(cs)
           /\ BareKept(clusters)' <=> BareKept(cs)
           /\ EffectsReached(clusters)' <=> EffectsReached(cs)
           /\ Acyclic(clusters)' <=> Acyclic(cs)
           /\ Entries(clusters)' = Entries(cs)
<1>1. Proper(clusters)' <=> Proper(cs)
  BY DEF Proper, Disjoint, OneEntry, LinksKept, Links
<1>2. BareKept(clusters)' <=> BareKept(cs) BY DEF BareKept, Bare
<1>3. EffectsReached(clusters)' <=> EffectsReached(cs)
  BY DEF EffectsReached, Reached, ImportEdges, Imports, Closed, Entries
<1>4. Acyclic(clusters)' <=> Acyclic(cs)
  BY DEF Acyclic, Reached, ImportEdges, Imports, Closed
<1>5. Entries(clusters)' = Entries(cs) BY DEF Entries
<1> QED BY <1>1, <1>2, <1>3, <1>4, <1>5

LEMMA StagesAre ==
    Stages = {"analyze", "duplicates", "mutual", "chain", "inert", "shared", "exclusive",
              "writes", "extract", "bare", "fold", "merge", "done", "refused"}
<1>1. DOMAIN Loops = 1..7 BY DEF Loops
<1>2. 1..7 = {1, 2, 3, 4, 5, 6, 7} OBVIOUS
<1>3. {Loops[k] : k \in DOMAIN Loops} =
        {"duplicates", "mutual", "chain", "inert", "shared", "exclusive", "writes"}
  BY <1>1, <1>2 DEF Loops
<1> QED BY <1>3 DEF Stages

LEMMA InitInv == Init => IInv
<1> SUFFICES ASSUME Init PROVE IInv OBVIOUS
<1>1. TypeOK
  <2>1. stage \in Stages BY StagesAre DEF Init
  <2>2. at \in Items BY ConstantsAssumption DEF Init, Items
  <2>3. prog \in Program BY ConstantsAssumption DEF Init
  <2>4. graph \in [refs   : [Items -> SUBSET Items],
                   writes : [Items -> SUBSET Items],
                   firsts : [Items -> SUBSET Items]]
    BY DEF Init
  <2> QED BY <2>1, <2>2, <2>3, <2>4 DEF Init, TypeOK
<1>2. PartitionInv
  <2>1. Classes(cls) BY DEF Init, Classes
  <2> QED BY <2>1 DEF Init, PartitionInv, Clustered
<1>3. ClusterInv BY DEF Init, ClusterInv, Clustered
<1> QED BY <1>1, <1>2, <1>3 DEF IInv

LEMMA LinkedFacts ==
    ASSUME TypeOK, PartitionInv, stage \in {"extract"} \cup Clustered
    PROVE  Classes(cls) /\ Linked /\ GraphOK
<1>1. Classes(cls) /\ United(graph.firsts, N + 1) /\ United(graph.writes, N + 1)
  BY DEF PartitionInv, Clustered
<1>2. \A i \in Items : i < N + 1 BY ConstantsAssumption DEF Items
<1>3. Linked BY <1>1, <1>2 DEF United, Linked, Links
<1> QED BY <1>1, <1>3 DEF TypeOK, GraphOK

(* What an iteration of any of the loops does. *)
LEMMA IterateFacts ==
    ASSUME TypeOK, Classes(cls), NEW partners \in SUBSET Items, NEW s, NEW next,
           Iterate(s, partners, next), s \in Stages, next \in Stages
    PROVE  /\ Classes(cls)'
           /\ \A k \in Items : cls[k] \subseteq cls'[k]
           /\ partners \subseteq cls'[at]
           /\ at \in Items
           /\ at = N => stage' = next /\ at' = 1
           /\ at # N => stage' = s /\ at' = at + 1 /\ at' \in Items
           /\ UNCHANGED <<prog, graph, clusters, fold>>
           /\ TypeOK'
<1>1. at \in Items /\ at \in 1..N /\ N \in Nat \ {0} BY ConstantsAssumption DEF TypeOK, Items
<1>2. /\ Classes(Unite(at, partners))
      /\ \A k \in Items : cls[k] \subseteq Unite(at, partners)[k]
      /\ partners \subseteq Unite(at, partners)[at]
  BY <1>1, UniteClasses
<1>3. cls' = Unite(at, partners) BY DEF Iterate
<1>4. Classes(cls)' BY <1>2, <1>3 DEF Classes
<1>5. at = N => stage' = next /\ at' = 1 BY DEF Iterate
<1>6. at # N => stage' = s /\ at' = at + 1 /\ at' \in Items BY <1>1 DEF Iterate, Items
<1>7. UNCHANGED <<prog, graph, clusters, fold, repartitioned>> BY DEF Iterate
<1>8. TypeOK'
  <2>1. at' \in Items BY <1>1, <1>5, <1>6 DEF Items
  <2>2. stage' \in Stages BY <1>5, <1>6
  <2>3. cls' \in [Items -> SUBSET Items] BY <1>4 DEF Classes
  <2> QED BY <1>7, <2>1, <2>2, <2>3 DEF TypeOK
<1> QED BY <1>1, <1>2, <1>3, <1>4, <1>5, <1>6, <1>7, <1>8

(* Classes only grow: what is united stays united. *)
LEMMA UnitedKept ==
    ASSUME NEW links, NEW k, United(links, k),
           \A i \in Items : cls[i] \subseteq cls'[i]
    PROVE  \A i \in Items : i < k => links[i] \subseteq cls'[i]
BY DEF United

(* A loop that comes after duplicate vars have been united, and is not the *)
(* last one.                                                               *)
LEMMA LoopStep ==
    ASSUME IInv, NEW partners \in SUBSET Items, NEW s, NEW next,
           <<s, next>> \in {<<"mutual", "chain">>, <<"chain", "inert">>, <<"inert", "shared">>,
                            <<"shared", "exclusive">>, <<"exclusive", "writes">>},
           Iterate(s, partners, next)
    PROVE  IInv'
<1>1. /\ Classes(cls)'
      /\ \A k \in Items : cls[k] \subseteq cls'[k]
      /\ at = N => stage' = next /\ at' = 1
      /\ at # N => stage' = s
      /\ UNCHANGED <<prog, graph, clusters, fold>>
      /\ TypeOK'
  BY IterateFacts, StagesAre DEF IInv, PartitionInv
<1>2. stage = s /\ stage' \in {s, next} BY <1>1 DEF Iterate
<1>3. United(graph.firsts, N + 1) BY <1>2 DEF IInv, PartitionInv
<1>4. United(graph.firsts, N + 1)' BY <1>1, <1>3, UnitedKept DEF United
<1>5. stage' = "writes" => at' = 1
  BY <1>1, <1>2
<1>6. stage' = "writes" => United(graph.writes, at)'
  BY <1>5 DEF United, Items
<1>7. PartitionInv' BY <1>1, <1>2, <1>4, <1>6 DEF PartitionInv, Clustered
<1>8. ClusterInv' BY <1>1, <1>2 DEF IInv, ClusterInv, Clustered
<1> QED BY <1>1, <1>7, <1>8 DEF IInv

LEMMA DuplicatesStep == IInv /\ UnionDuplicateVars => IInv'
<1> SUFFICES ASSUME IInv, UnionDuplicateVars PROVE IInv' OBVIOUS
<1>0. at \in Items /\ graph.firsts[at] \in SUBSET Items BY DEF IInv, TypeOK
<1>1. /\ Classes(cls)'
      /\ \A k \in Items : cls[k] \subseteq cls'[k]
      /\ graph.firsts[at] \subseteq cls'[at]
      /\ at = N => stage' = "mutual" /\ at' = 1
      /\ at # N => stage' = "duplicates" /\ at' = at + 1
      /\ UNCHANGED <<prog, graph, clusters, fold>>
      /\ TypeOK'
  BY <1>0, IterateFacts, StagesAre
  DEF IInv, PartitionInv, UnionDuplicateVars, DuplicatePartners
<1>2. stage = "duplicates" BY DEF UnionDuplicateVars, Iterate
<1>3. \A i \in Items : i < at + 1 => graph.firsts[i] \subseteq cls'[i]
  <2>1. \A i \in Items : i < at => graph.firsts[i] \subseteq cls'[i]
    BY <1>1, <1>2, UnitedKept DEF IInv, PartitionInv
  <2>2. \A i \in Items : i < at + 1 => i < at \/ i = at BY <1>0 DEF Items
  <2> QED BY <1>1, <2>1, <2>2
<1>4. PartitionInv' BY <1>1, <1>3 DEF PartitionInv, United, Clustered
<1>5. ClusterInv' BY <1>1, <1>2 DEF IInv, ClusterInv, Clustered
<1> QED BY <1>1, <1>4, <1>5 DEF IInv

LEMMA WritesStep == IInv /\ CrossItemWrites => IInv'
<1> SUFFICES ASSUME IInv, CrossItemWrites PROVE IInv' OBVIOUS
<1>0. at \in Items /\ graph.writes[at] \in SUBSET Items BY DEF IInv, TypeOK
<1>1. /\ Classes(cls)'
      /\ \A k \in Items : cls[k] \subseteq cls'[k]
      /\ graph.writes[at] \subseteq cls'[at]
      /\ at = N => stage' = "extract" /\ at' = 1
      /\ at # N => stage' = "writes" /\ at' = at + 1
      /\ UNCHANGED <<prog, graph, clusters, fold>>
      /\ TypeOK'
  BY <1>0, IterateFacts, StagesAre
  DEF IInv, PartitionInv, CrossItemWrites, WrittenOwners
<1>2. stage = "writes" BY DEF CrossItemWrites, Iterate
<1>3. \A i \in Items : i < at + 1 => graph.writes[i] \subseteq cls'[i]
  <2>1. \A i \in Items : i < at => graph.writes[i] \subseteq cls'[i]
    BY <1>1, <1>2, UnitedKept DEF IInv, PartitionInv
  <2>2. \A i \in Items : i < at + 1 => i < at \/ i = at BY <1>0 DEF Items
  <2> QED BY <1>1, <2>1, <2>2
<1>4. United(graph.firsts, N + 1)'
  BY <1>1, <1>2, UnitedKept DEF IInv, PartitionInv, United
<1>5. PartitionInv' BY <1>1, <1>3, <1>4 DEF PartitionInv, United, Clustered
<1>6. ClusterInv' BY <1>1, <1>2 DEF IInv, ClusterInv, Clustered
<1> QED BY <1>1, <1>5, <1>6 DEF IInv

LEMMA LoopsStep ==
    IInv /\ (MutualReferences \/ AdjacentChain \/ InertHelper \/ SharedReference
               \/ ExclusiveConsumer) => IInv'
<1> SUFFICES ASSUME IInv, MutualReferences \/ AdjacentChain \/ InertHelper
                             \/ SharedReference \/ ExclusiveConsumer
             PROVE  IInv'
  OBVIOUS
<1>1. MutualPartners(at) \in SUBSET Items /\ ChainPartners(at) \in SUBSET Items
      /\ InertPartners(at) \in SUBSET Items /\ SharedPartners(at) \in SUBSET Items
      /\ ExclusivePartners(at) \in SUBSET Items
  <2>1. MutualPartners(at) \in SUBSET Items
    BY DEF IInv, TypeOK, MutualPartners
  <2> QED BY <2>1 DEF ChainPartners, InertPartners, SharedPartners, ExclusivePartners,
                      SoleConsumers
<1> QED BY <1>1, LoopStep
        DEF MutualReferences, AdjacentChain, InertHelper, SharedReference, ExclusiveConsumer

LEMMA BuildGraphStep == IInv /\ BuildGraph => IInv'
<1> SUFFICES ASSUME IInv, BuildGraph PROVE IInv' OBVIOUS
<1>1. ReferenceGraph \in [refs   : [Items -> SUBSET Items],
                          writes : [Items -> SUBSET Items],
                          firsts : [Items -> SUBSET Items]]
  <2>1. \A i \in Items : FirstDeclarers(i) \in SUBSET Items BY DEF FirstDeclarers
  <2>2. \A i \in Items : \A names : OwnersOf(i, names) \in SUBSET Items BY DEF OwnersOf
  <2> QED BY <2>1, <2>2 DEF ReferenceGraph
<1>2. stage = "analyze" /\ stage' = "duplicates" /\ graph' = ReferenceGraph /\ at = 1
      /\ UNCHANGED <<at, prog, cls, clusters, fold, repartitioned>>
  BY DEF BuildGraph, IInv, PartitionInv
<1>3. TypeOK' BY <1>1, <1>2, StagesAre DEF IInv, TypeOK
<1>4. Classes(cls)' BY <1>2 DEF IInv, PartitionInv, Classes
<1>5. PartitionInv' BY <1>2, <1>4 DEF PartitionInv, United, Clustered, Items
<1>6. ClusterInv' BY <1>2 DEF IInv, ClusterInv, Clustered
<1> QED BY <1>3, <1>5, <1>6 DEF IInv

(* The steps after the loops leave the classes alone. *)
LEMMA PartitionKept ==
    ASSUME PartitionInv, UNCHANGED <<at, graph, cls>>,
           \/ stage' = "refused"
           \/ stage \in {"extract"} \cup Clustered /\ stage' \in Clustered
    PROVE  PartitionInv'
<1>1. Classes(cls)' BY DEF PartitionInv, Classes
<1> QED BY <1>1 DEF PartitionInv, United, Clustered

LEMMA RefusedStep ==
    IInv /\ (TooFewDeclarations \/ NothingToSplit \/ Collapsed) => IInv'
<1> SUFFICES ASSUME IInv, TooFewDeclarations \/ NothingToSplit \/ Collapsed PROVE IInv'
  OBVIOUS
<1>1. stage' = "refused" /\ stage # "fold"
      /\ UNCHANGED <<at, prog, graph, cls, clusters, fold, repartitioned>>
  BY DEF TooFewDeclarations, NothingToSplit, Collapsed
<1>2. TypeOK' BY <1>1, StagesAre DEF IInv, TypeOK
<1>3. PartitionInv' BY <1>1, PartitionKept DEF IInv
<1>4. ClusterInv' BY <1>1 DEF IInv, ClusterInv, Clustered
<1> QED BY <1>2, <1>3, <1>4 DEF IInv

(* Fresh clusters, from the first extraction or the retry. *)
LEMMA ExtractStep == IInv /\ (Extract \/ Retry) => IInv'
<1> SUFFICES ASSUME IInv, Extract \/ Retry PROVE IInv' OBVIOUS
<1>1. /\ stage \in {"extract"} \cup Clustered /\ stage # "fold" /\ stage' = "bare"
      /\ clusters' \in {Established, Executable}
      /\ UNCHANGED <<at, prog, graph, cls, fold>>
  BY DEF Extract, Retry, Clustered
<1>2. Classes(cls) /\ Linked BY <1>1, LinkedFacts DEF IInv
<1>3. Proper(Established) /\ Proper(Executable)
  BY <1>2, EstablishedProper, ExecutableProper
<1>4. fold = {} BY <1>1 DEF IInv, ClusterInv
<1>5. repartitioned' \in BOOLEAN BY DEF Extract, Retry, Pathological
<1>6. PICK cs : cs \in {Established, Executable} /\ clusters' = cs BY <1>1
<1>7. Proper(cs) BY <1>3, <1>6
<1>8. Proper(clusters)' BY <1>1, <1>6, <1>7, Judged
<1>9. TypeOK'
  <2>1. clusters' \subseteq Cluster BY <1>6, <1>7 DEF Proper
  <2> QED BY <1>1, <1>4, <1>5, <2>1, StagesAre DEF IInv, TypeOK
<1>10. PartitionInv' BY <1>1, PartitionKept DEF IInv, Clustered
<1>11. ClusterInv' BY <1>1, <1>4, <1>8 DEF ClusterInv, Clustered
<1> QED BY <1>9, <1>10, <1>11 DEF IInv

LEMMA MoveStep == IInv /\ MoveBareStatements => IInv'
<1> SUFFICES ASSUME IInv, MoveBareStatements PROVE IInv' OBVIOUS
<1>1. /\ stage = "bare" /\ stage' = "fold" /\ fold' = {}
      /\ clusters' = MovedToEntry(clusters)
      /\ UNCHANGED <<at, prog, graph, cls, repartitioned>>
  BY DEF MoveBareStatements
<1>2. GraphOK /\ Proper(clusters)
  BY <1>1 DEF IInv, TypeOK, GraphOK, ClusterInv, Clustered
<1>3. PICK cs : cs = MovedToEntry(clusters) OBVIOUS
<1>4. Proper(cs) /\ BareKept(cs) BY <1>2, <1>3, MovedProper DEF BareKept
<1>5. Proper(clusters)' /\ BareKept(clusters)' BY <1>1, <1>3, <1>4, Judged
<1>6. TypeOK'
  <2>1. clusters' \subseteq Cluster BY <1>1, <1>3, <1>4 DEF Proper
  <2> QED BY <1>1, <2>1, StagesAre DEF IInv, TypeOK
<1>7. PartitionInv' BY <1>1, PartitionKept DEF IInv, Clustered
<1>8. ClusterInv' BY <1>1, <1>5 DEF ClusterInv, Clustered
<1> QED BY <1>6, <1>7, <1>8 DEF IInv

LEMMA FoldRoundStep == IInv /\ FoldRound => IInv'
<1> SUFFICES ASSUME IInv, FoldRound PROVE IInv' OBVIOUS
<1>1. /\ stage = "fold" /\ NeverRun(clusters, fold) # {}
      /\ fold' = fold \cup NeverRun(clusters, fold)
      /\ UNCHANGED <<stage, at, prog, graph, cls, clusters, repartitioned>>
  BY DEF FoldRound
<1>2. Entries(clusters) # {} BY <1>1 DEF NeverRun
<1>3. NeverRun(clusters, fold) \subseteq clusters BY DEF NeverRun
<1>4. PICK cs : cs = clusters OBVIOUS
<1>5. Proper(clusters)' /\ BareKept(clusters)' /\ Entries(clusters)' # {}
  <2>1. Proper(cs) /\ BareKept(cs) /\ Entries(cs) # {}
    BY <1>1, <1>2, <1>4 DEF IInv, ClusterInv, Clustered
  <2> QED BY <1>1, <1>4, <2>1, Judged
<1>6. TypeOK' BY <1>1, <1>3 DEF IInv, TypeOK
<1>7. PartitionInv' BY <1>1, PartitionKept DEF IInv, Clustered
<1>8. ClusterInv' BY <1>1, <1>5 DEF ClusterInv, Clustered
<1> QED BY <1>6, <1>7, <1>8 DEF IInv

LEMMA FoldIntoEntryStep == IInv /\ FoldIntoEntry => IInv'
<1> SUFFICES ASSUME IInv, FoldIntoEntry PROVE IInv' OBVIOUS
<1>1. /\ stage = "fold" /\ stage' = "merge" /\ NeverRun(clusters, fold) = {}
      /\ fold' = {} /\ clusters' = Folded(clusters, fold)
      /\ UNCHANGED <<at, prog, graph, cls, repartitioned>>
  BY DEF FoldIntoEntry
<1>2. /\ Proper(clusters) /\ BareKept(clusters) /\ fold \in SUBSET clusters
      /\ fold # {} => Entries(clusters) # {}
  BY <1>1 DEF IInv, ClusterInv, TypeOK, Clustered
<1>3. PICK cs : cs = Folded(clusters, fold) OBVIOUS
<1>4. Proper(cs) /\ BareKept(cs) BY <1>2, <1>3, FoldedProper DEF BareKept
<1>5. EffectsReached(cs) BY <1>1, <1>2, <1>3, FoldedEffects
<1>6. Proper(clusters)' /\ BareKept(clusters)' /\ EffectsReached(clusters)'
  BY <1>1, <1>3, <1>4, <1>5, Judged
<1>7. TypeOK'
  <2>1. clusters' \subseteq Cluster BY <1>1, <1>3, <1>4 DEF Proper
  <2> QED BY <1>1, <2>1, StagesAre DEF IInv, TypeOK
<1>8. PartitionInv' BY <1>1, PartitionKept DEF IInv, Clustered
<1>9. ClusterInv' BY <1>1, <1>6 DEF ClusterInv, Clustered
<1> QED BY <1>7, <1>8, <1>9 DEF IInv

LEMMA MergeStep == IInv /\ MergeCyclic => IInv'
<1> SUFFICES ASSUME IInv, MergeCyclic PROVE IInv' OBVIOUS
<1>1. /\ stage = "merge" /\ stage' = "done" /\ clusters' = Condensed(clusters)
      /\ UNCHANGED <<at, prog, graph, cls, fold, repartitioned>>
  BY DEF MergeCyclic
<1>2. /\ Proper(clusters) /\ BareKept(clusters) /\ EffectsReached(clusters)
      /\ fold = {} /\ clusters \in SUBSET Cluster
  BY <1>1 DEF IInv, ClusterInv, TypeOK, Clustered
<1>3. PICK cs : cs = Condensed(clusters) OBVIOUS
<1>4. Proper(cs)
  BY <1>2, <1>3, CondensedClusters, CondensedDisjoint, CondensedOneEntry, CondensedLinks
  DEF Proper
<1>5. BareKept(cs)
  <2>1. ASSUME NEW c \in clusters, Merged(clusters, c).items \cap Bare # {}
        PROVE  Merged(clusters, c).entry
    <3>1. Merged(clusters, c).items = UNION {d.items : d \in Component(clusters, c)}
      BY MergedFacts
    <3>2. PICK d \in Component(clusters, c) : d.items \cap Bare # {} BY <2>1, <3>1
    <3>3. d \in clusters BY ComponentFacts
    <3>4. d.entry BY <1>2, <3>2, <3>3 DEF BareKept
    <3>5. Merged(clusters, c).entry = (\E e \in Component(clusters, c) : e.entry)
      BY MergedFacts
    <3> QED BY <3>4, <3>5
  <2> QED BY <1>3, <2>1, CondensedMerges DEF BareKept
<1>6. EffectsReached(cs) BY <1>2, <1>3, CondensedEffects
<1>7. Acyclic(cs) BY <1>2, <1>3, CondensedAcyclic DEF Proper
<1>8. /\ Proper(clusters)' /\ BareKept(clusters)' /\ EffectsReached(clusters)'
      /\ Acyclic(clusters)'
  BY <1>1, <1>3, <1>4, <1>5, <1>6, <1>7, Judged
<1>9. TypeOK'
  <2>1. clusters' \subseteq Cluster BY <1>1, <1>3, <1>4 DEF Proper
  <2> QED BY <1>1, <1>2, <2>1, StagesAre DEF IInv, TypeOK
<1>10. PartitionInv' BY <1>1, PartitionKept DEF IInv, Clustered
<1>11. ClusterInv' BY <1>1, <1>2, <1>8 DEF ClusterInv, Clustered
<1> QED BY <1>9, <1>10, <1>11 DEF IInv

LEMMA StutterStep == IInv /\ UNCHANGED vars => IInv'
<1> SUFFICES ASSUME IInv, UNCHANGED vars PROVE IInv' OBVIOUS
<1>1. TypeOK' BY DEF IInv, TypeOK, vars
<1>2. PartitionInv'
  <2>1. Classes(cls)' BY DEF IInv, PartitionInv, Classes, vars
  <2> QED BY <2>1 DEF IInv, PartitionInv, United, vars
<1>3. ClusterInv'
  <2>1. PICK cs : cs = clusters OBVIOUS
  <2>2. UNCHANGED <<graph, prog, stage, fold, clusters>> BY DEF vars
  <2>3. /\ Proper(clusters)' <=> Proper(cs)
        /\ BareKept(clusters)' <=> BareKept(cs)
        /\ EffectsReached(clusters)' <=> EffectsReached(cs)
        /\ Acyclic(clusters)' <=> Acyclic(cs)
        /\ Entries(clusters)' = Entries(cs)
    BY <2>1, <2>2, Judged
  <2> QED BY <2>1, <2>2, <2>3 DEF IInv, ClusterInv
<1> QED BY <1>1, <1>2, <1>3 DEF IInv

LEMMA StepInv == IInv /\ [Next]_vars => IInv'
<1> SUFFICES ASSUME IInv, [Next]_vars PROVE IInv' OBVIOUS
<1>1. CASE BuildGraph BY <1>1, BuildGraphStep
<1>2. CASE UnionDuplicateVars BY <1>2, DuplicatesStep
<1>3. CASE MutualReferences \/ AdjacentChain \/ InertHelper \/ SharedReference
             \/ ExclusiveConsumer
  BY <1>3, LoopsStep
<1>4. CASE CrossItemWrites BY <1>4, WritesStep
<1>5. CASE TooFewDeclarations \/ NothingToSplit \/ Collapsed BY <1>5, RefusedStep
<1>6. CASE Extract \/ Retry BY <1>6, ExtractStep
<1>7. CASE MoveBareStatements BY <1>7, MoveStep
<1>8. CASE FoldRound BY <1>8, FoldRoundStep
<1>9. CASE FoldIntoEntry BY <1>9, FoldIntoEntryStep
<1>10. CASE MergeCyclic BY <1>10, MergeStep
<1>11. CASE UNCHANGED vars BY <1>11, StutterStep
<1> QED BY <1>1, <1>2, <1>3, <1>4, <1>5, <1>6, <1>7, <1>8, <1>9, <1>10, <1>11 DEF Next, Done

LEMMA Invariance == Spec => []IInv
BY InitInv, StepInv, PTL DEF Spec

(* Next to it: no step drops an item, and none but an extraction makes regions. *)
LEMMA CoverStep == IInv /\ NothingLost /\ [Next]_vars => NothingLost'
<1> SUFFICES ASSUME IInv, NothingLost, [Next]_vars PROVE NothingLost' OBVIOUS
<1>1. SUFFICES ASSUME NEW cs, clusters' = cs, stage' \in Clustered PROVE Covers(cs)
  BY DEF NothingLost, Covers
<1>2. stage \in Clustered => Covers(clusters) BY DEF NothingLost, Covers
<1>3. CASE UNCHANGED <<stage, clusters>> BY <1>1, <1>2, <1>3
<1>4. CASE Extract \/ Retry
  <2>1. stage \in {"extract"} \cup Clustered /\ cs \in {Established, Executable}
    BY <1>1, <1>4 DEF Extract, Retry, Clustered
  <2>2. Classes(cls) /\ Linked BY <2>1, LinkedFacts DEF IInv
  <2> QED BY <2>1, <2>2, EstablishedCovers, ExecutableFacts
<1>5. CASE MoveBareStatements
  <2>1. stage = "bare" /\ cs = MovedToEntry(clusters) BY <1>1, <1>5 DEF MoveBareStatements
  <2>2. GraphOK BY DEF IInv, TypeOK, GraphOK
  <2> QED BY <1>2, <2>1, <2>2, MovedCovers DEF Clustered
<1>6. CASE FoldIntoEntry
  <2>1. stage = "fold" /\ cs = Folded(clusters, fold) BY <1>1, <1>6 DEF FoldIntoEntry
  <2>2. fold \in SUBSET clusters BY DEF IInv, TypeOK
  <2> QED BY <1>2, <2>1, <2>2, FoldedCovers DEF Clustered
<1>7. CASE MergeCyclic
  <2>1. stage = "merge" /\ cs = Condensed(clusters) BY <1>1, <1>7 DEF MergeCyclic
  <2> QED BY <1>2, <2>1, CondensedCovers DEF Clustered
<1>8. CASE BuildGraph \/ TooFewDeclarations \/ NothingToSplit \/ Collapsed
  BY <1>1, <1>8 DEF BuildGraph, TooFewDeclarations, NothingToSplit, Collapsed, Clustered
<1>9. CASE UnionDuplicateVars \/ MutualReferences \/ AdjacentChain \/ InertHelper
             \/ SharedReference \/ ExclusiveConsumer \/ CrossItemWrites
  BY <1>1, <1>9
  DEF UnionDuplicateVars, MutualReferences, AdjacentChain, InertHelper, SharedReference,
      ExclusiveConsumer, CrossItemWrites, Iterate, Clustered
<1>10. CASE FoldRound \/ Done \/ UNCHANGED vars
  BY <1>3, <1>10 DEF FoldRound, Done, vars
<1> QED BY <1>4, <1>5, <1>6, <1>7, <1>8, <1>9, <1>10 DEF Next

LEMMA RegionsStep == IInv /\ RegionsAcyclic /\ [Next]_vars => RegionsAcyclic'
<1> SUFFICES ASSUME IInv, RegionsAcyclic, [Next]_vars, stage' = "bare", repartitioned'
             PROVE  Acyclic(clusters \ Entries(clusters))'
  BY DEF RegionsAcyclic
<1>1. ASSUME NEW cs, clusters' = cs, graph' = graph, Acyclic(cs \ Entries(cs))
      PROVE  Acyclic(clusters \ Entries(clusters))'
  BY <1>1 DEF Acyclic, Reached, ImportEdges, Imports, Closed, Entries
<1>2. CASE Extract \/ Retry
  <2>1. /\ stage \in {"extract"} \cup Clustered
        /\ clusters' = Executable /\ graph' = graph
    BY <1>2 DEF Extract, Retry, Clustered
  <2>2. Classes(cls) /\ Linked BY <2>1, LinkedFacts DEF IInv
  <2>3. Acyclic(Executable \ Entries(Executable)) BY <2>2, ExecutableFacts
  <2>4. PICK cs : cs = Executable OBVIOUS
  <2> QED BY <1>1, <2>1, <2>3, <2>4
<1>3. CASE UNCHANGED vars
  <2>1. /\ stage = "bare" /\ repartitioned
        /\ clusters' = clusters /\ graph' = graph
    BY <1>3 DEF vars
  <2>2. Acyclic(clusters \ Entries(clusters)) BY <2>1 DEF RegionsAcyclic
  <2>3. PICK cs : cs = clusters OBVIOUS
  <2> QED BY <1>1, <2>1, <2>2, <2>3
<1>4. CASE UnionDuplicateVars \/ MutualReferences \/ AdjacentChain \/ InertHelper
             \/ SharedReference \/ ExclusiveConsumer \/ CrossItemWrites
  BY <1>4
  DEF UnionDuplicateVars, MutualReferences, AdjacentChain, InertHelper, SharedReference,
      ExclusiveConsumer, CrossItemWrites, Iterate
<1>5. CASE BuildGraph \/ TooFewDeclarations \/ NothingToSplit \/ Collapsed
             \/ MoveBareStatements \/ FoldRound \/ FoldIntoEntry \/ MergeCyclic
  BY <1>5 DEF BuildGraph, TooFewDeclarations, NothingToSplit, Collapsed,
              MoveBareStatements, FoldRound, FoldIntoEntry, MergeCyclic
<1> QED BY <1>2, <1>3, <1>4, <1>5 DEF Next, Done

-----------------------------------------------------------------------------
(* The state of the splitter has its type in every file. *)
THEOREM TypeCorrect == Spec => []TypeOK
<1>1. IInv => TypeOK BY DEF IInv
<1> QED BY <1>1, Invariance, PTL

(* No item is emitted twice, no cluster is empty and one at most is the    *)
(* entry, through every move, fold, merge and retry.                       *)
THEOREM ItemsOnceHolds == Spec => []ItemsOnce
<1>1. IInv => ItemsOnce
  BY DEF IInv, ClusterInv, Proper, Disjoint, OneEntry, ItemsOnce
<1> QED BY <1>1, Invariance, PTL

(* An item stays with the items whose bindings it assigns. *)
THEOREM WritersWithOwnersHolds == Spec => []WritersWithOwners
<1>1. IInv => WritersWithOwners
  BY DEF IInv, ClusterInv, Proper, LinksKept, Links, WritersWithOwners
<1> QED BY <1>1, Invariance, PTL

(* One merge of the strongly connected clusters leaves no import cycle. *)
THEOREM NoImportCycleHolds == Spec => []NoImportCycle
<1>1. IInv => NoImportCycle BY DEF IInv, ClusterInv, NoImportCycle
<1> QED BY <1>1, Invariance, PTL

(* Whatever runs code is loaded with the entry, if there is one. *)
THEOREM EffectsRunHolds == Spec => []EffectsRun
<1>1. IInv => EffectsRun BY DEF IInv, ClusterInv, EffectsReached, EffectsRun
<1> QED BY <1>1, Invariance, PTL

(* Statements that bind nothing end in the entry. *)
THEOREM BareInEntryHolds == Spec => []BareInEntry
<1>1. IInv => BareInEntry BY DEF IInv, ClusterInv, BareKept, BareInEntry
<1> QED BY <1>1, Invariance, PTL

(* Through every extraction, move, fold and merge each item of the file is *)
(* in one of the clusters.                                                 *)
THEOREM NothingLostHolds == Spec => []NothingLost
<1>1. Init => NothingLost BY DEF Init, NothingLost, Clustered
<1> QED BY <1>1, CoverStep, Invariance, PTL DEF Spec

(* The clusters stay a partition of the file: each item is in exactly one. *)
THEOREM PartitionHolds == Spec => []Partition
<1>1. ItemsOnce /\ NothingLost => Partition BY DEF Partition
<1> QED BY <1>1, ItemsOnceHolds, NothingLostHolds, PTL

(* The regions of the executable extraction do not import each other in a  *)
(* cycle: a region imports only regions whose anchor comes later in the    *)
(* topological order, and nearness splits that order at the midpoints.     *)
THEOREM RegionsAcyclicHolds == Spec => []RegionsAcyclic
<1>1. Init => RegionsAcyclic BY DEF Init, RegionsAcyclic
<1> QED BY <1>1, RegionsStep, Invariance, PTL DEF Spec
=============================================================================
