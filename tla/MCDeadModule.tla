---------------------------- MODULE MCDeadModule ----------------------------
(* Every output of three modules in which one is application code: all kinds *)
(* of edge between every two of them, every mix of helper, entry point,      *)
(* chunk module and side effect on the other two.                            *)
EXTENDS DeadModule

MCMods == {"app", "h1", "h2"}

(* One row per kind of module: the sets of the graph it belongs to. *)
Kinds == {
  [plain |-> TRUE,  helper |-> TRUE,  entry |-> FALSE, consumed |-> FALSE, ext |-> FALSE],
  [plain |-> FALSE, helper |-> TRUE,  entry |-> FALSE, consumed |-> FALSE, ext |-> FALSE],
  [plain |-> TRUE,  helper |-> FALSE, entry |-> FALSE, consumed |-> FALSE, ext |-> FALSE],
  [plain |-> TRUE,  helper |-> TRUE,  entry |-> TRUE,  consumed |-> FALSE, ext |-> FALSE],
  [plain |-> TRUE,  helper |-> TRUE,  entry |-> FALSE, consumed |-> TRUE,  ext |-> FALSE],
  [plain |-> TRUE,  helper |-> TRUE,  entry |-> FALSE, consumed |-> FALSE, ext |-> TRUE]}

AppKinds == {
  [plain |-> FALSE, helper |-> FALSE, entry |-> TRUE,  consumed |-> FALSE, ext |-> TRUE],
  [plain |-> TRUE,  helper |-> TRUE,  entry |-> FALSE, consumed |-> FALSE, ext |-> FALSE]}

Edges == {e \in MCMods \X MCMods : e[1] # e[2]}

EdgeKinds == {"none", "side", "bind", "dynamic"}

Graph(kind, edge, reported, unstrippable) ==
  [mods |-> MCMods,
   reported |-> reported,
   binds |-> {e \in Edges : edge[e] = "bind"},
   sides |-> {e \in Edges : edge[e] = "side"},
   refs |-> {e \in Edges : edge[e] = "dynamic"},
   reexports |-> {e \in Edges : edge[e] = "reexport"},
   external |-> {m \in MCMods : kind[m].ext},
   plain |-> {m \in MCMods : kind[m].plain},
   helper |-> {m \in MCMods : kind[m].helper},
   entry |-> {m \in MCMods : kind[m].entry},
   consumed |-> {m \in MCMods : kind[m].consumed},
   unstrippable |-> unstrippable]

KindMaps ==
  {k \in [MCMods -> Kinds \cup AppKinds] :
     /\ k["app"] \in AppKinds
     /\ k["h1"] \in Kinds
     /\ k["h2"] \in {c \in Kinds : ~c.entry /\ ~c.consumed}}

(* What a module may be to another: the application also refers to helpers   *)
(* dynamically, a helper binds the application or does not know it.          *)
EdgeMaps ==
  {f \in [Edges -> EdgeKinds] :
     \A e \in Edges :
       /\ e[1] # "app" => f[e] # "dynamic"
       /\ e[2] = "app" => f[e] # "side"}

(* The edges of an output; a module may have failed, or, with the application, *)
(* have a text that does not parse again.                                     *)
Outputs ==
  {<<f, MCMods, {}>> : f \in EdgeMaps}
    \cup {<<f, MCMods, {"app", "h1"}>> : f \in {e \in EdgeMaps : e[<<"app", "h1">>] = "side"}}
    \cup {<<[e \in Edges |-> "side"], {"app", "h1"}, {}>>}

MCGraphs == {Graph(k, o[1], o[2], o[3]) : k \in KindMaps, o \in Outputs}

(* An application that re-exports a helper nobody imports. *)
ReexportGraphs ==
  {Graph(k, f, MCMods, {}) :
     k \in {j \in KindMaps : ~j["app"].helper},
     f \in {[e \in Edges |-> IF e = <<"app", "h1">> THEN "reexport" ELSE "none"]}}
=============================================================================
