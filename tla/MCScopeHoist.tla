----------------------------- MODULE MCScopeHoist -----------------------------
(* Files of six items.  Item i declares the name i unless it is bare; a    *)
(* base graph is varied by up to two more references, one of which may be  *)
(* an assignment, a second var of an earlier name, and initializers with   *)
(* effects.                                                                *)
EXTENDS ScopeHoist

Six == 1..6

(* Pairs <<i, j>>: item i mentions the name j. *)
TwoPairs  == {<<1, 2>>, <<2, 1>>, <<3, 4>>, <<4, 3>>, <<6, 3>>}
Row       == {<<2, 1>>, <<4, 3>>, <<6, 5>>}
Bases     == {TwoPairs, Row}

Pairs  == {p \in Six \X Six : p[1] # p[2]}
Extras == {<<p, q>> : p, q \in Pairs}

(* What the six items are: which bind nothing, which are module            *)
(* declarations, which var is declared again and where, whose initializers *)
(* run code. *)
Variant(bare, module, again, run) ==
    [bare |-> bare, module |-> module, again |-> again, run |-> run]

Variants == {Variant({}, {}, <<0, 0>>, {2, 5}),
             Variant({6}, {}, <<0, 0>>, {2, 5}),
             Variant({3}, {}, <<5, 2>>, {2}),
             Variant({1, 5}, {}, <<0, 0>>, {4}),
             Variant({}, {6}, <<0, 0>>, {1, 2, 5}),
             Variant({}, {}, <<5, 2>>, {3, 5}),
             Variant({2, 4, 6}, {}, <<0, 0>>, {})}

(* The first of the extra references may be an assignment. *)
File(base, extra, assigning, v) ==
    LET declares == [i \in Six |-> (IF i \in v.bare THEN {} ELSE {i})
                                     \cup (IF i = v.again[1] THEN {v.again[2]} ELSE {})]
        Out(edges) == [i \in Six |-> {e[2] : e \in {f \in edges : f[1] = i}} \ declares[i]]
    IN  [declares |-> declares,
         mentions |-> Out(base \cup {extra[1], extra[2]}),
         assigns  |-> Out(IF assigning THEN {extra[1]} ELSE {}),
         moddecl  |-> v.module,
         effects  |-> v.run \cup v.bare]

MCPrograms ==
    {File(base, extra, assigning, v) :
        base \in Bases, extra \in Extras, assigning \in BOOLEAN, v \in Variants}
===============================================================================
