--------------------------- MODULE MCInterfacePlan ---------------------------
(***************************************************************************)
(* Plan inputs of three modules: one to write from first, two that may be     *)
(* closed, plain, a whole value, a passthrough of any module (a cycle among   *)
(* them), of a package or of nothing, or export one of two requires.         *)
(***************************************************************************)
EXTENDS InterfacePlan

Package == 8
Lost == 9

Closing == [open |-> FALSE, whole |-> FALSE, through |-> {}, returns |-> {}]
Free == [Closing EXCEPT !.open = TRUE]
Whole == [Free EXCEPT !.whole = TRUE]
Through(t) == [Free EXCEPT !.through = {t}, !.returns = {t} \cap (1..3)]
Either(s) == [Free EXCEPT !.returns = s]

FirstKinds == {Closing, Free, Through(2), Either({2, 3})}

OtherKinds ==
  {Closing, Free, Whole} \cup {Through(t) : t \in {1, 2, 3, Package, Lost}}
    \cup {Either(s) : s \in {{1}, {1, 2}, {2, 3}}}

FirstWrites == {{}} \cup {{<<1, t, d>>} : t \in {2, 3}, d \in BOOLEAN}
SecondWrites == {{}} \cup {{<<c, t, TRUE>>} : c \in {2, 3}, t \in {1, 2, 3}}

Pairs(k, field) == UNION {{<<m, t>> : t \in k[m][field]} : m \in 1..3}

Input(k, writes, helpers) ==
  [mods |-> 1..3,
   open |-> {m \in 1..3 : k[m].open},
   whole |-> {m \in 1..3 : k[m].whole},
   helpers |-> helpers,
   writes |-> writes,
   returns |-> Pairs(k, "returns"),
   through |-> Pairs(k, "through"),
   outside |-> {Package}]

MCInputs ==
  {Input(<<a, b, c>>, w \cup v, {3}) :
     a \in FirstKinds, b \in OtherKinds, c \in OtherKinds,
     w \in FirstWrites, v \in SecondWrites}
=============================================================================
