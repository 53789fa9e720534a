---------------------------- MODULE MCUnpackJob ----------------------------
(***************************************************************************)
(* Jobs of up to three pushes whose paths run into one another: chunk files   *)
(* and what is generated below them, a script of the same directory, a case  *)
(* twin, a path that looks like an invented name, a bundle whose modules      *)
(* carry annotations.  An author of the chunk `pkg/a` refers to `pkg/b`, which *)
(* from where the split left the module reads as its sibling `lib/b`.        *)
(***************************************************************************)
EXTENDS UnpackJob

Named(stem) == [stem |-> stem, tags |-> << >>]
NamedTwo(stem) == [stem |-> stem, tags |-> <<2>>]

(* The only letter whose case the paths below vary. *)
MCCaseKey(path) ==
  [i \in DOMAIN path |-> IF path[i].stem = "B" THEN [path[i] EXCEPT !.stem = "b"] ELSE path[i]]

MCStems ==
  {"a", "b", "B", "index", "pkg", "lib", "x", "y", "dist", "app", "main"}

MCRecovered(name) == name

A == Named("a")
B == Named("b")

Module(orig, entry, own, authored) ==
  [orig |-> orig, entry |-> entry, own |-> own, authored |-> authored, suggests |-> NoName,
   helper |-> FALSE]

HelperModule(orig, entry, own, authored) ==
  [Module(orig, entry, own, authored) EXCEPT !.helper = TRUE]

Input(file, form, policy, refused, modules) ==
  [file |-> file, form |-> form, policy |-> policy, refused |-> refused, modules |-> modules]

Chunk ==
  Input(<<A>>, "facade", "Process", FALSE,
        <<Module(<<Named("index")>>, TRUE, {2}, {<<Named("pkg"), A>>}),
          Module(<<B>>, FALSE, {1}, {<<A, B>>})>>)

PkgChunk ==
  Input(<<Named("pkg"), A>>, "facade", "Process", FALSE,
        <<Module(<<B>>, FALSE, {2}, {<<A>>, <<A, B>>}),
          Module(<<Named("lib"), Named("index")>>, TRUE, {1}, {<<A>>, <<Named("pkg"), B>>}),
          HelperModule(<<Named("lib"), B>>, FALSE, {1, 2}, {})>>)

(* Two entries: its boundary cannot be kept, so it stays whole. *)
OpenChunk ==
  Input(<<A, NamedTwo("b")>>, "facade", "Process", FALSE,
        <<Module(<<Named("x")>>, TRUE, {}, {<<A>>}),
          Module(<<Named("y")>>, TRUE, {1}, {<<A, B>>})>>)

Bundle(s1, s2) ==
  Input(<<Named("dist"), Named("app")>>, "bundle", "Process", FALSE,
        <<[Module(<<B>>, TRUE, {2, 3}, {}) EXCEPT !.suggests = s1],
          [Module(<<A, B>>, FALSE, {1}, {}) EXCEPT !.suggests = s2],
          HelperModule(<<NamedTwo("b")>>, FALSE, {1, 2}, {})>>)

PlainInput(file, policy, refused) ==
  Input(file, "plain", policy, refused, <<Module(file, FALSE, {}, {<<A>>, <<Named("pkg"), A>>})>>)

HelperInput(file) ==
  Input(file, "plain", "Process", FALSE, <<HelperModule(file, FALSE, {}, {<<A>>})>>)

Fails(form) == Input(<<A>>, form, "Process", FALSE, << >>)

Usual ==
  {Fails("broken"), Chunk, PkgChunk, OpenChunk, Bundle(NoName, NoName),
   Bundle(<<Named("main")>>, <<Named("B")>>), Bundle(NoName, <<A>>),
   HelperInput(<<A, NamedTwo("b")>>), PlainInput(<<A>>, "Skip", TRUE)}
  \cup {PlainInput(file, policy, FALSE) :
          file \in {<<A, B>>, <<Named("B")>>, <<Named("pkg"), B>>},
          policy \in {"Process", "Preserve"}}

(* Other ways to fare, in jobs of at most two inputs. *)
Rarer ==
  {Fails("mapped"), PlainInput(<<A>>, "SkipUnrecognized", FALSE),
   PlainInput(<<A>>, "SkipUnrecognized", TRUE), PlainInput(<<B>>, "Error", FALSE)}

MCJobs ==
  {[raw |-> raw, pushes |-> pushes] :
     raw \in BOOLEAN,
     pushes \in [1..3 -> Usual] \cup UNION {[1..n -> Usual \cup Rarer] : n \in 0..2}}
=============================================================================
