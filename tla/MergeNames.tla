----------------------------- MODULE MergeNames -----------------------------
(***************************************************************************)
(* Names of the modules of several inputs (core/src/driver/unpack/mod.rs and *)
(* merge.rs): which input keeps its own path, how the others make room, and  *)
(* how the specifiers of an input follow its modules.  A part of a path is a *)
(* stem with the numbers appended to it: a_2 is [stem |-> "a", tags |-> <<2>>]*)
(* whether it was invented or came with an input.  Inputs are relative       *)
(* paths below the output root, as public_path_for_input leaves them; the    *)
(* extension of a file is not modelled, so `a.js` and the directory `a` of   *)
(* its children are one part.                                               *)
(***************************************************************************)
EXTENDS FilenameRecovery, FiniteSets

CONSTANT
  Stems   (* the words paths are made of *)

Part == [stem : Stems, tags : Seq(Nat)]
Paths == Seq(Part) \ {<< >>}

(* A module of an input: its name there, whether it is an entry, the modules   *)
(* of its input it refers to, the paths of other inputs its author refers to, *)
(* the file name an annotation suggests, and whether it is a transpiler       *)
(* helper, which elimination may drop.                                       *)
Pieces == [orig : Paths, entry : BOOLEAN, own : SUBSET Nat, authored : SUBSET Paths,
           suggests : Paths \cup {NoName}, helper : BOOLEAN]

ASSUME PathAssumption == NoPath \notin Paths

(* The n-th name tried for a path that is taken. *)
Suffixed(path, n) == [path EXCEPT ![Len(path)].tags = Append(@, n)]

(* Bug: a name is compared as it is spelled. *)
FirstFreeSpelled(name, path, seen) ==
  /\ name \notin seen
  /\ \/ name = path
     \/ path \in seen /\ \E n \in 2..(Cardinality(seen) + 2) : name = Suffixed(path, n)

(* dedup_filename: the path itself, or the first suffix nobody has. *)
FirstFree(name, path, seen) ==
  /\ CaseKey(name) \notin seen
  /\ \/ name = path
     \/ /\ CaseKey(path) \in seen
        /\ \E n \in 2..(Cardinality(seen) + 2) :
             /\ name = Suffixed(path, n)
             /\ \A k \in 2..(n - 1) : CaseKey(Suffixed(path, k)) \in seen

(* Among that many names one is free. *)
Tries(path, seen) == {path} \cup {Suffixed(path, n) : n \in 2..(Cardinality(seen) + 2)}

-----------------------------------------------------------------------------
(* plan_public_paths: the inputs that are ES modules to one another. *)

(* Inputs that keep their own path: none of a single input, none in raw mode. *)
Planned(ins, raw) ==
  {i \in DOMAIN ins : ~raw /\ Len(ins) >= 2 /\ ins[i].form \in {"plain", "facade"}}

Facades(ins, raw) == {i \in Planned(ins, raw) : ins[i].form = "facade"}

(* Two inputs of one path are refused: to rename one would break references   *)
(* their authors wrote.                                                      *)
Ambiguous(ins, raw) ==
  \E i, j \in Planned(ins, raw) : i # j /\ CaseKey(ins[i].file) = CaseKey(ins[j].file)

Whole(file, input, part) ==
  [orig |-> file, entry |-> part, own |-> {}, suggests |-> NoName,
   helper |-> \A k \in DOMAIN input.modules : input.modules[k].helper,
   authored |-> UNION {m.authored : m \in {input.modules[k] : k \in DOMAIN input.modules}}]

Entries(input) == {k \in DOMAIN input.modules : input.modules[k].entry}

(* What an input becomes: itself, at its path or at its last part; the whole  *)
(* of a facade without a single entry; or the modules it was split into.     *)
ModulesOf(ins, raw, i) ==
  CASE ins[i].form = "plain" ->
         <<Whole(IF i \in Planned(ins, raw) THEN ins[i].file ELSE <<ins[i].file[Len(ins[i].file)]>>,
                 ins[i], FALSE)>>
    [] i \in Facades(ins, raw) /\ Cardinality(Entries(ins[i])) # 1 ->
         <<Whole(ins[i].file, ins[i], TRUE)>>
    [] OTHER -> ins[i].modules

(* apply_public_path_reservations: the entry takes the facade's path, its      *)
(* siblings go below it.                                                     *)
Reservation(ins, raw, m) ==
  IF m.input \notin Facades(ins, raw) THEN m.orig
  ELSE IF m.entry THEN ins[m.input].file
  ELSE ins[m.input].file \o m.orig

(* module_holds_reserved_path *)
Holds(ins, raw, m) ==
  /\ m.input \in Planned(ins, raw)
  /\ m.file = ins[m.input].file
  /\ m.entry \/ m.input \notin Facades(ins, raw)

-----------------------------------------------------------------------------
(* apply_filename_rewrites *)

Siblings(mods, m) == {k \in DOMAIN mods : mods[k].input = m.input}

(* Bug: other specifiers stay as they were in the physical input. *)
FollowedInPlace(ins, raw, mods, m, spec) ==
  LET named == {k \in Siblings(mods, m) : mods[k].orig = Resolve(m.orig, spec)}
  IN  IF named = {} THEN spec
      ELSE Relative(m.file, mods[CHOOSE k \in named : TRUE].file)

(* A specifier that names a sibling follows it; any other of a facade's child *)
(* is formed anew from the path of the facade, where it was written.  Inputs  *)
(* whose modules keep their names are left alone.                            *)
Followed(ins, raw, mods, m, spec) ==
  LET named == {k \in Siblings(mods, m) : mods[k].orig = Resolve(m.orig, spec)}
      written == Resolve(ins[m.input].file, spec)
  IN  IF \A k \in Siblings(mods, m) : mods[k].file = mods[k].orig THEN spec
      ELSE IF named # {} THEN Relative(m.file, mods[CHOOSE k \in named : TRUE].file)
      ELSE IF m.input \in Facades(ins, raw) /\ ~m.entry /\ written # NoPath
      THEN Relative(m.file, written)
      ELSE spec
=============================================================================
