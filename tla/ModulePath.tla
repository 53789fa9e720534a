----------------------------- MODULE ModulePath -----------------------------
(***************************************************************************)
(* Relative specifiers between output files (core/src/module_path.rs).  A    *)
(* path is the nonempty sequence of its parts, `/`-separated in the code; a  *)
(* relative specifier is the number of leading `..` parts and the parts that *)
(* follow.  A bare specifier (`react`) names no local module and is no       *)
(* specifier here.                                                           *)
(***************************************************************************)
EXTENDS Naturals, Sequences

CONSTANT
  NoPath   (* `None`: the specifier climbs out of the output *)

Dir(file) == SubSeq(file, 1, Len(file) - 1)

(* resolve_relative_specifier: each `..` pops the importer's directory, and   *)
(* popping an empty one fails.                                               *)
Resolve(from, spec) ==
  IF spec.up > Len(Dir(from))
  THEN NoPath
  ELSE SubSeq(Dir(from), 1, Len(Dir(from)) - spec.up) \o spec.down

(* The first k parts of the directory d and the path p are equal. *)
Common(k, d, p) ==
  /\ k \in 0..Len(d)
  /\ k <= Len(p)
  /\ \A i \in 1..k : d[i] = p[i]

(* The specifier for `to`, written in `from`, that climbs to their first k    *)
(* common parts.                                                             *)
RelativeVia(k, from, to) ==
  [up |-> Len(Dir(from)) - k, down |-> SubSeq(to, k + 1, Len(to))]

(* relative_import_specifier: the `while` loop stops at the last common part. *)
Relative(from, to) ==
  RelativeVia(CHOOSE k \in 0..Len(Dir(from)) :
                Common(k, Dir(from), to) /\ ~Common(k + 1, Dir(from), to),
              from, to)
=============================================================================
