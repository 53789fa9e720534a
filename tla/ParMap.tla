------------------------------- MODULE ParMap -------------------------------
(***************************************************************************)
(* What a parallel map over the modules of a job promises its caller: every *)
(* item is mapped exactly once, in any order, to what the input alone says,  *)
(* and the caller gets the results back in the order of the items, after the *)
(* last of them.                                                            *)
(***************************************************************************)
EXTENDS Naturals

CONSTANTS
  N,             (* number of items; item i is the i-th of the input vector *)
  Result(_, _),  (* what an item of an input is mapped to                   *)
  Pending        (* the caller has no answer yet                            *)

VARIABLES
  input,
  results,  (* the items mapped so far, with their results *)
  out       (* what the caller got, or Pending             *)

vars == <<input, results, out>>

Items == 1..N

Init ==
  /\ results = [i \in {} |-> Pending]
  /\ out = Pending

Map(i) ==
  /\ i \in Items \ DOMAIN results
  /\ out = Pending
  /\ DOMAIN results' = DOMAIN results \cup {i}
  /\ results'[i] = Result(input, i)
  /\ \A j \in DOMAIN results : results'[j] = results[j]
  /\ UNCHANGED <<input, out>>

Return ==
  /\ DOMAIN results = Items
  /\ out = Pending
  /\ out' = results
  /\ UNCHANGED <<input, results>>

Next == (\E i \in Items : Map(i)) \/ Return

Spec == Init /\ [][Next]_vars
=============================================================================
