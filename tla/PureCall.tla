------------------------------ MODULE PureCall ------------------------------
(***************************************************************************)
(* What a call promises that computes in many steps, some of them on other   *)
(* threads: one answer, given once, which its input alone decides.           *)
(***************************************************************************)
CONSTANT
  Answer(_)    (* the one answer to each input *)

VARIABLES
  input,
  returned,
  answer       (* what the caller gets           *)

vars == <<input, returned, answer>>

Init == ~returned

Return ==
  /\ ~returned
  /\ returned'
  /\ answer' = Answer(input)
  /\ UNCHANGED input

Spec == Init /\ [][Return]_vars
=============================================================================
