----------------------------- MODULE LatestWins -----------------------------
(***************************************************************************)
(* What a pane of the playground promises whoever reads it.  Its input may    *)
(* change at any time, busy or not.  A new value appears only when a run      *)
(* ends, and it is the result of the input as it is then: never that of an    *)
(* older one, which may be what the worker answered last.  A run begins by    *)
(* taking down the error of the one before; the only other error is that of   *)
(* a worker that could not be loaded.                                        *)
(***************************************************************************)
CONSTANTS
  Answer(_),   (* what the pane is to show of an input *)
  Blank        (* what it shows at first                *)

VARIABLES
  wanted,      (* the latest input the pane knows of    *)
  busy,        (* it says that it is at work            *)
  pane         (* its value, and whether it is an error *)

vars == <<wanted, busy, pane>>

Init == ~busy /\ pane = Blank

(* Any other input, any number of times. *)
Ask == wanted' # wanted /\ UNCHANGED <<busy, pane>>

(* A run begins, or begins again because its input is out of date. *)
Begin ==
  /\ busy'
  /\ pane' = [pane EXCEPT !.error = FALSE]
  /\ UNCHANGED wanted

Show ==
  /\ busy
  /\ ~busy'
  /\ pane' = Answer(wanted)
  /\ UNCHANGED wanted

Fail ==
  /\ ~busy
  /\ pane' = [pane EXCEPT !.error = TRUE]
  /\ UNCHANGED <<wanted, busy>>

Next == Ask \/ Begin \/ Show \/ Fail

Spec == Init /\ [][Next]_vars
=============================================================================
