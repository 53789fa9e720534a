----------------------------- MODULE MCSchedule -----------------------------
(* Four items of up to three sizes, so that every pattern of ties occurs, on *)
(* a pool of three workers.                                                  *)
EXTENDS Schedule, TLC

MCMapped == [i \in 1..N |-> i * 10]
MCValues == {10 * i : i \in 1..N}
=============================================================================
