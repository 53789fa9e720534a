-------------------------- MODULE InterfacePlanOps --------------------------
(***************************************************************************)
(* The decisions of barrier 0 (core/src/interface_plan.rs) as definitions.   *)
(* A plan input p is the PlanModules of a job with every source resolved     *)
(* (resolve_module_key):                                                     *)
(*   mods      the keys of the modules that were analysed                    *)
(*   open      exports_object_writable                                       *)
(*   whole     exports_whole_value                                           *)
(*   helpers   modules that export an interop helper                         *)
(*   requires  keyed and unkeyed require edges, <<consumer, provider>>       *)
(*   writes    edges that write to the required value, as                    *)
(*             <<consumer, provider, direct>>: direct is the edge's part of  *)
(*             writes_the_value_itself (no interop, no __esModule test, no   *)
(*             write of `default` or `__esModule`)                           *)
(*   returns   exports_from_requires, <<module, source's module>>            *)
(*   through   passthrough, <<module, what its source names>>                *)
(*   outside   the bare packages among those sources; a relative source that *)
(*             names no module is in neither mods nor outside                *)
(***************************************************************************)

(* S holds the target of every edge of R that starts in S. *)
Closed(S, R) == \A e \in R : e[1] \in S => e[2] \in S

(* The worklist of a write: every module whose required value the provider's  *)
(* `module.exports` may be.                                                  *)
Reached(p, provider) ==
  {m \in p.mods : \A S \in SUBSET p.mods :
                    provider \in S /\ Closed(S, p.returns) => m \in S}

(* is_written: providers a consumer writes to. *)
Written(p) == {m \in p.open : \E w \in p.writes : m \in Reached(p, w[2])}

(* writes_the_value_itself: the consumer is CommonJS and the edge direct. *)
LandsOnValue(p, w) == w[1] \in p.open /\ w[3]

(* keeps_commonjs: all but a whole-value provider whose every write lands on  *)
(* that value.                                                               *)
Kept(p) ==
  {m \in p.open :
     \E w \in p.writes : /\ m \in Reached(p, w[2])
                         /\ m \notin p.whole \/ ~LandsOnValue(p, w)}

Passthroughs(p) == {e[1] : e \in p.through}

(* passthrough_end: what a passthrough's chain reaches that is none itself, a  *)
(* module or a package.  It is empty for a cycle and for a chain that reaches *)
(* a relative source of no module.                                           *)
Ends(p, m) ==
  {e[2] : e \in {f \in p.through :
                   /\ f[2] \in (p.mods \cup p.outside) \ Passthroughs(p)
                   /\ \A S \in SUBSET Passthroughs(p) :
                        m \in S /\ (\A h \in p.through :
                                      h[1] \in S /\ h[2] \in Passthroughs(p) => h[2] \in S)
                          => f[1] \in S}}
=============================================================================
