---------------------------- MODULE InterfacePlan ----------------------------
(***************************************************************************)
(* InterfacePlan::build (core/src/interface_plan.rs) as it runs: the walk     *)
(* along every passthrough chain, with its cycle check, and for every write   *)
(* the worklist of the modules it may land on.  InterfacePlanOps defines what *)
(* both are to compute.                                                      *)
(***************************************************************************)
EXTENDS InterfacePlanOps, Naturals

CONSTANTS
  Inputs,   (* the plan inputs; modules are numbered in job order *)
  None      (* no chain is walked, no write handled, no end found *)

(* Phase 1a reads the sources of `returns` and `through` in open modules, and  *)
(* a passthrough's source is among those its exports may come from; it is no   *)
(* whole value.                                                              *)
ASSUME InputsAssumption ==
  \A p \in Inputs :
    /\ p.mods \subseteq Nat
    /\ p.open \subseteq p.mods
    /\ p.writes \subseteq p.mods \X p.mods \X BOOLEAN
    /\ p.returns \subseteq p.open \X p.mods
    /\ p.outside \cap p.mods = {}
    /\ None \notin p.mods \cup p.outside
    /\ None \notin p.writes
    /\ \A e \in p.through :
         /\ e[1] \in p.open \ p.whole
         /\ e[2] \in p.mods => e \in p.returns
         /\ \A f \in p.through : f[1] = e[1] => f = e

VARIABLES
  p,        (* the plan input                                            *)
  stage,    (* "chains", "writes" or "done"                              *)
  start,    (* the passthrough whose chain is walked                     *)
  current,  (* where that walk has got to                                *)
  seen,     (* `seen` of passthrough_end                                 *)
  ends,     (* passthrough_ends, with None for a chain without end       *)
  todo,     (* the writing edges not handled yet                         *)
  edge,     (* the one being handled                                     *)
  reached,  (* the modules its write may land on, so far                 *)
  visited,  (* those the worklist has gone through                       *)
  written,  (* `written`: provider to first consumer that writes to it   *)
  kept      (* `kept`                                                    *)

vars == <<p, stage, start, current, seen, ends, todo, edge, reached, visited, written, kept>>

chainVars == <<start, current, seen, ends>>
writeVars == <<todo, edge, reached, visited, written, kept>>

Init ==
  /\ p \in Inputs
  /\ stage = "chains"
  /\ start = None
  /\ current = None
  /\ seen = {}
  /\ ends = [m \in {} |-> None]
  /\ todo = p.writes
  /\ edge = None
  /\ reached = {}
  /\ visited = {}
  /\ written = [m \in {} |-> None]
  /\ kept = {}

-----------------------------------------------------------------------------
StartChain(m) ==
  /\ stage = "chains"
  /\ start = None
  /\ m \in Passthroughs(p) \ DOMAIN ends
  /\ start' = m
  /\ current' = m
  /\ seen' = {}
  /\ UNCHANGED <<p, stage, ends>>
  /\ UNCHANGED writeVars

EndChain(end) ==
  /\ ends' = [m \in DOMAIN ends \cup {start} |-> IF m = start THEN end ELSE ends[m]]
  /\ start' = None
  /\ current' = None
  /\ UNCHANGED seen

(* What the walk does with the target of the module it is at. *)
Advance ==
  \E e \in p.through :
    /\ e[1] = current
    /\ IF e[2] \in Passthroughs(p)
       THEN /\ current' = e[2]
            /\ seen' = seen \cup {current}
            /\ UNCHANGED <<start, ends>>
       ELSE EndChain(IF e[2] \in p.mods \cup p.outside THEN e[2] ELSE None)

(* Mutant of FollowChain: the walk does not remember where it has been. *)
FollowForever ==
  /\ stage = "chains"
  /\ start # None
  /\ Advance
  /\ UNCHANGED <<p, stage>>
  /\ UNCHANGED writeVars

(* Mutant of FollowChain: the end of a chain is the next module on it. *)
FollowOnce ==
  /\ stage = "chains"
  /\ start # None
  /\ \E e \in p.through :
       /\ e[1] = current
       /\ EndChain(IF e[2] \in p.mods \cup p.outside THEN e[2] ELSE None)
  /\ UNCHANGED <<p, stage>>
  /\ UNCHANGED writeVars

(* One turn of passthrough_end's loop; meeting `current` again is a cycle. *)
FollowChain ==
  /\ stage = "chains"
  /\ start # None
  /\ IF current \in seen THEN EndChain(None) ELSE Advance
  /\ UNCHANGED <<p, stage>>
  /\ UNCHANGED writeVars

ChainsDone ==
  /\ stage = "chains"
  /\ start = None
  /\ DOMAIN ends = Passthroughs(p)
  /\ stage' = "writes"
  /\ UNCHANGED p
  /\ UNCHANGED chainVars
  /\ UNCHANGED writeVars

-----------------------------------------------------------------------------
(* The consumers are gone through in job order. *)
StartWrite(w) ==
  /\ stage = "writes"
  /\ edge = None
  /\ w \in todo
  /\ \A v \in todo : w[1] <= v[1]
  /\ todo' = todo \ {w}
  /\ edge' = w
  /\ reached' = {w[2]}
  /\ visited' = {}
  /\ UNCHANGED <<p, stage, written, kept>>
  /\ UNCHANGED chainVars

(* The modules a provider's `module.exports` may come from. *)
Sources(m) == {e[2] : e \in {f \in p.returns : f[1] = m}}

(* Mutant of Mark: a closed module counts as written. *)
MarkClosed(m) ==
  /\ written' = [q \in DOMAIN written \cup {m} |->
                   IF q \in DOMAIN written THEN written[q] ELSE edge[1]]
  /\ kept' = IF m \notin p.whole \/ ~LandsOnValue(p, edge) THEN kept \cup {m} ELSE kept

(* The provider m is written: `or_insert` leaves an earlier consumer there. *)
Mark(m) ==
  IF m \in p.open
  THEN /\ written' = [q \in DOMAIN written \cup {m} |->
                        IF q \in DOMAIN written THEN written[q] ELSE edge[1]]
       /\ kept' = IF m \notin p.whole \/ ~LandsOnValue(p, edge) THEN kept \cup {m} ELSE kept
  ELSE UNCHANGED <<written, kept>>

(* Mutant of VisitProvider: only an open provider passes a write on. *)
VisitDirect(m) ==
  /\ edge # None
  /\ m \in reached \ visited
  /\ visited' = visited \cup {m}
  /\ reached' = reached
  /\ Mark(m)
  /\ UNCHANGED <<p, stage, todo, edge>>
  /\ UNCHANGED chainVars

(* One turn of the worklist, which the code takes first come, first served. *)
VisitProvider(m) ==
  /\ edge # None
  /\ m \in reached \ visited
  /\ visited' = visited \cup {m}
  /\ reached' = reached \cup Sources(m)
  /\ Mark(m)
  /\ UNCHANGED <<p, stage, todo, edge>>
  /\ UNCHANGED chainVars

EndWrite ==
  /\ edge # None
  /\ reached = visited
  /\ edge' = None
  /\ UNCHANGED <<p, stage, todo, reached, visited, written, kept>>
  /\ UNCHANGED chainVars

WritesDone ==
  /\ stage = "writes"
  /\ edge = None
  /\ todo = {}
  /\ stage' = "done"
  /\ UNCHANGED p
  /\ UNCHANGED chainVars
  /\ UNCHANGED writeVars

Next ==
  \/ \E m \in p.mods : StartChain(m) \/ VisitProvider(m)
  \/ FollowChain \/ ChainsDone
  \/ \E w \in todo : StartWrite(w)
  \/ EndWrite \/ WritesDone

Spec == Init /\ [][Next]_vars

(* build is one call: it takes a step while it can. *)
FairSpec == Spec /\ WF_vars(Next)

-----------------------------------------------------------------------------
(* passthrough_sources: the module or package `UnEsm` reads for a require of  *)
(* t in consumer c.                                                          *)
Alias(c, t) ==
  IF c \in Passthroughs(p) \/ t \notin Passthroughs(p) \/ ends[t] \in {None, c}
  THEN t
  ELSE ends[t]

(* helper_sources: consumer c may inline what its require of t names. *)
Inlined(c, t) == Alias(c, t) \in p.helpers \ DOMAIN written

-----------------------------------------------------------------------------
(* The variables keep their types; a worklist only holds modules it knows, and *)
(* only modules with a writable exports object are written or kept.           *)
TypeOK ==
  /\ stage \in {"chains", "writes", "done"}
  /\ start \in Passthroughs(p) \cup {None}
  /\ seen \subseteq Passthroughs(p)
  /\ DOMAIN ends \subseteq Passthroughs(p)
  /\ todo \subseteq p.writes
  /\ edge \in p.writes \cup {None}
  /\ visited \subseteq reached
  /\ reached \subseteq p.mods
  /\ kept \subseteq DOMAIN written
  /\ DOMAIN written \subseteq p.open

(* The plan build is to make of an input: the open modules a write may land     *)
(* on, through any chain or cycle of conditional exports, each with the first *)
(* consumer, in job order, that writes; of those all but the whole values      *)
(* every write lands on; and where each passthrough's chain ends.             *)
Writers(q, m) == {w[1] : w \in {v \in q.writes : m \in Reached(q, v[2])}}

PlanFor(q) ==
  [written |-> [m \in Written(q) |->
                  CHOOSE c \in Writers(q, m) : \A d \in Writers(q, m) : c <= d],
   kept |-> Kept(q),
   ends |-> [m \in Passthroughs(q) |->
               IF Ends(q, m) = {} THEN None ELSE CHOOSE n \in Ends(q, m) : TRUE]]

Call == INSTANCE PureCall
  WITH Answer <- PlanFor, input <- p, returned <- stage = "done",
       answer <- IF stage = "done"
                 THEN [written |-> written, kept |-> kept, ends |-> ends]
                 ELSE None

(* The loops of build compute that plan, in whatever order its worklist is     *)
(* taken.                                                                    *)
ImplementsPureCall == Call!Spec

(* Its two sets alone. *)
PlanExact ==
  stage = "done" => DOMAIN written = Written(p) /\ kept = Kept(p)

(* written_by names the first consumer, in job order, whose write may land on *)
(* the module: the warning of a kept module names it.                        *)
FirstWriter ==
  stage = "done" =>
    \A m \in DOMAIN written :
      /\ \E w \in p.writes : written[m] = w[1] /\ m \in Reached(p, w[2])
      /\ \A w \in p.writes : m \in Reached(p, w[2]) => written[m] <= w[1]

(* The walk along a chain finds what the chain reaches, and None for a cycle. *)
ChainsExact ==
  \A m \in DOMAIN ends :
    IF ends[m] = None THEN Ends(p, m) = {} ELSE Ends(p, m) = {ends[m]}

(* "The rewritten specifier is no key of `sources`, so running this again      *)
(* changes nothing" (interface_plan.rs:228).                                 *)
RewriteIdempotent ==
  stage # "chains" =>
    \A c \in p.mods : \A t \in p.mods : Alias(c, Alias(c, t)) = Alias(c, t)

(* A write through a passthrough counts on the module UnEsm will read for it, *)
(* found by the other loop (interface_plan.rs:60).                           *)
WriteThroughAlias ==
  stage = "done" =>
    \A w \in p.writes : Alias(w[1], w[2]) \in p.open => Alias(w[1], w[2]) \in DOMAIN written

(* No consumer inlines a helper of a module that some consumer's require,      *)
(* through a passthrough or not, may overwrite.                              *)
HelperNotOverwritten ==
  stage = "done" =>
    \A c, t \in p.mods :
      Inlined(c, t) /\ Alias(c, t) \in p.open
        => \A w \in p.writes : Alias(c, t) \notin Reached(p, w[2])

(* build returns, whatever cycles the requires make. *)
BuildEnds == <>(stage = "done")
=============================================================================
