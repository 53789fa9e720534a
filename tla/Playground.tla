----------------------------- MODULE Playground -----------------------------
(***************************************************************************)
(* The playground (playground/src/App.tsx): a form, two workers and, for     *)
(* each, a chain that keeps what is shown in step with the form.  The        *)
(* "compile" chain compiles the round-trip source; the "restore" chain       *)
(* decompiles the compiled code, or the decompile source.  A chain is a      *)
(* React effect that notes the latest input and sets a debounce timer, the   *)
(* run the timer starts, and the worker's answer.  React commits a change    *)
(* before it runs the effects of that change, so a timer or an answer can    *)
(* come in between.                                                         *)
(***************************************************************************)
EXTENDS Naturals, FiniteSets

CONSTANTS
  Sources, Producers, Levels,   (* what the form offers                       *)
  Compile(_),                   (* the producer: code of <<source, producer>> *)
  Restore(_),                   (* decompile: output of <<code, level>>       *)
  Empty,                        (* the empty string                           *)
  Failed,                       (* the worker answers with an error           *)
  MaxEdits                      (* the user's changes                         *)

ASSUME EditsAssumption == MaxEdits \in Nat

Chains == {"compile", "restore"}
Modes == {"decompile", "roundtrip"}

VARIABLES
  mode, producer, source, roundSource, level,   (* the form                  *)
  edits,     (* changes made to it                                          *)
  wasm,      (* "loading", "ready" (wasmReady) or "failed"                   *)
  seen,      (* per chain, {the dependencies its effects last ran with}      *)
  version,   (* compileVersionRef, inputVersionRef                          *)
  latest,    (* latestCompileInputRef, latestInputRef                       *)
  timer,     (* the debounce timer is set                                   *)
  active,    (* activeCompileRef, activeRunRef                              *)
  flight,    (* runs whose answer is awaited, with what they captured       *)
  loading,   (* isCompiling, isLoading                                      *)
  shown      (* compiledSource and producerError, output and error          *)

form == <<mode, producer, source, roundSource, level, edits>>
refs == <<seen, version, latest, timer>>
runs == <<active, flight, loading, shown>>
vars == <<form, wasm, refs, runs>>

-----------------------------------------------------------------------------
WakaruSource == IF mode = "roundtrip" THEN shown["compile"].value ELSE source

(* What a chain's effects depend on: its input, and whether it may run.       *)
Deps(k) ==
  IF k = "compile"
  THEN [input |-> <<roundSource, producer>>, gate |-> mode = "roundtrip"]
  ELSE [input |-> <<WakaruSource, level>>, gate |-> wasm = "ready"]

Result(k, input) == IF k = "compile" THEN Compile(input) ELSE Restore(input)

(* What a run leaves in the chain's pane: a failed one leaves it empty.       *)
Outcome(k, input) ==
  IF Result(k, input) = Failed
  THEN [value |-> Empty, error |-> TRUE]
  ELSE [value |-> Result(k, input), error |-> FALSE]

Init ==
  /\ mode \in Modes
  /\ producer \in Producers
  /\ source \in Sources
  /\ roundSource \in Sources
  /\ level \in Levels
  /\ edits = 0
  /\ wasm = "loading"
  /\ shown = [k \in Chains |-> [value |-> Empty, error |-> FALSE]]
  /\ seen = [k \in Chains |-> {}]
  /\ version = [k \in Chains |-> 0]
  /\ latest = [k \in Chains |-> Deps(k).input]
  /\ timer = [k \in Chains |-> FALSE]
  /\ active = [k \in Chains |-> FALSE]
  /\ flight = [k \in Chains |-> {}]
  /\ loading = [k \in Chains |-> FALSE]

-----------------------------------------------------------------------------
(* The controls: a source is edited in the mode that shows it, the producer    *)
(* chosen in the round trip.                                                 *)
Edit ==
  /\ edits < MaxEdits
  /\ edits' = edits + 1
  /\ \/ \E m \in Modes \ {mode} :
          mode' = m /\ UNCHANGED <<producer, source, roundSource, level>>
     \/ \E s \in Sources \ {source} :
          mode = "decompile" /\ source' = s /\ UNCHANGED <<mode, producer, roundSource, level>>
     \/ \E s \in Sources \ {roundSource} :
          mode = "roundtrip" /\ roundSource' = s /\ UNCHANGED <<mode, producer, source, level>>
     \/ \E b \in Producers \ {producer} :
          mode = "roundtrip" /\ producer' = b /\ UNCHANGED <<mode, source, roundSource, level>>
     \/ \E l \in Levels \ {level} :
          level' = l /\ UNCHANGED <<mode, producer, source, roundSource>>
  /\ UNCHANGED wasm
  /\ UNCHANGED refs
  /\ UNCHANGED runs

(* The decompiler's worker is created by an effect of the first commit. *)
Mounted == seen["restore"] # {}

WasmReady ==
  /\ Mounted
  /\ wasm = "loading"
  /\ wasm' = "ready"
  /\ UNCHANGED form
  /\ UNCHANGED refs
  /\ UNCHANGED runs

WasmFails ==
  /\ Mounted
  /\ wasm = "loading"
  /\ wasm' = "failed"
  /\ shown' = [shown EXCEPT !["restore"].error = TRUE]
  /\ UNCHANGED form
  /\ UNCHANGED refs
  /\ UNCHANGED <<active, flight, loading>>

-----------------------------------------------------------------------------
(* Mutant of Idle: a run in flight is not looked for. *)
AlwaysIdle(k) == TRUE

Idle(k) == ~active[k]

Stale(k) == seen[k] # {Deps(k)}

(* The input is the one the version was last raised for. *)
SameInput(k) == \E d \in seen[k] : d.input = Deps(k).input

(* The effects of the last commit: versions first, then the timers, which an   *)
(* effect whose dependencies changed clears and, unless a run is in flight,   *)
(* sets again.                                                               *)
FlushEffects ==
  /\ \E k \in Chains : Stale(k)
  /\ seen' = [k \in Chains |-> {Deps(k)}]
  /\ latest' = [k \in Chains |-> Deps(k).input]
  /\ version' = [k \in Chains |-> IF SameInput(k) THEN version[k] ELSE version[k] + 1]
  /\ timer' = [k \in Chains |-> IF Stale(k) THEN Deps(k).gate /\ Idle(k) ELSE timer[k]]
  /\ UNCHANGED form
  /\ UNCHANGED wasm
  /\ UNCHANGED runs

(* Mutant of Captured: the version is read after it was raised. *)
CapturedLate(k) == [input |-> latest[k], version |-> version[k] + 1]

(* What a run keeps across its await. *)
Captured(k) == [input |-> latest[k], version |-> version[k]]

(* runCompile, runDecompile up to the await; `others` are in flight already. *)
Start(k, others) ==
  /\ active' = [active EXCEPT ![k] = TRUE]
  /\ flight' = [flight EXCEPT ![k] = others \cup {Captured(k)}]
  /\ loading' = [loading EXCEPT ![k] = TRUE]
  /\ shown' = [shown EXCEPT ![k].error = FALSE]

TimerFires(k) ==
  /\ timer[k]
  /\ timer' = [timer EXCEPT ![k] = FALSE]
  /\ IF Idle(k) THEN Start(k, flight[k]) ELSE UNCHANGED runs
  /\ UNCHANGED form
  /\ UNCHANGED <<wasm, seen, version, latest>>

(* The run c is over and nothing else is started. *)
End(k, c) ==
  /\ active' = [active EXCEPT ![k] = FALSE]
  /\ flight' = [flight EXCEPT ![k] = @ \ {c}]
  /\ loading' = [loading EXCEPT ![k] = FALSE]

(* Mutant of Answer: an outdated answer is dropped and nothing run again. *)
AnswerDropped(k, c) ==
  /\ c \in flight[k]
  /\ End(k, c)
  /\ shown' = [shown EXCEPT ![k] = IF c.version = version[k] THEN Outcome(k, c.input) ELSE @]
  /\ UNCHANGED form
  /\ UNCHANGED wasm
  /\ UNCHANGED refs

(* Mutant of Answer: an outdated answer is shown before the latest is run. *)
AnswerShown(k, c) ==
  /\ c \in flight[k]
  /\ IF c.version = version[k]
     THEN End(k, c)
     ELSE /\ UNCHANGED <<active, loading>>
          /\ flight' = [flight EXCEPT ![k] = (@ \ {c}) \cup {Captured(k)}]
  /\ shown' = [shown EXCEPT ![k] = Outcome(k, c.input)]
  /\ UNCHANGED form
  /\ UNCHANGED wasm
  /\ UNCHANGED refs

(* Mutant of Answer: the run after the await is started whatever was asked. *)
AnswerAgain(k, c) ==
  /\ c \in flight[k]
  /\ Start(k, flight[k] \ {c})
  /\ UNCHANGED form
  /\ UNCHANGED wasm
  /\ UNCHANGED refs

(* After the await: an answer to an input that has changed is dropped, and the *)
(* latest one run.                                                           *)
Answer(k, c) ==
  /\ c \in flight[k]
  /\ IF c.version = version[k]
     THEN End(k, c) /\ shown' = [shown EXCEPT ![k] = Outcome(k, c.input)]
     ELSE Start(k, flight[k] \ {c})
  /\ UNCHANGED form
  /\ UNCHANGED wasm
  /\ UNCHANGED refs

Next ==
  \/ Edit \/ WasmReady \/ WasmFails \/ FlushEffects
  \/ \E k \in Chains : TimerFires(k) \/ \E c \in flight[k] : Answer(k, c)

Spec == Init /\ [][Next]_vars

(* Effects are flushed, timers fire, and a worker answers what it was sent;    *)
(* the user need not do anything.                                            *)
FairSpec ==
  /\ Spec
  /\ WF_vars(FlushEffects)
  /\ WF_vars(WasmReady \/ WasmFails)
  /\ \A k \in Chains : WF_vars(TimerFires(k)) /\ WF_vars(\E c \in flight[k] : Answer(k, c))

-----------------------------------------------------------------------------
(* Every variable keeps its type, and no run has captured a version that was   *)
(* not raised yet.                                                           *)
TypeOK ==
  /\ mode \in Modes /\ producer \in Producers /\ level \in Levels
  /\ source \in Sources /\ roundSource \in Sources
  /\ edits \in 0..MaxEdits
  /\ wasm \in {"loading", "ready", "failed"}
  /\ \A k \in Chains :
       /\ version[k] \in Nat
       /\ timer[k] \in BOOLEAN /\ active[k] \in BOOLEAN /\ loading[k] \in BOOLEAN
       /\ shown[k].error \in BOOLEAN
       /\ \A c \in flight[k] : c.version \in 0..version[k]

(* A worker has one request at most, a timer is never set beside it, and the   *)
(* pane says it is busy exactly while there is one.                          *)
SingleFlight ==
  \A k \in Chains :
    /\ Cardinality(flight[k]) <= 1
    /\ loading[k] <=> flight[k] # {}
    /\ timer[k] => flight[k] = {}

Settled == \A k \in Chains : ~Stale(k) /\ ~timer[k] /\ flight[k] = {}

(* When nothing is left to happen, both panes show what the form now asks      *)
(* for, however the edits met the timers and the answers: no edit is lost.     *)
ShownFresh ==
  Settled =>
    /\ mode = "roundtrip" =>
         shown["compile"] = Outcome("compile", <<roundSource, producer>>)
    /\ wasm = "ready" => shown["restore"] = Outcome("restore", <<WakaruSource, level>>)

(* A pane only ceases to be busy by showing the latest input its effects know. *)
BusyUntilLatest ==
  [][\A k \in Chains :
       loading[k] /\ ~loading'[k] => shown'[k] = Outcome(k, latest[k])]_vars

CompileOutcome(input) == Outcome("compile", input)
RestoreOutcome(input) == Outcome("restore", input)

(* Each pane, with the input its effects last noted, as an implementation of   *)
(* what LatestWins promises.                                                 *)
CompilePane == INSTANCE LatestWins
  WITH Answer <- CompileOutcome, Blank <- [value |-> Empty, error |-> FALSE],
       wanted <- latest["compile"], busy <- loading["compile"], pane <- shown["compile"]

RestorePane == INSTANCE LatestWins
  WITH Answer <- RestoreOutcome, Blank <- [value |-> Empty, error |-> FALSE],
       wanted <- latest["restore"], busy <- loading["restore"], pane <- shown["restore"]

(* Neither pane ever shows the result of an input that has changed since,      *)
(* however answers race edits and effects (the version checks after the       *)
(* awaits of runCompile and runDecompile).                                   *)
PanesLatestWins == CompilePane!Spec /\ RestorePane!Spec

(* Once the user stops, both chains come to rest and neither pane is busy. *)
Settles == <>[](Settled /\ \A k \in Chains : ~loading[k])
=============================================================================
