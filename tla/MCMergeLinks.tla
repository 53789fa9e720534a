---------------------------- MODULE MCMergeLinks ----------------------------
(***************************************************************************)
(* Runs of three inputs: `me` loads modules of the inputs of `t` and `u`,     *)
(* which are in the same build or not, opaque or not, in a chunk of me's      *)
(* directory, of another, or of none.                                        *)
(***************************************************************************)
EXTENDS MergeLinks

MCNumberOf(id) == IF id \in {"7", "07"} THEN "7" ELSE "none"
MCSpecifier(from, to) == "../" \o to

Builds == {{}, {"x"}, {"y"}, {"x", "y"}}
Places == {[group |-> "g", chunks |-> {}], [group |-> "g", chunks |-> {1}],
           [group |-> "h", chunks |-> {1}]}

Module(id, file, build, opaque, place, factory, entry) ==
  [id |-> id, file |-> file, build |-> build, opaque |-> opaque, group |-> place.group,
   chunks |-> place.chunks, factory |-> factory, entry |-> entry]

Referrer(build, factory) ==
  Module("main", "src/index.js", build, FALSE, [group |-> "g", chunks |-> {}], factory, TRUE)

Others(file, ids) ==
  {Module(id, file, b, o, p, TRUE, FALSE) :
     id \in ids, b \in Builds, o \in BOOLEAN, p \in Places}

Call(kind, id, bound, within, own) ==
  [arg |-> [kind |-> kind, id |-> id], bound |-> bound, within |-> within, own |-> own]

Number(bound, within) == Call("number", "7", bound, within, FALSE)
String(id, within) == Call("string", id, FALSE, within, FALSE)
Own(spec) == Call("string", spec, FALSE, NoChunk, TRUE)

AllCalls ==
  <<Number(FALSE, NoChunk), String("s", NoChunk), Number(TRUE, 1), Number(FALSE, OtherLoad),
    String("7", NoChunk), String("s", 1), Own("./own.js"), Call("string", "pkg", FALSE, NoChunk, TRUE)>>

Job(m, t, u, calls, absent) ==
  [me |-> "m", mods |-> [k \in {"m", "t", "u"} |-> CASE k = "m" -> m [] k = "t" -> t [] OTHER -> u],
   calls |-> calls, absent |-> absent]

(* The referrer, and the absent id that is spelled like a specifier, if any.    *)
Contexts ==
  {<<Referrer(b, w), "none">> : b \in {{}, {"y"}}, w \in BOOLEAN}
    \cup {<<Referrer({"y"}, TRUE), spelled>> : spelled \in {"./own.js", "../t.js"}}

(* An input may name the globals of both builds; `pkg` is an id of another     *)
(* input and an authored require.                                            *)
Fits(spelled, t, u) ==
  IF spelled = "none"
  THEN u.id \in {"7", "s", "pkg"}
  ELSE u.id \in {"7", "./own.js", "../t.js"} /\ u.build # {} /\ t.id # "pkg" /\ t.build = {"y"}

MCJobs ==
  {Job(x[1][1], x[2], x[3], AllCalls, {"s", "7", x[1][2]} \ {"none"}) :
     x \in {y \in Contexts \X Others("t.js", {"7", "s", "pkg"})
                          \X Others("u.js", {"7", "s", "pkg", "./own.js", "../t.js"}) :
              Fits(y[1][2], y[2], y[3])}}
=============================================================================
