------------------------------ MODULE MCUnpack ------------------------------
(***************************************************************************)
(* Instances of UnpackPhases: jobs of three modules.  NameJobs vary what      *)
(* decides names, failures and the emitted references; FactJobs vary what     *)
(* decides formats, facts and the adopted rule range.                        *)
(***************************************************************************)
EXTENDS UnpackPromises

MCParts == {"app", "lib", "util", "view", "page", "Page", "Util"}

(* The only letters whose case the paths below vary. *)
MCCaseKey(path) ==
  [i \in DOMAIN path |->
     CASE path[i] = "Page" -> "page" [] path[i] = "Util" -> "util" [] OTHER -> path[i]]

MCRecovered(name) == IF name = <<"..", "Page">> THEN NoPath ELSE name

Plain(file) ==
  [file |-> file, reserved |-> FALSE, suggests |-> NoName, failure |-> "none",
   parses |-> TRUE, reparses |-> TRUE, shape |-> "esm", whole |-> FALSE,
   writes |-> {}, returns |-> {}, refs |-> {}, helper |-> FALSE, calls |-> {},
   repairs |-> FALSE, pure |-> TRUE, entry |-> FALSE, consumed |-> FALSE,
   strips |-> TRUE, fate |-> "ok"]

Ref(t, k) == [to |-> t, kind |-> k]

-----------------------------------------------------------------------------
(* How a module fares: as it should, a declined boundary, a printer error, a  *)
(* detector failure of each kind, or a parse failure with and without the     *)
(* recovering parser's help.                                                 *)
Fares(s, how) ==
  CASE how \in {"ok", "declined", "error"} -> [s EXCEPT !.fate = how]
    [] how = "unparsed" -> [s EXCEPT !.parses = FALSE]
    [] how = "broken" -> [s EXCEPT !.parses = FALSE, !.reparses = FALSE]
    [] OTHER -> [s EXCEPT !.failure = how]

App(suggests, how, reserved) ==
  Fares([Plain(<<"app">>) EXCEPT !.suggests = suggests, !.reserved = reserved,
           !.entry = TRUE, !.refs = {Ref(2, "bind"), Ref(3, "side")}], how)

Util(suggests, how) ==
  Fares([Plain(<<"lib", "util">>) EXCEPT !.suggests = suggests, !.shape = "stuck",
           !.refs = {Ref(1, "bind"), Ref(3, "reexport")}], how)

View(suggests, how) ==
  Fares([Plain(<<"lib", "view">>) EXCEPT !.suggests = suggests, !.helper = TRUE], how)

NameJobs ==
  {[mods |-> <<App(s1, h1, reserved), Util(s2, h2), View(s3, h3)>>,
    level |-> level, dce |-> TRUE, srcmap |-> FALSE] :
     s1 \in {NoName, <<"Page">>, <<"lib", "Util">>},
     s2 \in {NoName, <<"page">>, <<"lib", "Util">>},
     s3 \in {NoName, <<"Page">>, <<"lib", "Page">>, <<"..", "Page">>},
     h1 \in {"ok", "declined", "unparsed", "broken", "WebpackFactoryRecoveryFailed"},
     h2 \in {"ok", "declined", "error"},
     h3 \in {"ok", "error", "DecompileFailed"},
     <<level, reserved>> \in {<<"standard", FALSE>>, <<"standard", TRUE>>, <<"minimal", FALSE>>}}

-----------------------------------------------------------------------------
Write(t, direct) == [to |-> t, direct |-> direct]

Consumer(kind, writes) ==
  [Plain(<<"app">>) EXCEPT !.shape = "plain", !.refs = {Ref(2, kind)}, !.writes = writes]

Provider(shape, whole, returns, repairs, parses) ==
  [Plain(<<"lib", "util">>) EXCEPT !.shape = shape, !.whole = whole, !.returns = returns,
     !.repairs = repairs, !.parses = parses, !.refs = {Ref(3, "helper")}]

Helper(shape, helper, calls) ==
  [Plain(<<"lib", "view">>) EXCEPT !.shape = shape, !.helper = helper, !.calls = calls]

FactJobs ==
  {[mods |-> <<Consumer(use[1], writes), Provider(shape, whole, returns, repairs, parses),
               Helper(hshape, helper, calls)>>,
    level |-> "standard", dce |-> TRUE, srcmap |-> use[2]] :
     use \in {<<"bind", FALSE>>, <<"require", FALSE>>, <<"bind", TRUE>>},
     writes \in {{}, {Write(2, TRUE)}, {Write(2, FALSE)}},
     <<shape, parses>> \in
       ({"esm", "plain", "wrapped", "ranged", "helped", "stuck"} \X {TRUE})
         \cup ({"esm", "plain", "ranged"} \X {FALSE}),
     whole \in BOOLEAN,
     returns \in {{}, {3}},
     repairs \in BOOLEAN,
     hshape \in {"esm", "ranged"},
     helper \in BOOLEAN,
     calls \in {{}, {2}}}

(* The application's text does not parse again, whether or not it is to be    *)
(* stripped of its import of the view.                                       *)
StripJobs ==
  {[mods |-> <<[App(s1, "ok", FALSE) EXCEPT !.strips = FALSE], Util(s2, "ok"),
               View(s3, h3)>>,
    level |-> "standard", dce |-> TRUE, srcmap |-> FALSE] :
     s1 \in {NoName, <<"Page">>}, s2 \in {NoName, <<"page">>},
     s3 \in {NoName, <<"lib", "Page">>}, h3 \in {"ok", "error"}}

AllJobs == NameJobs \cup FactJobs \cup StripJobs
=============================================================================
