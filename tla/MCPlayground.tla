---------------------------- MODULE MCPlayground ----------------------------
(***************************************************************************)
(* Two sources, one of which no producer can compile, two producers and two  *)
(* levels, one of which fails on the code of the second producer.            *)
(***************************************************************************)
EXTENDS Playground

MCSources == {<<"good">>, <<"broken">>}
MCProducers == {"babel", "swc"}
MCLevels == {"standard", "aggressive"}
MCEmpty == <<>>
MCFailed == <<"failed">>

(* input = <<source, producer>> *)
MCCompile(input) ==
  IF input[1] = <<"broken">> THEN MCFailed ELSE <<"code", input[2]>>

(* input = <<code, level>> *)
MCRestore(input) ==
  IF input = <<<<"code", "swc">>, "aggressive">> THEN MCFailed ELSE <<"js", input[1], input[2]>>
=============================================================================
