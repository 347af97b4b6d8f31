---------------------------- MODULE MCBindConfig ----------------------------
(***************************************************************************)
(* Small instances of BindConfig: named.conf, two files it may include.    *)
(***************************************************************************)
EXTENDS BindConfig, TLC

CONSTANTS a, b, chroot

MCOccurs == [f \in File |-> IF f = Main THEN {Main, chroot} ELSE {f}]
MCIncludes == {<<>>, <<a>>, <<b, b>>, <<a, Main>>}
MCReadable == {File, {Main, a}}
MCAllChanged == {{}, {b}, {chroot}}

Plain ==
    [ options |-> "none", stmts |-> [k \in Key |-> <<>>], tcpqueue |-> FALSE, zonestat |-> FALSE,
      slaves |-> {}, zones |-> {}, disabled |-> {}, ezoff |-> FALSE ]
Options(o, p, s) ==
    [Plain EXCEPT !.options = o,
                  !.stmts = [k \in Key |-> IF k = "pid-file" THEN p ELSE s]]

MainTexts ==
    { Plain } \cup
    { Options("section", p, s) : p \in {<<"new">>, <<"old">>}, s \in {<<>>, <<"new">>} } \cup
    { Options("section", <<"bare">>, <<"old", "old">>),
      Options("section", <<"glued", "old">>, <<"glued">>) } \cup
    { Options("commented", <<"new">>, <<"old">>) }
ATexts ==
    { Options("section", <<>>, <<"new">>), [Plain EXCEPT !.slaves = {"plain"}],
      [Plain EXCEPT !.slaves = {"format", "hidden"}, !.tcpqueue = TRUE],
      [Plain EXCEPT !.zones = EmptyZone], [Plain EXCEPT !.zonestat = TRUE] }
BTexts ==
    { Plain, [Plain EXCEPT !.disabled = EmptyZone, !.tcpqueue = TRUE],
      [Plain EXCEPT !.ezoff = TRUE, !.slaves = {"plain"}] }
MCTexts ==
    { (Main :> x) @@ (a :> y) @@ (b :> z) : x \in MainTexts, y \in ATexts, z \in BTexts }
=============================================================================
