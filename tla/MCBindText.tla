----------------------------- MODULE MCBindText -----------------------------
(***************************************************************************)
(* The texts BindText is checked on: pieces of an options section.         *)
(***************************************************************************)
EXTENDS BindText

MCStarts == {<<>>, <<"o", " ", "{">>, <<"o", "#", "\n", "{">>}
MCPiece == { <<"o">>, <<"{">>, <<"}">>, <<"[">>, <<"]">>, <<"p">>, <<"p", "\t">>,
             <<"p", " ", "\"", "x", "\"", ";">>, <<"\"", "x", "\"", ";">>,
             <<"\"", "n", "\"">>, <<";">>, <<"\"">>, <<"'">>, <<"#">>, <<"\n">>, <<"#", "\n">>,
             <<"/", "*">>, <<"*", "/">> }
=============================================================================
