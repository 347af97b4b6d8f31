----------------------------- MODULE MCXmlTree -----------------------------
(* Documents whose tags and attributes have no namespace, one without a    *)
(* known prefix (u, v), one with a known prefix (xsi), or that of "xml",   *)
(* and whose texts hold what has to be escaped, what looks escaped, and    *)
(* carriage returns, one of them in front of a newline.                    *)
EXTENDS XmlTree

MCName == {"", "u", "v", "xsi", "xml"} \X {"k"}
MCWellKnown == ("xml" :> <<"xml">>) @@ ("xsi" :> <<"xsi">>)
MCStartTag == {
    <<<<"", "k">>, <<>>>>,
    <<<<"u", "k">>, (<<"", "k">> :> <<"\"", "&", "quot;", "\n">>)>>,
    <<<<"", "k">>, (<<"v", "k">> :> <<"\t", "\r">>) @@ (<<"u", "k">> :> <<"<">>)>>,
    <<<<"xsi", "k">>, (<<"xml", "k">> :> <<>>) @@ (<<"v", "k">> :> <<"a">>)>> }
MCText == {<<"a", "\r">>, <<"\n", "&", "lt;", "<">>}
MCCommentText == {<<>>, <<"&">>}
============================================================================
