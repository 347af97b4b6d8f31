------------------------------ MODULE XmlText ------------------------------
(***************************************************************************)
(* The texts of services/tomcat/xml/ElementTree.py and how it escapes      *)
(* them.  A text is a sequence of characters, in which the rest of a       *)
(* reference ("lt;" of "&lt;") counts as one character, whoever wrote it.  *)
(***************************************************************************)
EXTENDS Naturals, Sequences, SequencesExt

Reference == {"amp;", "lt;", "gt;", "quot;", "#10;"}

(* The character that a reference stands for.                              *)
Referenced(ref) ==
    CASE ref = "amp;" -> "&" [] ref = "lt;" -> "<" [] ref = "gt;" -> ">"
      [] ref = "quot;" -> "\"" [] ref = "#10;" -> "\n"

(* text.replace(c, "&...;")                                                *)
Replaced(text, c, ref) ==
    FlattenSeq([i \in DOMAIN text |-> IF text[i] = c THEN <<"&", ref>> ELSE <<text[i]>>])

escape_cdata(text) ==
    Replaced(Replaced(Replaced(text, "&", "amp;"), "<", "lt;"), ">", "gt;")

escape_attrib(text) ==
    Replaced(Replaced(escape_cdata(text), "\"", "quot;"), "\n", "#10;")

(* What a parser makes of a written text: a carriage return, also with a   *)
(* newline behind it, is one line end; references are replaced; line ends  *)
(* and tabs of an attribute become spaces.  Malformed marks what it would  *)
(* refuse.                                                                 *)
Malformed == <<"malformed">>

Plain(c, attribute) ==
    CASE c = "<" -> Malformed
      [] attribute /\ c = "\"" -> Malformed
      [] attribute /\ c \in {"\n", "\t", "\r"} -> <<" ">>
      [] ~attribute /\ c = "\r" -> <<"\n">>
      [] OTHER -> <<c>>

Decoded(text, attribute) ==
    LET from[i \in 1..Len(text) + 1] ==
            IF i > Len(text) THEN <<>>
            ELSE IF text[i] = "\r" /\ i < Len(text) /\ text[i + 1] = "\n" THEN from[i + 1]
            ELSE IF text[i] # "&" THEN Plain(text[i], attribute) \o from[i + 1]
            ELSE IF i < Len(text) /\ text[i + 1] \in Reference
              THEN <<Referenced(text[i + 1])>> \o from[i + 2]
            ELSE Malformed
    IN from[1]
============================================================================
