-------------------------- MODULE MCPkgAssessment --------------------------
(* A small package universe with one package of every kind that matters.   *)
EXTENDS PkgAssessment

MCPkg == {"rb", "ro", "oa", "kb", "ko", "ka", "rm", "kd", "tp"}
MCNewPkg == {"n1", "n2"}

E(kind, chan, moved, by) == [kind |-> kind, chan |-> chan, moved |-> moved, by |-> by]

MCChange == [p \in MCPkg |->
    CASE p = "rb" -> E("replaced", "base", FALSE, {"n1"})
      [] p = "ro" -> E("replaced", "optional", TRUE, {"n1", "n2"})
      [] p = "oa" -> E("obsoleted", "ha", FALSE, {"n2"})
      [] p = "kb" -> E("kept", "base", FALSE, {})
      [] p = "ko" -> E("kept", "optional", FALSE, {})
      [] p = "ka" -> E("kept", "ha", TRUE, {})
      [] p = "rm" -> E("removed", "base", FALSE, {})
      [] p = "kd" -> E("kept", "optdebug", FALSE, {})
      [] p = "tp" -> E("unlisted", "base", FALSE, {})]

MCRequires == [p \in MCPkg |-> IF p = "tp" THEN {"rb", "oa", "rm", "ka"} ELSE {}]

AllFiles == {CommonFiles}
SomeMissing == AllFiles \cup {CommonFiles \ {f} : f \in {"rhsigned", "nreponames"}}
                        \cup {CommonFiles \ {"commondir", "nreponames"}}
============================================================================
