----------------------------- MODULE MCPkgPost -----------------------------
(* Three replaced packages: one whose replacement lacks the Provides and   *)
(* is in part a package that RHEL 6 has too, such a one installed for two  *)
(* architectures, and one of the Optional channel; that old package, which *)
(* RHEL 7 keeps, and a debuginfo one.  In the instance for the unsigned    *)
(* packages, a removed one and an unlisted third-party package instead.    *)
EXTENDS PkgPost

MCNewPkg == {"n1", "n2"}

E(kind, chan, by) == [kind |-> kind, chan |-> chan, moved |-> FALSE, by |-> by]

MCChange == [p \in Pkg |->
    CASE p = "rb" -> E("replaced", "base", {"n1", "k"})
      [] p = "rc" -> E("replaced", "base", {"n2"})
      [] p = "ro" -> E("replaced", "optional", {"n2"})
      [] p = "k" -> E("kept", "base", {})
      [] p = "rm" -> E("removed", "base", {})
      [] OTHER -> E("unlisted", "base", {})]

MCRequires == [p \in Pkg |-> {}]

(* Names occur in themselves only; "tp" also occurs in "rm" (such as java  *)
(* in java-1.5.0-gcj).                                                     *)
OwnNames == [p \in Pkg |-> {p}]
TpInRm   == [OwnNames EXCEPT !["tp"] = {"tp", "rm"}]
============================================================================
