----------------------------- MODULE PkgTables -----------------------------
(***************************************************************************)
(* The package-change tables of RHEL6_7/common that the modules of         *)
(* RHEL6_7/packages read (the default files), and the part of the RPM      *)
(* database they query.  The tables are generated data that is shipped     *)
(* beside the modules: they are parameters here.                           *)
(***************************************************************************)
EXTENDS Naturals, FiniteSets

CONSTANTS
    Pkg,        \* names of RHEL 6 packages the system may have installed
    NewPkg,     \* names of RHEL 7 packages that RHEL 6 does not have
    Addons,     \* RHEL 7 channels other than Base and Optional
    Debug,      \* *debug channels, which the modules ignore
    Change,     \* what the default* tables say of each package
    Missing,    \* packages listed in ProvidesonlyMissing or BothMissing
    Requires    \* Requires[k]: the packages that package k requires

Base     == "base"
Optional == "optional"

(* A package is listed in one of the tables: default*_kept*, *_moved_*,    *)
(* *_replaced, *_obsoleted*, *_removed*; "unlisted" is a package of no     *)
(* table.  chan is the RHEL 7 channel encoded in the file name, moved says *)
(* whether the file name has the "moved" form (default*_moved..._<chan>)   *)
(* or the "same channel" form (default-<chan>_...).                        *)
Kinds == {"kept", "replaced", "obsoleted", "removed", "unlisted"}

Channels == {Base, Optional} \cup Addons \cup Debug

Entry == [kind : Kinds, chan : Channels, moved : BOOLEAN, by : SUBSET (Pkg \cup NewPkg)]

Listed(kind) == {p \in Pkg : Change[p].kind = kind}

(* A replacement may have the name of an old package (yum-presto|yum), but *)
(* of one that RHEL 7 has as well: in the tables shipped beside            *)
(* ReplacedPackages/check no name stands in both columns.                  *)
ASSUME TablesAssumption ==
    /\ Change \in [Pkg -> Entry]
    /\ Missing \subseteq Pkg
    /\ Requires \in [Pkg -> SUBSET Pkg]
    /\ \A p \in Pkg : Change[p].by \cap Pkg \subseteq (Listed("kept") \cup Listed("unlisted")) \ Missing
    /\ Pkg \cap NewPkg = {}
    /\ {Base, Optional} \cap (Addons \cup Debug) = {}
    /\ Addons \cap Debug = {}

(* "[[ $channel =~ debug$ ]] && continue": packages of *debug channels are *)
(* skipped by every module.                                                *)
Ignored(p) == Change[p].chan \in Debug

NotBase(p) == Change[p].chan # Base

(* The installed packages, not signed by Red Hat, that require p: the loop *)
(* over "rpm -q --whatrequires" filtered by is_pkg_installed and           *)
(* ! is_dist_native.                                                       *)
RequiredBy(p, foreign) == {k \in foreign : p \in Requires[k]}

(* get_repo_id: the repository id of a non-Base channel.  For the Base     *)
(* channel the lookup key is empty and no id is printed.                   *)
NoRepo == "norepo"
RepoId(chan) == IF chan = Base THEN NoRepo ELSE chan

(* A line of a list written for kickstart:                                 *)
(* old-package|required-by-pkgs|new-packages|repo-id.                      *)
Line == [old : Pkg, req : SUBSET Pkg, by : SUBSET (Pkg \cup NewPkg),
         repo : Channels \cup {NoRepo}]
============================================================================
