-------------------------- MODULE EnforceDowngraded --------------------------
(***************************************************************************)
(* packages/pkgdowngrades/enforce_downgraded: the hook redhat-upgrade-tool *)
(* runs before the upgrade. It finds the installed packages whose version  *)
(* is lower in the new release, downloads them with what they require,     *)
(* and adds them to the packages and to the list of the upgrade tool.      *)
(* The hook may be broken off and run again over what it left.             *)
(***************************************************************************)
EXTENDS Integers, Sequences, SequencesExt, FiniteSets

CONSTANTS
    Installs,   \* the sets of installed packages to consider
    Repos,      \* the repositories: sequences of packages, in the order searchNevra lists them
    Requires(_, _), \* (package, repository) -> the packages yum adds for it
    BaseArch,   \* yumvar basearch
    MaxRuns,    \* bound: starts of the hook
    MaxLosses   \* bound: power losses

\* yum finds what a package requires in the repository.
ASSUME DowngradeAssumption ==
    /\ \A r \in Repos : /\ r \in Seq({r[i] : i \in DOMAIN r})
                        /\ \A i \in DOMAIN r : Requires(r[i], r) \subseteq {r[j] : j \in DOMAIN r}
    /\ MaxRuns \in Nat /\ MaxLosses \in Nat

VARIABLES
    installed,  \* packages of the running system
    repo,       \* packages of the new release
    medium,     \* those that lie on a read-only medium
    rhelup,     \* package files in rhelupdir
    list,       \* package.list of rhelupdir, line by line
    links,      \* destdir: links to files of rhelupdir
    fetched,    \* destdir: downloaded files
    todo,       \* members of the transaction not yet handled
    buffer,     \* lines written to package.list that are not on the disk
    step,       \* where the hook is
    status,     \* exit status of the last run
    runs, losses,
    torn        \* a file was left in rhelupdir without its line

vars == <<installed, repo, medium, rhelup, list, links, fetched, todo, buffer, step, status,
          runs, losses, torn>>
env == <<installed, repo, medium>>

Line(alt, p) == [alt |-> alt, pkg |-> p]
Listed(p) == \E i \in 1..Len(list) : list[i].pkg = p

Init ==
    /\ installed \in Installs
    /\ repo \in Repos
    /\ medium \in SUBSET {repo[i] : i \in 1..Len(repo)}
    \* what redhat-upgrade-tool has downloaded itself, and listed
    /\ rhelup \in SUBSET ({repo[i] : i \in 1..Len(repo)} \ medium)
    /\ list = SetToSeq({Line(FALSE, p) : p \in rhelup})
    /\ links = {} /\ fetched = {} /\ todo = {} /\ buffer = <<>>
    /\ step = "idle" /\ status = "none"
    /\ runs = 0 /\ losses = 0 /\ torn = FALSE

(***************************************************************************)
(* Which packages are downgraded.                                          *)
(***************************************************************************)
\* The package of the new release get_downgraded_packages compares p with, a set of at
\* most one: the one of the same architecture; else the one of the same name, if p
\* was or the other became independent of the architecture, or if it is the only one and p
\* is not a multilib package.
Candidate(p) ==
    LET named == {i \in DOMAIN repo : repo[i].name = p.name}
        exact == {i \in named : repo[i].arch = p.arch}
        first(found) == repo[Min(found)]
    IN  IF exact # {} THEN {first(exact)}
        ELSE IF named # {} /\ \/ p.arch = "noarch"
                              \/ Cardinality(named) = 1 /\ first(named).arch = "noarch"
                              \/ Cardinality(named) = 1 /\ p.arch = BaseArch
          THEN {first(named)}
          ELSE {}

Downgraded == UNION {{q \in Candidate(p) : p.evr > q.evr} : p \in installed}

\* Members of the transaction: yum adds what they require.
Members == Downgraded \cup UNION {Requires(q, repo) : q \in Downgraded}

(***************************************************************************)
(* The hook.                                                               *)
(***************************************************************************)
Exit(s) == step' = "idle" /\ status' = s

\* The configuration of the upgrade tool has no valid nogpgcheck or noverifyssl.
\* Otherwise prepare_destdir: links to all files that are there already.
Start ==
    /\ step = "idle" /\ runs < MaxRuns
    /\ runs' = runs + 1
    /\ \/ Exit("failed") /\ UNCHANGED <<links, fetched>>
       \/ step' = "download" /\ status' = "none" /\ links' = rhelup /\ fetched' = {}
    /\ UNCHANGED <<env, rhelup, list, todo, buffer, losses, torn>>

\* Files that are not in destdir nor on the medium.
Missing == Members \ (links \cup medium)

\* Fault: a package on a medium is taken for one that was not downloaded.
DownloadedInDestdir(files) == Members \cap files

\* downloaded_po_set: what exists and is no link.
Downloaded(files) == Members \cap (files \cup medium)

\* Fault: a failed download is tried again.
DownloadRetry ==
    /\ step = "download"
    /\ \/ /\ fetched' = Missing
          /\ todo' = Downloaded(Missing)
          /\ step' = "install" /\ UNCHANGED status
       \/ /\ Missing # {} /\ \E part \in SUBSET Missing : part # Missing /\ fetched' = part
          /\ UNCHANGED <<step, status, todo>>
    /\ UNCHANGED <<env, rhelup, list, links, buffer, runs, losses, torn>>

\* downloadPkgs and count_transaction, which raises when a file cannot be
\* opened or is no package rpm accepts: the hook ends before it has moved any.
Download ==
    /\ step = "download"
    /\ \/ /\ fetched' = Missing
          /\ todo' = Downloaded(Missing)
          /\ step' = "install" /\ UNCHANGED status
       \/ /\ \E part \in SUBSET Missing :
                (part # Missing \/ Downloaded(Missing) # {}) /\ fetched' = part
          /\ Exit("failed") /\ UNCHANGED todo
    /\ UNCHANGED <<env, rhelup, list, links, buffer, runs, losses, torn>>

\* Fault: the path of a package on a medium is not changed.
InstallSamePath(p) ==
    /\ step = "install" /\ p \in todo
    /\ todo' = todo \ {p}
    /\ buffer' = Append(buffer, Line(FALSE, p))
    /\ IF p \in medium
         THEN UNCHANGED <<rhelup, fetched>>
         ELSE rhelup' = rhelup \cup {p} /\ fetched' = fetched \ {p}
    /\ UNCHANGED <<env, list, links, step, status, runs, losses, torn>>

\* install_downloaded_ts for one package: a file is moved, one on a medium
\* cannot be; the line stays in the buffer of the open file.
Install(p) ==
    /\ step = "install" /\ p \in todo
    /\ todo' = todo \ {p}
    /\ buffer' = Append(buffer, Line(p \in medium, p))
    /\ IF p \in medium
         THEN UNCHANGED <<rhelup, fetched>>
         ELSE rhelup' = rhelup \cup {p} /\ fetched' = fetched \ {p}
    /\ UNCHANGED <<env, list, links, step, status, runs, losses, torn>>

\* Fault: the line is written before the file is moved.
MoveFailsListed(p) ==
    /\ step = "install" /\ p \in todo \ medium
    /\ list' = Append(list \o buffer, Line(FALSE, p))
    /\ todo' = {} /\ buffer' = <<>>
    /\ Exit("failed")
    /\ UNCHANGED <<env, rhelup, links, fetched, runs, losses, torn>>

\* shutil.move raises: the with statement closes the list, and the hook ends.
\* Between two file systems a part of the file may be left behind.
MoveFails(p) ==
    /\ step = "install" /\ p \in todo \ medium
    /\ \E part \in BOOLEAN :
          /\ rhelup' = IF part THEN rhelup \cup {p} ELSE rhelup
          /\ torn' = (torn \/ part)
    /\ list' = list \o buffer
    /\ todo' = {} /\ buffer' = <<>>
    /\ Exit("failed")
    /\ UNCHANGED <<env, links, fetched, runs, losses>>

Finish ==
    /\ step = "install" /\ todo = {}
    /\ list' = list \o buffer
    /\ buffer' = <<>>
    /\ Exit("done")
    /\ UNCHANGED <<env, rhelup, links, fetched, todo, runs, losses, torn>>

\* Lines of the buffer reach the disk in their order; the rest is lost.
PowerLoss ==
    /\ step # "idle" /\ losses < MaxLosses
    /\ losses' = losses + 1
    /\ \E n \in 0..Len(buffer) :
          /\ list' = list \o SubSeq(buffer, 1, n)
          /\ torn' = (torn \/ \E i \in n + 1..Len(buffer) : ~ buffer[i].alt)
    /\ todo' = {} /\ buffer' = <<>>
    /\ Exit("none")
    /\ UNCHANGED <<env, rhelup, links, fetched, runs>>

AnyPkg == {repo[i] : i \in 1..Len(repo)}
Hook == Download \/ (\E p \in AnyPkg : Install(p) \/ MoveFails(p)) \/ Finish

Next == Start \/ Hook \/ PowerLoss

Spec == Init /\ [][Next]_vars /\ WF_vars(Hook)

(***************************************************************************)
(* Properties.                                                             *)
(***************************************************************************)
TypeOK ==
    /\ rhelup \subseteq AnyPkg /\ fetched \subseteq AnyPkg \ medium /\ links \subseteq rhelup
    /\ todo \subseteq Members
    /\ \A i \in 1..Len(list) : list[i].pkg \in AnyPkg /\ list[i].alt = (list[i].pkg \in medium)
    /\ step \in {"idle", "download", "install"}
    /\ status \in {"none", "failed", "done"}
    /\ runs \in 0..MaxRuns /\ losses \in 0..MaxLosses /\ torn \in BOOLEAN

\* The packages of the new release that take the place of p: those of its name
\* and architecture, or, where there is none, those of its name, if p was not
\* tied to an architecture or there is only one, which is not tied to any or is
\* meant for the same as p, that of the system.
Successors(p) ==
    LET named == {i \in DOMAIN repo : repo[i].name = p.name}
        exact == {i \in named : repo[i].arch = p.arch}
        moved == \/ p.arch = "noarch"
                 \/ Cardinality(named) = 1 /\ \E i \in named : repo[i].arch = "noarch"
                 \/ Cardinality(named) = 1 /\ p.arch = BaseArch
    IN  IF exact # {} THEN exact ELSE IF moved THEN named ELSE {}

\* The upgrade path of p is broken: whatever takes its place is lower.
PathBroken(p) ==
    Successors(p) # {} /\ \A i \in Successors(p) : p.evr > repo[i].evr

\* A hook that ended well has put on the list one of the packages that take the
\* place of each installed package with a broken upgrade path, one that changed
\* its architecture included, after any number of failed and broken off runs. (Not
\* when one of them left a file without its line, by a power loss or in the
\* middle of a copy: the next run sees a link and takes the package for one of
\* the upgrade tool. And what else is on the list is left open: of several
\* packages with one name and architecture the code looks at the first.)
Enforced ==
    status = "done" /\ ~ torn =>
        \A p \in installed : PathBroken(p) => \E i \in Successors(p) : Listed(repo[i])

\* What lies in the directory of the upgrade tool is on its list whenever the
\* hook is not running: this is what makes the links of the next run mean "handled".
PresentIsListed ==
    step = "idle" /\ ~ torn => \A p \in rhelup : Listed(p)

\* The other way round, always: a file on the list is in the directory, once.
ListedIsPresent ==
    /\ \A i \in 1..Len(list) : list[i].alt \/ list[i].pkg \in rhelup
    /\ \A i, j \in 1..Len(list) : ~ list[i].alt /\ list[i] = list[j] => i = j

\* The directory and the list of the upgrade tool agree, in both directions.
ListIsDirectory == PresentIsListed /\ ListedIsPresent

\* A hook that was started ends.
HookEnds == step # "idle" ~> step = "idle"
=============================================================================
