------------------------------- MODULE PkgPost ------------------------------
(***************************************************************************)
(* The scripts that the assessment of the packages leaves for the upgraded *)
(* system: replacedpkg/fixreplaced.sh, generated by ReplacedPackages/check *)
(* from the packages it found, and clean_rhel6_pkgs/postupgrade_cleanup.sh *)
(* of RemovedPackages.  They run one after the other, in either order, on  *)
(* the system redhat-upgrade-tool leaves; the machine may go down in the   *)
(* middle of a script, which is then run again from its beginning.         *)
(***************************************************************************)
EXTENDS PkgTables

CONSTANTS
    Own,            \* packages of preupgrade-assistant itself
    DebugInfo,      \* packages with debuginfo in their name
    InName,         \* InName[p]: names in which the name p occurs
    Multilib,       \* names installed, where they are, for two architectures
    MaxCrashes      \* bound: number of power losses

ASSUME PostAssumption ==
    /\ Own \subseteq Pkg
    /\ DebugInfo \subseteq Pkg
    /\ InName \in [Pkg -> SUBSET Pkg]
    /\ Multilib \subseteq Pkg
    /\ MaxCrashes \in Nat

VARIABLES
    el6,        \* installed packages built for RHEL 6
    el7,        \* installed packages built for RHEL 7
    signed,     \* RHEL 6 packages signed by Red Hat
    modified,   \* packages with a modified file at its original path
    saved,      \* packages whose modified file has a .preupsave copy
    plan,       \* the package lists written into fixreplaced.sh
    names,      \* rpm_rhsigned.log stored beside the cleanup script
    conf,       \* upgrade.conf: "absent", "plain" or with "cleanup = True"
    repos,      \* channels with a configured repository
    source,     \* where the Base repository is: "net", "off", "on"
    script,     \* the script that is executing
    at,         \* its position
    todo,       \* entries its loop has still to read
    cur,        \* the entry it is working on, as a set of at most one
    ran,        \* scripts that have run to their end
    told,       \* packages for which a manual installation was demanded
    crashes     \* power losses so far

system == <<el6, el7, modified, saved>>
given  == <<signed, plan, names, conf, repos>>
vars == <<el6, el7, signed, modified, saved, plan, names, conf, repos, source,
          script, at, todo, cur, ran, told, crashes>>

Fix     == "fixreplaced.sh"
Cleanup == "postupgrade_cleanup.sh"
Scripts == {Fix, Cleanup}
NoScript == "none"
Positions == {"loop1", "erase1", "install", "loop2", "erase2", "debuginfo", "gates", "erase"}

----------------------------------------------------------------------------
Installed == el6 \cup el7

(* The files of an erased package go with it.                              *)
Remove(gone) ==
    /\ el6' = el6 \ gone
    /\ el7' = el7 \ gone
    /\ modified' = modified \ gone

(* rpm -e NAME is refused when two packages have the name; neither script  *)
(* looks at its status.                                                    *)
Erase(ps) == Remove(ps \ Multilib)

(* Fault: the copy is named after the new packages.                        *)
SaveUnderNewName(p) == saved' = saved \cup (IF p \in modified THEN Change[p].by ELSE {})

(* cp of every file that rpm -V reports as modified to .preupsave.         *)
Save(p) == saved' = saved \cup ({p} \cap modified)

Goto(pos) == at' = pos

----------------------------------------------------------------------------
(* fixreplaced.sh                                                          *)

FixStart ==
    /\ script = NoScript
    /\ Fix \notin ran
    /\ script' = Fix
    /\ Goto("loop1")
    /\ todo' = plan.missing
    /\ UNCHANGED <<system, given, source, cur, ran, told, crashes>>

(* Fault: the files are stored after the package has been erased.          *)
FixSave1TooLate(p) ==
    /\ script = Fix /\ at = "loop1" /\ p \in todo
    /\ todo' = todo \ {p}
    /\ cur' = {p}
    /\ Goto(IF p \in Installed THEN "erase1" ELSE "install")
    /\ UNCHANGED <<system, given, source, script, ran, told, crashes>>

(* First loop: an entry of the list of replacements without Provides.  The *)
(* old package, if it is still there, gets its modified files stored.      *)
FixSave1(p) ==
    /\ script = Fix /\ at = "loop1" /\ p \in todo
    /\ todo' = todo \ {p}
    /\ cur' = {p}
    /\ IF p \in Installed THEN Save(p) /\ Goto("erase1")
                          ELSE UNCHANGED saved /\ Goto("install")
    /\ UNCHANGED <<el6, el7, modified, given, source, script, ran, told, crashes>>

FixErase1 ==
    /\ script = Fix /\ at = "erase1"
    /\ Erase(cur)
    /\ Goto("install")
    /\ UNCHANGED <<saved, given, source, script, todo, cur, ran, told, crashes>>

(* prep_source_right mounts the installation source when it is not.        *)
CanMount(mount) == mount => source = "off"

(* What "yum install -y $new" brings in, possibly after the mount.         *)
CanGet(p, got, mount) ==
    /\ got \subseteq Change[p].by
    /\ got # {} => /\ Change[p].chan \in repos
                   /\ Change[p].chan = Base => source # "off" \/ mount

(* An old package of a new name is updated.                                *)
Yum(got) == el7' = el7 \cup got /\ el6' = el6 \ got

(* Fault: the entry is left once yum was retried, whatever it brought in.  *)
FixInstallNoWarning(p) ==
    /\ script = Fix /\ at = "install" /\ cur = {p}
    /\ cur' = {}
    /\ Goto("loop1")
    /\ \E got \in SUBSET Change[p].by, mount \in BOOLEAN :
         /\ CanMount(mount)
         /\ CanGet(p, got, mount)
         /\ Yum(got)
         /\ source' = IF mount THEN "on" ELSE source
    /\ UNCHANGED <<modified, saved, given, script, todo, ran, told, crashes>>

(* yum install, retried after prep_source_right; what is still missing     *)
(* then has to be installed by hand.                                       *)
FixInstall(p) ==
    /\ script = Fix /\ at = "install" /\ cur = {p}
    /\ cur' = {}
    /\ Goto("loop1")
    /\ IF Change[p].by \subseteq Installed
         THEN UNCHANGED <<el6, el7, source, told>>
         ELSE \E got \in SUBSET Change[p].by, mount \in BOOLEAN :
                /\ CanMount(mount)
                /\ CanGet(p, got, mount)
                /\ Yum(got)
                /\ source' = IF mount THEN "on" ELSE source
                /\ told' = IF Change[p].by \subseteq Installed \cup got
                             THEN told ELSE told \cup {p}
    /\ UNCHANGED <<modified, saved, given, script, todo, ran, crashes>>

FixLoop2 ==
    /\ script = Fix /\ at = "loop1" /\ todo = {}
    /\ Goto("loop2")
    /\ todo' = plan.removeme
    /\ UNCHANGED <<system, given, source, script, cur, ran, told, crashes>>

(* Fault: the second loop does not store the modified files.               *)
FixSave2NoCopy(p) ==
    /\ script = Fix /\ at = "loop2" /\ p \in todo
    /\ todo' = todo \ {p}
    /\ IF p \in Installed THEN cur' = {p} /\ Goto("erase2") ELSE UNCHANGED <<cur, at>>
    /\ UNCHANGED <<system, given, source, script, ran, told, crashes>>

(* Second loop: the packages of the replaced lists are removed, whatever   *)
(* became of their replacements.                                           *)
FixSave2(p) ==
    /\ script = Fix /\ at = "loop2" /\ p \in todo
    /\ todo' = todo \ {p}
    /\ IF p \in Installed THEN Save(p) /\ cur' = {p} /\ Goto("erase2")
                          ELSE UNCHANGED <<saved, cur, at>>
    /\ UNCHANGED <<el6, el7, modified, given, source, script, ran, told, crashes>>

FixErase2 ==
    /\ script = Fix /\ at = "erase2"
    /\ Erase(cur)
    /\ cur' = {}
    /\ Goto("loop2")
    /\ UNCHANGED <<saved, given, source, script, todo, ran, told, crashes>>

End(s) == script' = NoScript /\ ran' = ran \cup {s} /\ todo' = {} /\ Goto("loop1")

FixEnd ==
    /\ script = Fix /\ at = "loop2" /\ todo = {}
    /\ End(Fix)
    /\ UNCHANGED <<system, given, source, cur, told, crashes>>

----------------------------------------------------------------------------
(* postupgrade_cleanup.sh                                                  *)

(* remove_packages preupgrade-assistant, then the snapshot of the el6      *)
(* packages in $RPM_QA.                                                    *)
CleanupStart ==
    /\ script = NoScript
    /\ Cleanup \notin ran
    /\ script' = Cleanup
    /\ Goto("debuginfo")
    /\ Remove(Own)
    /\ todo' = el6 \ Own
    /\ UNCHANGED <<saved, given, source, cur, ran, told, crashes>>

(* The loop that removes debuginfo packages.  $ARCH is queried with the    *)
(* format '%{NAME}' and compared with "i{356}86": no package matches.      *)
CleanupDebuginfo(p) ==
    /\ script = Cleanup /\ at = "debuginfo" /\ p \in todo
    /\ todo' = todo \ {p}
    /\ IF p \in DebugInfo THEN Erase({p}) ELSE UNCHANGED <<el6, el7, modified>>
    /\ UNCHANGED <<saved, given, source, script, at, cur, ran, told, crashes>>

(* Fault: "[postupgrade]" is taken for the proof of the user's consent.    *)
MayCleanAnyConf == conf # "absent" /\ names # {}

(* The four tests before the last loop: upgrade.conf, rpm_rhsigned.log,    *)
(* "[postupgrade]" - which is a character class and holds for any          *)
(* configuration - and the clean up option.                                *)
MayClean == conf = "cleanup" /\ names # {}

CleanupGates ==
    /\ script = Cleanup /\ at = "debuginfo" /\ todo = {}
    /\ IF MayClean
         THEN /\ Goto("erase")
              /\ todo' = el6 \ Own
              /\ UNCHANGED <<script, ran>>
         ELSE End(Cleanup)
    /\ UNCHANGED <<system, given, source, cur, told, crashes>>

(* grep $NAME rpm_rhsigned.log: the name occurs in some line.              *)
LooksSigned(p) == InName[p] \cap names # {}

CleanupErase(p) ==
    /\ script = Cleanup /\ at = "erase" /\ p \in todo
    /\ todo' = todo \ {p}
    /\ IF LooksSigned(p) THEN Erase({p}) ELSE UNCHANGED <<el6, el7, modified>>
    /\ UNCHANGED <<saved, given, source, script, at, cur, ran, told, crashes>>

CleanupEnd ==
    /\ script = Cleanup /\ at = "erase" /\ todo = {}
    /\ End(Cleanup)
    /\ UNCHANGED <<system, given, source, cur, told, crashes>>

----------------------------------------------------------------------------
(* The machine goes down during a script; after the reboot the source is   *)
(* no longer mounted and the scripts that had not ended run again.         *)
Crash ==
    /\ script # NoScript
    /\ crashes < MaxCrashes
    /\ crashes' = crashes + 1
    /\ script' = NoScript
    /\ at' = "loop1"
    /\ todo' = {}
    /\ cur' = {}
    /\ source' = IF source = "on" THEN "off" ELSE source
    /\ UNCHANGED <<system, given, ran, told>>

AllRan == ran = Scripts /\ UNCHANGED vars

(* What redhat-upgrade-tool can leave of the packages in before: kept      *)
(* packages and the replaced ones with the right Provides are upgraded     *)
(* when their channel is configured, others and the ones the upgrade could *)
(* not get stay.                                                           *)
Upgradable(before) ==
    {p \in before : /\ Change[p].kind \in {"kept", "replaced"}
                    /\ Change[p].chan \in repos
                    /\ Change[p].kind = "replaced" => p \notin Missing}

NewNames(p) == IF Change[p].kind = "kept" THEN {p} ELSE Change[p].by

Upgraded(before) ==
    \E up \in SUBSET Upgradable(before) :
        /\ el7 = UNION {NewNames(p) : p \in up}
        /\ el6 = before \ (up \cup el7)

(* The lists the assessment stores for the package set before.             *)
Assessed(before, native) ==
    /\ plan = [missing  |-> native \cap Missing,
               removeme |-> {p \in native : Change[p].kind = "replaced" /\ ~Ignored(p)}]
    /\ names \in {native, {}}

Init ==
    /\ repos \in {{Base}, {Base, Optional}}
    /\ \E before \in SUBSET Pkg :
         /\ signed = before \ {p \in Pkg : Change[p].kind = "unlisted"}
         /\ Upgraded(before)
         /\ Assessed(before, signed)
    /\ modified \in SUBSET {p \in el6 : Change[p].kind \in {"replaced", "removed"}}
    /\ saved = {}
    /\ conf \in {"absent", "plain", "cleanup"}
    /\ source \in {"net", "off", "on"}
    /\ script = NoScript
    /\ at = "loop1"
    /\ todo = {}
    /\ cur = {}
    /\ ran = {}
    /\ told = {}
    /\ crashes = 0

FixStep ==
    \/ FixStart
    \/ \E p \in Pkg : FixSave1(p)
    \/ FixErase1
    \/ \E p \in Pkg : FixInstall(p)
    \/ FixLoop2
    \/ \E p \in Pkg : FixSave2(p)
    \/ FixErase2
    \/ FixEnd

CleanupStep ==
    \/ CleanupStart
    \/ \E p \in Pkg : CleanupDebuginfo(p)
    \/ CleanupGates
    \/ \E p \in Pkg : CleanupErase(p)
    \/ CleanupEnd

Next == FixStep \/ CleanupStep \/ Crash \/ AllRan

Spec == Init /\ [][Next]_vars

----------------------------------------------------------------------------
(* Properties                                                              *)

(* Every variable keeps its type.                                          *)
TypeOK ==
    /\ el6 \subseteq Pkg
    /\ el7 \subseteq Pkg \cup NewPkg /\ el6 \cap el7 = {}
    /\ signed \subseteq Pkg
    /\ modified \subseteq el6
    /\ saved \subseteq Pkg
    /\ plan \in [missing : SUBSET Pkg, removeme : SUBSET Pkg]
    /\ names \subseteq Pkg
    /\ conf \in {"absent", "plain", "cleanup"}
    /\ repos \subseteq Channels
    /\ source \in {"net", "off", "on"}
    /\ script \in Scripts \cup {NoScript}
    /\ at \in Positions
    /\ todo \subseteq Pkg
    /\ cur \subseteq Pkg
    /\ ran \subseteq Scripts
    /\ told \subseteq Pkg
    /\ crashes \in 0..MaxCrashes

Consent == conf = "cleanup"

(* The packages the cleanup may erase, by their names.                     *)
Cleaned == IF Consent THEN Pkg ELSE Own \cup DebugInfo

(* When fixreplaced.sh has run to its end, however often it was broken off *)
(* and whatever the mount and yum did, no entry of its first list has been *)
(* dropped silently: the old package is gone, unless rpm refused to erase  *)
(* it, and what is missing of its replacement is what the administrator    *)
(* was told to install, or was there and is an old package that the        *)
(* cleanup may erase.                                                      *)
FixSettles ==
    Fix \in ran => \A p \in plan.missing :
        /\ p \in Installed => p \in Multilib
        /\ p \in told \/ Change[p].by \ Installed \subseteq Cleaned

(* A modified file of a package never disappears before it was stored as   *)
(* .preupsave, also when the script is broken off between cp and rpm -e,   *)
(* except with the packages that the cleanup may erase unconditionally or  *)
(* with the consent of the user.                                           *)
ModifiedFilesKept ==
    [][\A p \in modified \ modified' :
         \/ p \in saved
         \/ script' = Cleanup /\ (Consent \/ p \in Own \cup DebugInfo)]_vars

(* Without the consent of the user, the two scripts together erase no      *)
(* installed package but those the assessment announced in the replaced    *)
(* lists, the debuginfo packages and preupgrade-assistant itself.          *)
ErasuresAnnounced ==
    [][\A p \in Installed \ Installed' :
         Consent \/ p \in plan.missing \cup plan.removeme \cup Own \cup DebugInfo]_vars

(* What both scripts do to the replaced packages implements the contract   *)
(* on settled replacements and stored files.  Left out are the packages    *)
(* the cleanup erases without being asked to.                              *)
ReplacedPkgs ==
    {p \in Listed("replaced") : ({p} \cup Change[p].by) \cap (Own \cup DebugInfo) = {}}

(* The replacement of p is settled: the old package is gone and the new    *)
(* ones are there, or the administrator was told to install them.          *)
Settled(p) == p \notin Installed /\ (Change[p].by \subseteq Installed \/ p \in told)

DataOf(p) == IF p \in saved THEN "saved" ELSE IF p \in modified THEN "inplace" ELSE "none"

RC == INSTANCE ReplacementContract WITH
    Pkg <- ReplacedPkgs,
    OldNamed <- {p \in ReplacedPkgs : Change[p].by \cap Pkg # {}},
    settled <- {p \in ReplacedPkgs : Settled(p)},
    data <- [p \in ReplacedPkgs |-> DataOf(p)],
    consent <- Consent

ImplementsContract == RC!Spec

(* "The $NAME package is not signed by Red Hat, and it will not be         *)
(* erased": the loop at the end erases signed packages only.               *)
UnsignedNotErased ==
    [][at = "erase" => \A p \in el6 \ el6' : p \in signed]_vars
============================================================================
