--------------------------- MODULE PkgAssessment ---------------------------
(***************************************************************************)
(* The assessment of the installed packages: the check scripts of          *)
(* RHEL6_7/packages/{ReplacedPackages,ObsoletedPackages,RemovedPackages,   *)
(* notbase-channel}, run one after the other, in any order, by preupg.     *)
(* Each script deletes its old outputs, walks a list of packages, writes   *)
(* the lists used by kickstart and the files used after the upgrade, and   *)
(* exits with a result.  A run may be killed at any point; the             *)
(* administrator may then change the system and run preupg again over the  *)
(* files the killed run left behind.                                       *)
(***************************************************************************)
EXTENDS PkgTables

CONSTANTS
    NativeCandidates,   \* packages that may be installed and signed by Red Hat
    ForeignCandidates,  \* packages that may be installed and not signed
    ReadableChoices,    \* sets of common files that may be readable
    RerunCandidates,    \* bound: those of NativeCandidates on a system on
                        \* which preupg is run again
    MaxRuns             \* bound: number of runs of preupg

ASSUME AssessmentAssumption ==
    /\ NativeCandidates \subseteq Pkg
    /\ RerunCandidates \subseteq NativeCandidates
    /\ ForeignCandidates \subseteq Pkg
    /\ ReadableChoices \subseteq SUBSET {"rhsigned", "commondir", "missinglists", "nreponames"}
    /\ Pkg \cap {"summary", "unsupported"} = {}   \* the tags of the other risks
    /\ MaxRuns \in Nat

Replaced  == "ReplacedPackages"
Obsoleted == "ObsoletedPackages"
Removed   == "RemovedPackages"
NotBaseCh == "notbase-channel"
Checks == {Replaced, Obsoleted, Removed, NotBaseCh}
Idle   == "idle"

Results  == {"none", "pass", "fixed", "informational", "fail", "error"}
Finished == {"pass", "fixed", "informational", "fail"}

(* The lists in $KICKSTART_DIR, by the script that writes them.            *)
ReplacedFiles  == {"replaced", "replaced-notbase"}
ObsoletedFiles == {"obsoleted", "obsoleted-required",
                   "obsoleted-notbase", "obsoleted-required-notbase"}
KeptFiles      == {"kept", "kept-notbase"}
RemovedFiles   == {"RemovedPkg-required", "RemovedPkg-optional"}
Files == ReplacedFiles \cup ObsoletedFiles \cup KeptFiles \cup RemovedFiles

CommonFiles == {"rhsigned", "commondir", "missinglists", "nreponames"}

VARIABLES
    native,     \* installed packages signed by Red Hat
    foreign,    \* installed packages that are not
    upgrade,    \* $UPGRADE: the report is for an in-place upgrade
    migrate,    \* $MIGRATE: the report is for a migration
    readable,   \* common files that can be read
    run,        \* number of the current preupg run
    killed,     \* the current run was killed
    active,     \* the check script that is executing
    todo,       \* packages its loop has still to read
    loc,        \* its shell variables
    kick,       \* lines of each list in $KICKSTART_DIR
    exists,     \* lists that exist
    sorted,     \* lists that got their header line and were sorted
    sol,        \* solution.txt of each check
    risks,      \* risks logged in this run
    fixplan,    \* postupgrade.d/replacedpkg/fixreplaced.sh
    cleanplan,  \* postupgrade.d/clean_rhel6_pkgs/rpm_rhsigned.log
    rpmlist,    \* install_rpmlist.sh was copied to noauto_postupgrade.d
    result      \* result of each check in this run

system  == <<native, foreign>>
mode    == <<upgrade, migrate, readable>>
outputs == <<kick, exists, sorted, sol, risks, fixplan, cleanplan, rpmlist>>
vars == <<native, foreign, upgrade, migrate, readable, run, killed, active,
          todo, loc, kick, exists, sorted, sol, risks, fixplan, cleanplan,
          rpmlist, result>>

----------------------------------------------------------------------------
(* get_dist_native_list and is_dist_native read $VALUE_RPM_RHSIGNED.       *)
NativeList == IF "rhsigned" \in readable THEN native ELSE {}

(* Fault: get_repo_id cuts another column of default_nreponames.           *)
RepoForWrongColumn(p) == Change[p].kind

(* get_repo_id greps default_nreponames.                                   *)
RepoFor(p) == IF "nreponames" \in readable THEN RepoId(Change[p].chan) ELSE NoRepo

(* The channels that the solution names for a migration are grepped in     *)
(* default_nreponames.                                                     *)
CanName == migrate /\ "nreponames" \in readable

Subscriptions(channels) == IF CanName THEN channels ELSE {}

(* Shell variables at the start of a script.  other stands for             *)
(* $other_repositories, last for the channel at its end.                   *)
NoLocals == [found |-> FALSE, status |-> "informational", other |-> {},
             last |-> Base, removeme |-> {}]

EmptySolution == [lines |-> {}, subs |-> {}, addrepo |-> FALSE,
                  unsupported |-> FALSE]
NoPlan == [written |-> FALSE, missing |-> {}, removeme |-> {}]
NoCleanup == [written |-> FALSE, names |-> {}]

Put(f, line) == /\ kick' = [kick EXCEPT ![f] = @ \cup {line}]
                /\ exists' = exists \cup {f}

(* Fault: the rm -f of the old lists is forgotten.                         *)
WipeKeepsLines(fs, created) ==
    /\ exists' = exists \cup created
    /\ UNCHANGED <<kick, sorted>>

(* rm -f of the lists in fs followed by touch of the ones in created.      *)
Wipe(fs, created) ==
    /\ kick' = [f \in Files |-> IF f \in fs THEN {} ELSE kick[f]]
    /\ exists' = (exists \ fs) \cup created
    /\ sorted' = sorted \ fs

(* The loop "echo header > file.bak; sort | uniq >> file.bak; mv".  The    *)
(* lines are a set already.                                                *)
Sort(fs) == sorted' = sorted \cup (exists \cap fs)

Begin(c, work) ==
    /\ active' = c
    /\ todo' = work
    /\ loc' = NoLocals
    /\ UNCHANGED <<system, mode, run, killed, result>>

(* An early "exit $RESULT_ERROR": the outputs of an earlier run stay.      *)
Abort(c) ==
    /\ result' = [result EXCEPT ![c] = "error"]
    /\ UNCHANGED <<system, mode, run, killed, active, todo, loc, outputs>>

Ready(c) == active = Idle /\ ~killed /\ result[c] = "none"

Exit(c, r) ==
    /\ result' = [result EXCEPT ![c] = r]
    /\ active' = Idle
    /\ todo' = {}
    /\ loc' = NoLocals
    /\ UNCHANGED <<system, mode, run, killed>>

----------------------------------------------------------------------------
(* ReplacedPackages/check                                                  *)

ReplacedInputs == {"rhsigned", "commondir", "missinglists", "nreponames"}

ReplacedAbort ==
    /\ Ready(Replaced)
    /\ ~(ReplacedInputs \subseteq readable)
    /\ Abort(Replaced)

ReplacedBegin ==
    /\ Ready(Replaced)
    /\ ReplacedInputs \subseteq readable
    /\ Begin(Replaced, NativeList)
    /\ Wipe(ReplacedFiles, ReplacedFiles)
    /\ sol' = [sol EXCEPT ![Replaced] = EmptySolution]
    /\ rpmlist' = TRUE
    /\ UNCHANGED <<risks, fixplan, cleanplan>>

(* The line of the list: the code collects the requiring packages in       *)
(* msg_req only, so $req_pkgs and the second column stay empty.            *)
ReplacedLine(p) == [old |-> p, req |-> {}, by |-> Change[p].by, repo |-> RepoFor(p)]

(* The line of the solution names the requiring package that sorts last:   *)
(* every turn of the loop overwrites msg_req.                              *)
LastOf(ks) == IF ks = {} THEN {} ELSE {CHOOSE k \in ks : TRUE}

ReplacedRisks(p) ==
    (IF RequiredBy(p, foreign) # {} THEN {<<Replaced, "slight", p>>} ELSE {})
      \cup (IF NotBase(p) THEN {<<Replaced, "high", p>>} ELSE {})

(* Fault: a package of another channel is put on the removal list before   *)
(* its channel is known and the turn is left early.                        *)
ReplacedPkgSkipsNotBase(p) ==
    /\ active = Replaced
    /\ p \in todo
    /\ todo' = todo \ {p}
    /\ IF Change[p].kind = "replaced" /\ ~Ignored(p)
         THEN /\ loc' = [loc EXCEPT !.found = TRUE, !.removeme = @ \cup {p}]
              /\ IF NotBase(p) THEN UNCHANGED <<kick, exists, sol, risks>>
                 ELSE /\ Put("replaced", ReplacedLine(p))
                      /\ sol' = sol
                      /\ risks' = risks \cup ReplacedRisks(p)
         ELSE UNCHANGED <<kick, exists, loc, sol, risks>>
    /\ UNCHANGED <<system, mode, run, killed, active, sorted, fixplan,
                   cleanplan, rpmlist, result>>

(* One turn of the loop over the native packages.                          *)
ReplacedPkg(p) ==
    /\ active = Replaced
    /\ p \in todo
    /\ todo' = todo \ {p}
    /\ IF Change[p].kind = "replaced" /\ ~Ignored(p)
         THEN /\ Put(IF NotBase(p) THEN "replaced-notbase" ELSE "replaced", ReplacedLine(p))
              /\ loc' = [loc EXCEPT
                    !.found = TRUE,
                    !.status = IF NotBase(p) THEN "fail" ELSE @,
                    !.other = IF NotBase(p) THEN @ \cup {Change[p].chan} ELSE @,
                    !.removeme = @ \cup {p}]
              /\ sol' = [sol EXCEPT ![Replaced].lines = @ \cup
                    {[ReplacedLine(p) EXCEPT !.req = LastOf(RequiredBy(p, foreign))]}]
              /\ risks' = risks \cup ReplacedRisks(p)
         ELSE UNCHANGED <<kick, exists, loc, sol, risks>>
    /\ UNCHANGED <<system, mode, run, killed, active, sorted, fixplan,
                   cleanplan, rpmlist, result>>

(* Packages whose replacement lacks the Provides: the list $l of the       *)
(* generated script.                                                       *)
NotProvided == IF upgrade THEN NativeList \cap Missing ELSE {}

(* Fault: the test for other repositories before FIXED is dropped.         *)
ReplacedResultAlwaysFixed ==
    IF ~loc.found THEN "pass"
    ELSE IF NotProvided # {} THEN "fixed" ELSE loc.status

ReplacedResult ==
    IF ~loc.found THEN "pass"
    ELSE IF NotProvided # {} /\ loc.other = {} THEN "fixed" ELSE loc.status

(* After the loop: the advice, the generated postupgrade script, the       *)
(* sorted lists and the exit.                                              *)
ReplacedEnd ==
    /\ active = Replaced
    /\ todo = {}
    /\ fixplan' = IF upgrade
                    THEN [written |-> TRUE, missing |-> NotProvided, removeme |-> loc.removeme]
                    ELSE fixplan
    /\ Sort(ReplacedFiles)
    /\ sol' = [sol EXCEPT ![Replaced] =
                 IF ~loc.found THEN EmptySolution
                 ELSE [@ EXCEPT
                        !.subs = Subscriptions(loc.other),
                        !.addrepo = upgrade /\ Optional \in loc.other,
                        !.unsupported = upgrade /\ loc.other # {}]]
    /\ risks' = IF loc.found THEN risks \cup {<<Replaced, "slight", "summary">>} ELSE risks
    /\ Exit(Replaced, ReplacedResult)
    /\ UNCHANGED <<kick, exists, cleanplan, rpmlist>>

----------------------------------------------------------------------------
(* ObsoletedPackages/check                                                 *)

ObsoletedInputs == {"rhsigned", "commondir"}

ObsoletedAbort ==
    /\ Ready(Obsoleted)
    /\ ~(ObsoletedInputs \subseteq readable)
    /\ Abort(Obsoleted)

ObsoletedBegin ==
    /\ Ready(Obsoleted)
    /\ ObsoletedInputs \subseteq readable
    /\ Begin(Obsoleted, Listed("obsoleted"))
    /\ Wipe(ObsoletedFiles, {})
    /\ sol' = [sol EXCEPT ![Obsoleted] = EmptySolution]
    /\ UNCHANGED <<risks, fixplan, cleanplan, rpmlist>>

ObsoletedLine(p) == [old |-> p, req |-> RequiredBy(p, foreign),
                     by |-> Change[p].by, repo |-> RepoFor(p)]

(* ${FILENAME_BASIS}${filename_suffix}                                     *)
ObsoletedFile(p) ==
    LET required == RequiredBy(p, foreign) # {}
    IN CASE required /\ NotBase(p)   -> "obsoleted-required-notbase"
         [] required /\ ~NotBase(p)  -> "obsoleted-required"
         [] ~required /\ NotBase(p)  -> "obsoleted-notbase"
         [] ~required /\ ~NotBase(p) -> "obsoleted"

ObsoletedRisks(p) ==
    LET level == IF RequiredBy(p, foreign) # {} THEN "high" ELSE "medium"
    IN IF RequiredBy(p, foreign) # {} \/ NotBase(p) THEN {<<Obsoleted, level, p>>} ELSE {}

ObsoletedPkg(p) ==
    /\ active = Obsoleted
    /\ p \in todo
    /\ todo' = todo \ {p}
    /\ IF p \in NativeList /\ ~Ignored(p)
         THEN /\ Put(ObsoletedFile(p), ObsoletedLine(p))
              /\ loc' = [loc EXCEPT
                    !.found = TRUE,
                    !.other = IF NotBase(p) THEN @ \cup {Change[p].chan} ELSE @]
              /\ sol' = [sol EXCEPT ![Obsoleted].lines = @ \cup {ObsoletedLine(p)}]
              /\ risks' = risks \cup ObsoletedRisks(p)
         ELSE UNCHANGED <<kick, exists, loc, sol, risks>>
    /\ UNCHANGED <<system, mode, run, killed, active, sorted, fixplan,
                   cleanplan, rpmlist, result>>

ObsoletedEnd ==
    /\ active = Obsoleted
    /\ todo = {}
    /\ Sort(ObsoletedFiles)
    /\ sol' = [sol EXCEPT ![Obsoleted] =
                 IF loc.found THEN [@ EXCEPT !.subs = Subscriptions(loc.other)]
                              ELSE EmptySolution]
    /\ risks' = IF loc.found THEN risks \cup {<<Obsoleted, "medium", "summary">>} ELSE risks
    /\ Exit(Obsoleted, IF loc.found THEN "fail" ELSE "pass")
    /\ UNCHANGED <<kick, exists, fixplan, cleanplan, rpmlist>>

----------------------------------------------------------------------------
(* RemovedPackages/check                                                   *)

RemovedAbort ==
    /\ Ready(Removed)
    /\ "rhsigned" \notin readable
    /\ Abort(Removed)

(* The cleanup script and the list of signed packages are stored for the   *)
(* time after the upgrade before the loop starts.  The two lists in        *)
(* $KICKSTART_DIR are not deleted.                                         *)
RemovedBegin ==
    /\ Ready(Removed)
    /\ "rhsigned" \in readable
    /\ Begin(Removed, IF "commondir" \in readable THEN Listed("removed") ELSE {})
    /\ cleanplan' = [written |-> TRUE, names |-> NativeList]
    /\ sol' = [sol EXCEPT ![Removed] = EmptySolution]
    /\ UNCHANGED <<kick, exists, sorted, risks, fixplan, rpmlist>>

RemovedLine(p) == [old |-> p, req |-> RequiredBy(p, foreign), by |-> {}, repo |-> NoRepo]

RemovedPkg(p) ==
    /\ active = Removed
    /\ p \in todo
    /\ todo' = todo \ {p}
    /\ IF p \in NativeList
         THEN /\ sol' = [sol EXCEPT ![Removed].lines = @ \cup {RemovedLine(p)}]
              /\ loc' = [loc EXCEPT !.found = TRUE]
              /\ risks' = IF RequiredBy(p, foreign) # {}
                            THEN risks \cup {<<Removed, "high", p>>} ELSE risks
         ELSE UNCHANGED <<sol, loc, risks>>
    /\ UNCHANGED <<system, mode, run, killed, active, kick, exists, sorted,
                   fixplan, cleanplan, rpmlist, result>>

(* The lines of solution.txt are appended (>>) to the list they belong to, *)
(* and a list that is empty then is removed.                               *)
RemovedEnd ==
    /\ active = Removed
    /\ todo = {}
    /\ LET lines == sol[Removed].lines
           new == [f \in RemovedFiles |->
                     IF f = "RemovedPkg-required" THEN {x \in lines : x.req # {}}
                                                  ELSE {x \in lines : x.req = {}}]
       IN /\ kick' = [f \in Files |-> IF f \in RemovedFiles THEN kick[f] \cup new[f] ELSE kick[f]]
          /\ exists' = (exists \ RemovedFiles)
                          \cup {f \in RemovedFiles : kick[f] \cup new[f] # {}}
          /\ sol' = IF loc.found THEN sol ELSE [sol EXCEPT ![Removed] = EmptySolution]
    /\ risks' = IF loc.found
                  THEN risks \cup {<<Removed, "high", "summary">>, <<Removed, "medium", "summary">>}
                  ELSE risks
    /\ Exit(Removed, IF loc.found THEN "fail" ELSE "pass")
    /\ UNCHANGED <<sorted, fixplan, cleanplan, rpmlist>>

----------------------------------------------------------------------------
(* notbase-channel/check                                                   *)

NotBaseAbort ==
    /\ Ready(NotBaseCh)
    /\ "commondir" \notin readable
    /\ Abort(NotBaseCh)

(* Fault: the files of print_opt_file_list are forgotten.                  *)
NotBaseBeginNoOptional ==
    /\ Ready(NotBaseCh)
    /\ "commondir" \in readable
    /\ Begin(NotBaseCh, {p \in Listed("kept") : ~Ignored(p) /\ Change[p].chan # Optional})
    /\ Wipe(KeptFiles, {})
    /\ sol' = [sol EXCEPT ![NotBaseCh] = EmptySolution]
    /\ UNCHANGED <<risks, fixplan, cleanplan, rpmlist>>

NotBaseBegin ==
    /\ Ready(NotBaseCh)
    /\ "commondir" \in readable
    /\ Begin(NotBaseCh, {p \in Listed("kept") : ~Ignored(p)})
    /\ Wipe(KeptFiles, {})
    /\ sol' = [sol EXCEPT ![NotBaseCh] = EmptySolution]
    /\ UNCHANGED <<risks, fixplan, cleanplan, rpmlist>>

(* Fault: the loop over the addon channels comes first.                    *)
AddonsFirst(p) == CASE Change[p].chan = Optional -> 2
                    [] Change[p].chan = Base     -> 3
                    [] OTHER                     -> 1

(* The three loops, in this order: print_opt_file_list,                    *)
(* print_addon_file_list, print_base_files.                                *)
NotBaseLoop(p) == CASE Change[p].chan = Optional -> 1
                    [] Change[p].chan = Base     -> 3
                    [] OTHER                     -> 2

KeptLine(p) == [old |-> p, by |-> {p}, repo |-> RepoFor(p),
                req |-> IF NotBase(p) THEN RequiredBy(p, foreign) ELSE {}]

NotBasePkg(p) ==
    /\ active = NotBaseCh
    /\ p \in todo
    /\ \A q \in todo : NotBaseLoop(p) <= NotBaseLoop(q)
    /\ todo' = todo \ {p}
    /\ IF p \in NativeList
         THEN /\ Put(IF NotBase(p) THEN "kept-notbase" ELSE "kept", KeptLine(p))
              /\ IF NotBase(p)
                   THEN /\ loc' = [loc EXCEPT !.found = TRUE,
                                              !.other = @ \cup {Change[p].chan},
                                              !.last = Change[p].chan]
                        /\ sol' = [sol EXCEPT ![NotBaseCh].lines = @ \cup {KeptLine(p)}]
                        /\ risks' = risks \cup {<<NotBaseCh, "high", p>>}
                   ELSE UNCHANGED <<loc, sol, risks>>
         ELSE UNCHANGED <<kick, exists, loc, sol, risks>>
    /\ UNCHANGED <<system, mode, run, killed, active, sorted, fixplan,
                   cleanplan, rpmlist, result>>

(* echo "${other_repositories}" | grep -qe "optional $" -e "^$": whether   *)
(* the last repository is Optional, or there is none.                      *)
OnlyOptional == loc.other = {} \/ loc.last = Optional

NotBaseEnd ==
    /\ active = NotBaseCh
    /\ todo = {}
    /\ Sort(KeptFiles)
    /\ sol' = [sol EXCEPT ![NotBaseCh] =
                 IF ~loc.found THEN @
                 ELSE [@ EXCEPT !.addrepo = upgrade,
                                !.unsupported = upgrade /\ ~OnlyOptional,
                                !.subs = Subscriptions(loc.other)]]
    /\ risks' = IF loc.found /\ upgrade /\ ~OnlyOptional
                  THEN risks \cup {<<NotBaseCh, "high", "unsupported">>} ELSE risks
    /\ Exit(NotBaseCh, IF loc.found THEN "fail" ELSE "pass")
    /\ UNCHANGED <<kick, exists, fixplan, cleanplan, rpmlist>>

----------------------------------------------------------------------------
(* preupg and the administrator (outside this repository).                 *)

(* preupg is killed while a check is executing.                            *)
Kill ==
    /\ active # Idle
    /\ ~killed
    /\ killed' = TRUE
    /\ active' = Idle
    /\ todo' = {}
    /\ loc' = NoLocals
    /\ UNCHANGED <<system, mode, run, outputs, result>>

RunOver == active = Idle /\ (killed \/ \A c \in Checks : result[c] # "none")

(* preupg is started again on a system that may have changed by one        *)
(* package.  The outputs of the last run are still there.                  *)
Rerun ==
    /\ RunOver
    /\ run < MaxRuns /\ native \subseteq RerunCandidates
    /\ run' = run + 1
    /\ killed' = FALSE
    /\ result' = [c \in Checks |-> "none"]
    /\ risks' = {}
    /\ \/ UNCHANGED system
       \/ \E p \in RerunCandidates \ (native \cup foreign) :
             native' = native \cup {p} /\ UNCHANGED foreign
       \/ \E p \in native : native' = native \ {p} /\ UNCHANGED foreign
       \/ \E p \in ForeignCandidates \ (native \cup foreign) :
             foreign' = foreign \cup {p} /\ UNCHANGED native
       \/ \E p \in foreign : foreign' = foreign \ {p} /\ UNCHANGED native
    /\ UNCHANGED <<mode, active, todo, loc, kick, exists, sorted, sol, fixplan,
                   cleanplan, rpmlist>>

(* A run has ended, and nothing more happens.                              *)
AllOver == RunOver /\ UNCHANGED vars

Init ==
    /\ native \in SUBSET NativeCandidates
    /\ foreign \in SUBSET (ForeignCandidates \ native)
    /\ upgrade \in BOOLEAN
    /\ migrate \in BOOLEAN
    /\ upgrade \/ migrate
    /\ readable \in ReadableChoices
    /\ run = 1
    /\ killed = FALSE
    /\ active = Idle
    /\ todo = {}
    /\ loc = NoLocals
    /\ kick = [f \in Files |-> {}]
    /\ exists = {}
    /\ sorted = {}
    /\ sol = [c \in Checks |-> EmptySolution]
    /\ risks = {}
    /\ fixplan = NoPlan
    /\ cleanplan = NoCleanup
    /\ rpmlist = FALSE
    /\ result = [c \in Checks |-> "none"]

ReplacedStep  == ReplacedAbort \/ ReplacedBegin \/ (\E p \in Pkg : ReplacedPkg(p)) \/ ReplacedEnd
ObsoletedStep == ObsoletedAbort \/ ObsoletedBegin \/ (\E p \in Pkg : ObsoletedPkg(p)) \/ ObsoletedEnd
RemovedStep   == RemovedAbort \/ RemovedBegin \/ (\E p \in Pkg : RemovedPkg(p)) \/ RemovedEnd
NotBaseStep   == NotBaseAbort \/ NotBaseBegin \/ (\E p \in Pkg : NotBasePkg(p)) \/ NotBaseEnd

Step == ReplacedStep \/ ObsoletedStep \/ RemovedStep \/ NotBaseStep

Next == Step \/ Kill \/ Rerun \/ AllOver

Spec == Init /\ [][Next]_vars

----------------------------------------------------------------------------
(* Properties                                                              *)

Notes == {"summary", "unsupported"}

(* Every variable keeps its type, whatever is killed and run again.        *)
TypeOK ==
    /\ native \subseteq Pkg
    /\ foreign \subseteq Pkg
    /\ upgrade \in BOOLEAN
    /\ migrate \in BOOLEAN
    /\ readable \subseteq CommonFiles
    /\ run \in Nat
    /\ killed \in BOOLEAN
    /\ active \in Checks \cup {Idle}
    /\ todo \subseteq Pkg
    /\ loc \in [found : BOOLEAN, status : Results, other : SUBSET Channels,
                last : Channels, removeme : SUBSET Pkg]
    /\ kick \in [Files -> SUBSET Line]
    /\ exists \subseteq Files
    /\ sorted \subseteq Files
    /\ sol \in [Checks -> [lines : SUBSET Line, subs : SUBSET Channels,
                           addrepo : BOOLEAN, unsupported : BOOLEAN]]
    /\ risks \subseteq Checks \X {"slight", "medium", "high"} \X (Pkg \cup Notes)
    /\ fixplan \in [written : BOOLEAN, missing : SUBSET Pkg, removeme : SUBSET Pkg]
    /\ cleanplan \in [written : BOOLEAN, names : SUBSET Pkg]
    /\ rpmlist \in BOOLEAN
    /\ result \in [Checks -> Results]

(* The packages of a kind that a script must report: the native ones that  *)
(* are not in a debug channel.                                             *)
Reported(kind) == {p \in NativeList : Change[p].kind = kind /\ ~Ignored(p)}

Expected == [f \in Files |->
    CASE f = "replaced" -> {ReplacedLine(p) : p \in {q \in Reported("replaced") : ~NotBase(q)}}
      [] f = "replaced-notbase" -> {ReplacedLine(p) : p \in {q \in Reported("replaced") : NotBase(q)}}
      [] f \in ObsoletedFiles -> {ObsoletedLine(p) : p \in {q \in Reported("obsoleted") : ObsoletedFile(q) = f}}
      [] f = "kept" -> {KeptLine(p) : p \in {q \in Reported("kept") : ~NotBase(q)}}
      [] f = "kept-notbase" -> {KeptLine(p) : p \in {q \in Reported("kept") : NotBase(q)}}
      [] OTHER -> {}]

FilesOf(c) == CASE c = Replaced  -> ReplacedFiles
                [] c = Obsoleted -> ObsoletedFiles
                [] c = NotBaseCh -> KeptFiles
                [] c = Removed   -> RemovedFiles

(* When a check exits with a result other than ERROR, its lists hold one   *)
(* line for each package it must report on the system as it is now and     *)
(* nothing else - no line of an earlier or a killed run - and every list   *)
(* that exists has its header (the rm -f, loop and sort of the scripts).   *)
ListsDescribeThisRun ==
    \A c \in {Replaced, Obsoleted, NotBaseCh} : result[c] \in Finished =>
        \A f \in FilesOf(c) : /\ kick[f] = Expected[f]
                              /\ kick[f] # {} => f \in exists
                              /\ f \in exists => f \in sorted

Olds(f) == {x.old : x \in kick[f]}

(* When all four checks have exited normally, every native package the     *)
(* tables list, outside the debug channels, is in some list that exists:   *)
(* the four scripts leave no gap between them.                             *)
NoPackageLost ==
    (\A c \in Checks : result[c] \in Finished) =>
        \A p \in NativeList : Change[p].kind # "unlisted" /\ ~Ignored(p) =>
            \E f \in exists : p \in Olds(f)

(* The exit results and the lists agree: PASS exactly when the lists of a  *)
(* check that need attention are empty, and a package of another channel   *)
(* is never reported as FIXED.  What ReplacedPackages says of replacements *)
(* without the Provides is not claimed.                                    *)
ResultMatchesLists ==
    /\ result[Replaced] \in Finished =>
         /\ kick["replaced-notbase"] # {} => result[Replaced] = "fail"
         /\ result[Replaced] = "pass" <=> \A f \in ReplacedFiles : kick[f] = {}
    /\ result[Obsoleted] \in Finished =>
         (result[Obsoleted] = "fail" <=> \E f \in ObsoletedFiles : kick[f] # {})
    /\ result[NotBaseCh] \in Finished =>
         (result[NotBaseCh] = "fail" <=> kick["kept-notbase"] # {})
    /\ result[Removed] = "fail" => \E f \in RemovedFiles : kick[f] # {}

(* In-place upgrade: notbase-channel logs that the other channels are not  *)
(* supported exactly when it lists a package of a channel other than       *)
(* Optional, although it only looks at the end of $other_repositories.     *)
UnsupportedChannelsLogged ==
    result[NotBaseCh] \in Finished /\ upgrade =>
        (<<NotBaseCh, "high", "unsupported">> \in risks
           <=> \E p \in Olds("kept-notbase") : Change[p].chan # Optional)

(* Migration: the subscriptions the solution asks for cover the channel of *)
(* every package in a -notbase list, if the names of the channels can be   *)
(* looked up.                                                              *)
SubscriptionsCoverLists ==
    CanName => \A c \in {Replaced, Obsoleted, NotBaseCh} : result[c] \in Finished =>
        \A f \in FilesOf(c) : \A p \in Olds(f) : NotBase(p) => Change[p].chan \in sol[c].subs

(* What a script advises about channels in its two reports fits the        *)
(* packages that it lists, collected over loops in a variable.             *)
AdviceFitsLists == UnsupportedChannelsLogged /\ SubscriptionsCoverLists

(* The generated fixreplaced.sh of this run removes exactly the packages   *)
(* of the two replaced lists, and a high risk was logged for each of them  *)
(* that is not in the Base channel: nothing is removed unannounced.        *)
FixPlanMatchesLists ==
    result[Replaced] \in Finished /\ upgrade =>
        /\ fixplan.written
        /\ fixplan.removeme = Olds("replaced") \cup Olds("replaced-notbase")
        /\ \A p \in fixplan.removeme : NotBase(p) => <<Replaced, "high", p>> \in risks
============================================================================
