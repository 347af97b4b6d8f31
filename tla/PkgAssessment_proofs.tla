------------------------ MODULE PkgAssessment_proofs ------------------------
(***************************************************************************)
(* What the four checks of the installed packages report, proved for all   *)
(* package tables, all systems and any number of killed and repeated runs. *)
(***************************************************************************)
EXTENDS PkgAssessment, TLAPS

(* A check whose outputs are those of the current run.                     *)
Current(c) == active = c \/ result[c] \in Finished

(* A check executes only when nothing else does, once in a run.            *)
Control == active # Idle => ~killed /\ result[active] = "none"

(* The packages to be reported that the loop of a check has read.          *)
Seen(c, kind) == Reported(kind) \ (IF active = c THEN todo ELSE {})

Away(pkgs) == {p \in pkgs : NotBase(p)}
Chans(pkgs) == {Change[p].chan : p \in pkgs}

----------------------------------------------------------------------------
(* ReplacedPackages                                                        *)

SeenReplaced == Seen(Replaced, "replaced")

ReplacedLists ==
    /\ ReplacedInputs \subseteq readable
    /\ ReplacedFiles \subseteq exists
    /\ kick["replaced"] = {ReplacedLine(p) : p \in SeenReplaced \ Away(SeenReplaced)}
    /\ kick["replaced-notbase"] = {ReplacedLine(p) : p \in Away(SeenReplaced)}
    /\ \A p \in Away(SeenReplaced) : <<Replaced, "high", p>> \in risks

ReplacedLoop ==
    /\ todo \subseteq NativeList
    /\ loc.found <=> SeenReplaced # {}
    /\ loc.status = IF Away(SeenReplaced) = {} THEN "informational" ELSE "fail"
    /\ loc.other = Chans(Away(SeenReplaced))
    /\ loc.removeme = SeenReplaced

ReplacedExit ==
    /\ ReplacedFiles \subseteq sorted
    /\ result[Replaced] = "fail" <=> Away(SeenReplaced) # {}
    /\ result[Replaced] = "pass" <=> SeenReplaced = {}
    /\ CanName => sol[Replaced].subs = Chans(Away(SeenReplaced))
    /\ upgrade => fixplan.written /\ fixplan.removeme = SeenReplaced

ReplacedInv ==
    /\ Current(Replaced) => ReplacedLists
    /\ active = Replaced => ReplacedLoop
    /\ result[Replaced] \in Finished => ReplacedExit

----------------------------------------------------------------------------
(* ObsoletedPackages                                                       *)

SeenObsoleted == Seen(Obsoleted, "obsoleted")

ObsoletedLists ==
    \A f \in ObsoletedFiles :
        /\ kick[f] = {ObsoletedLine(p) : p \in {q \in SeenObsoleted : ObsoletedFile(q) = f}}
        /\ kick[f] # {} => f \in exists

ObsoletedLoop ==
    /\ todo \subseteq Listed("obsoleted")
    /\ loc.found <=> SeenObsoleted # {}
    /\ loc.other = Chans(Away(SeenObsoleted))

ObsoletedExit ==
    /\ exists \cap ObsoletedFiles \subseteq sorted
    /\ result[Obsoleted] = "fail" <=> SeenObsoleted # {}
    /\ CanName => sol[Obsoleted].subs = Chans(Away(SeenObsoleted))

ObsoletedInv ==
    /\ Current(Obsoleted) => ObsoletedLists
    /\ active = Obsoleted => ObsoletedLoop
    /\ result[Obsoleted] \in Finished => ObsoletedExit

----------------------------------------------------------------------------
(* RemovedPackages                                                         *)

SeenRemoved == Seen(Removed, "removed")

RemovedLoop ==
    /\ loc.found => sol[Removed].lines # {}
    /\ SeenRemoved # {} /\ "commondir" \in readable => loc.found
    /\ "commondir" \in readable =>
         \A p \in SeenRemoved : RemovedLine(p) \in sol[Removed].lines

RemovedExit ==
    /\ result[Removed] = "fail" => \E f \in RemovedFiles : kick[f] # {}
    /\ "commondir" \in readable =>
         \A p \in SeenRemoved : \E f \in RemovedFiles \cap exists : RemovedLine(p) \in kick[f]

RemovedInv ==
    /\ active = Removed => RemovedLoop
    /\ result[Removed] \in Finished => RemovedExit

----------------------------------------------------------------------------
(* notbase-channel                                                         *)

SeenKept == Seen(NotBaseCh, "kept")
OptionalOnly == \A p \in Away(SeenKept) : Change[p].chan = Optional
Unsupported == <<NotBaseCh, "high", "unsupported">>

NotBaseLists ==
    /\ kick["kept"] = {KeptLine(p) : p \in SeenKept \ Away(SeenKept)}
    /\ kick["kept-notbase"] = {KeptLine(p) : p \in Away(SeenKept)}
    /\ \A f \in KeptFiles : kick[f] # {} => f \in exists

(* The loops come in their order.                                          *)
NotBaseLoops ==
    /\ todo \subseteq {p \in Listed("kept") : ~Ignored(p)}
    /\ \A p \in SeenKept, q \in todo : NotBaseLoop(p) <= NotBaseLoop(q)
    /\ loc.found <=> Away(SeenKept) # {}
    /\ loc.other = Chans(Away(SeenKept))
    /\ loc.other # {} => (loc.last = Optional <=> OptionalOnly)
    /\ sol[NotBaseCh].subs = {}

NotBaseExit ==
    /\ exists \cap KeptFiles \subseteq sorted
    /\ result[NotBaseCh] = "fail" <=> Away(SeenKept) # {}
    /\ CanName => sol[NotBaseCh].subs = Chans(Away(SeenKept))
    /\ upgrade => (Unsupported \in risks <=> ~OptionalOnly)

NotBaseInv ==
    /\ Current(NotBaseCh) => NotBaseLists
    /\ active = NotBaseCh => NotBaseLoops
    /\ result[NotBaseCh] \in Finished => NotBaseExit
    /\ result[NotBaseCh] \notin Finished => Unsupported \notin risks

IInv ==
    /\ TypeOK /\ Control
    /\ ReplacedInv /\ ObsoletedInv /\ RemovedInv /\ NotBaseInv

----------------------------------------------------------------------------
(* What every step of a check leaves to the others: the system, their      *)
(* results, lists, advice and risks, and the generated script.             *)
StepOf(c) ==
    /\ UNCHANGED <<system, mode>>
    /\ active \in {Idle, c} /\ active' \in {Idle, c}
    /\ \A d \in Checks \ {c} : result'[d] = result[d] /\ sol'[d] = sol[d]
    /\ \A f \in Files \ FilesOf(c) :
          /\ kick'[f] = kick[f]
          /\ f \in exists' <=> f \in exists
          /\ f \in sorted' <=> f \in sorted
    /\ risks \subseteq risks'
    /\ c # Replaced => fixplan' = fixplan
    /\ c # NotBaseCh => (Unsupported \in risks' <=> Unsupported \in risks)

(* The same, as the check d sees it.                                       *)
Leaves(d) ==
    /\ UNCHANGED <<system, mode>>
    /\ active # d /\ active' # d
    /\ result'[d] = result[d] /\ sol'[d] = sol[d]
    /\ \A f \in FilesOf(d) :
          /\ kick'[f] = kick[f]
          /\ f \in exists' <=> f \in exists
          /\ f \in sorted' <=> f \in sorted
    /\ risks \subseteq risks'
    /\ d = Replaced => fixplan' = fixplan
    /\ d = NotBaseCh => (Unsupported \in risks' <=> Unsupported \in risks)

USE DEF Replaced, Obsoleted, Removed, NotBaseCh, Idle

LEMMA FilesApart ==
    ASSUME NEW c \in Checks, NEW d \in Checks \ {c}
    PROVE  FilesOf(d) \subseteq Files \ FilesOf(c)
BY DEF Checks, Files, FilesOf, ReplacedFiles, ObsoletedFiles, KeptFiles, RemovedFiles

LEMMA StepLeaves ==
    ASSUME NEW c \in Checks, StepOf(c), NEW d \in Checks \ {c}
    PROVE  Leaves(d)
<1>1. FilesOf(d) \subseteq Files \ FilesOf(c)
  BY FilesApart
<1>2. active # d /\ active' # d
  BY DEF StepOf, Checks
<1>3. d = Replaced => c # Replaced
  OBVIOUS
<1> QED BY <1>1, <1>2, <1>3 DEF StepOf, Leaves

(* What is to be reported, and the lines, follow from the system.          *)
LEMMA SameSystem ==
    ASSUME UNCHANGED <<system, mode>>
    PROVE  /\ NativeList' = NativeList
           /\ \A kind \in Kinds : Reported(kind)' = Reported(kind)
           /\ \A p \in Pkg : /\ ReplacedLine(p)' = ReplacedLine(p)
                             /\ ObsoletedLine(p)' = ObsoletedLine(p)
                             /\ RemovedLine(p)' = RemovedLine(p)
                             /\ KeptLine(p)' = KeptLine(p)
                             /\ ObsoletedFile(p)' = ObsoletedFile(p)
<1> USE DEF system, mode
<1>1. NativeList' = NativeList
  BY DEF NativeList
<1>2. \A kind \in Kinds : Reported(kind)' = Reported(kind)
  BY <1>1 DEF Reported
<1>3. \A p \in Pkg : RepoFor(p)' = RepoFor(p)
  BY DEF RepoFor
<1>4. \A p \in Pkg : /\ ReplacedLine(p)' = ReplacedLine(p)
                     /\ ObsoletedLine(p)' = ObsoletedLine(p)
                     /\ RemovedLine(p)' = RemovedLine(p)
                     /\ KeptLine(p)' = KeptLine(p)
  BY <1>3 DEF ReplacedLine, ObsoletedLine, RemovedLine, KeptLine
<1>5. \A p \in Pkg : ObsoletedFile(p)' = ObsoletedFile(p)
  BY DEF ObsoletedFile
<1> QED BY <1>1, <1>2, <1>4, <1>5

LEMMA SeenByAnother ==
    ASSUME UNCHANGED <<system, mode>>, NEW c \in Checks, NEW kind \in Kinds,
           active # c, active' # c
    PROVE  Seen(c, kind)' = Seen(c, kind)
BY SameSystem DEF Seen

LEMMA SeenArePackages ==
    ASSUME native \subseteq Pkg, NEW c, NEW kind
    PROVE  /\ NativeList \subseteq Pkg
           /\ Reported(kind) \subseteq Pkg
           /\ Seen(c, kind) \subseteq Pkg
BY DEF NativeList, Reported, Seen

LEMMA ReplacedLeft ==
    ASSUME TypeOK, ReplacedInv, Leaves(Replaced)
    PROVE  ReplacedInv'
<1> USE DEF Leaves, system, mode
<1>1. SeenReplaced' = SeenReplaced /\ SeenReplaced \subseteq Pkg
  BY SeenByAnother, SeenArePackages DEF SeenReplaced, Checks, Kinds, TypeOK
<1>2. Away(SeenReplaced)' = Away(SeenReplaced)
  BY <1>1 DEF Away
<1>3. \A p \in Pkg : ReplacedLine(p)' = ReplacedLine(p)
  BY SameSystem
<1>4. FilesOf(Replaced) = {"replaced", "replaced-notbase"}
  BY DEF FilesOf, ReplacedFiles
<1>5. Current(Replaced)' = Current(Replaced)
  BY DEF Current
<1>6. ReplacedLists => ReplacedLists'
  BY <1>1, <1>2, <1>3, <1>4 DEF ReplacedLists, ReplacedFiles, Away
<1>7. ReplacedExit => ReplacedExit'
  BY <1>1, <1>2, <1>4 DEF ReplacedExit, ReplacedFiles, CanName, mode, Chans, Away
<1> QED BY <1>5, <1>6, <1>7 DEF ReplacedInv

LEMMA ObsoletedLeft ==
    ASSUME TypeOK, ObsoletedInv, Leaves(Obsoleted)
    PROVE  ObsoletedInv'
<1> USE DEF Leaves, system, mode
<1>1. SeenObsoleted' = SeenObsoleted /\ SeenObsoleted \subseteq Pkg
  BY SeenByAnother, SeenArePackages DEF SeenObsoleted, Checks, Kinds, TypeOK
<1>2. \A p \in Pkg : ObsoletedLine(p)' = ObsoletedLine(p) /\ ObsoletedFile(p)' = ObsoletedFile(p)
  BY SameSystem
<1>3. FilesOf(Obsoleted) = ObsoletedFiles
  BY DEF FilesOf
<1>4. Current(Obsoleted)' = Current(Obsoleted)
  BY DEF Current
<1>5. ObsoletedLists => ObsoletedLists'
  BY <1>1, <1>2, <1>3 DEF ObsoletedLists
<1>6. ObsoletedExit => ObsoletedExit'
  BY <1>1, <1>3 DEF ObsoletedExit, CanName, mode, Chans, Away
<1> QED BY <1>4, <1>5, <1>6 DEF ObsoletedInv

LEMMA RemovedLeft ==
    ASSUME TypeOK, RemovedInv, Leaves(Removed)
    PROVE  RemovedInv'
<1> USE DEF Leaves, system, mode
<1>1. SeenRemoved' = SeenRemoved /\ SeenRemoved \subseteq Pkg
  BY SeenByAnother, SeenArePackages DEF SeenRemoved, Checks, Kinds, TypeOK
<1>2. \A p \in Pkg : RemovedLine(p)' = RemovedLine(p)
  BY SameSystem
<1>3. FilesOf(Removed) = RemovedFiles
  BY DEF FilesOf
<1>4. RemovedExit => RemovedExit'
  BY <1>1, <1>2, <1>3 DEF RemovedExit
<1> QED BY <1>4 DEF RemovedInv

LEMMA NotBaseLeft ==
    ASSUME TypeOK, NotBaseInv, Leaves(NotBaseCh)
    PROVE  NotBaseInv'
<1> USE DEF Leaves, system, mode
<1>1. SeenKept' = SeenKept /\ SeenKept \subseteq Pkg
  BY SeenByAnother, SeenArePackages DEF SeenKept, Checks, Kinds, TypeOK
<1>2. \A p \in Pkg : KeptLine(p)' = KeptLine(p)
  BY SameSystem
<1>3. FilesOf(NotBaseCh) = KeptFiles /\ {"kept", "kept-notbase"} \subseteq KeptFiles
  BY DEF FilesOf, KeptFiles
<1>4. Current(NotBaseCh)' = Current(NotBaseCh)
  BY DEF Current
<1>5. NotBaseLists => NotBaseLists'
  BY <1>1, <1>2, <1>3 DEF NotBaseLists, Away
<1>6. NotBaseExit => NotBaseExit'
  BY <1>1, <1>3 DEF NotBaseExit, CanName, mode, Chans, Away, OptionalOnly
<1> QED BY <1>4, <1>5, <1>6 DEF NotBaseInv

(* A step of a check keeps what is known of the others, which leaves four  *)
(* things to show of it.                                                   *)
LEMMA StepKeeps ==
    ASSUME IInv, NEW c \in Checks, StepOf(c), TypeOK', Control',
           c = Replaced => ReplacedInv', c = Obsoleted => ObsoletedInv',
           c = Removed => RemovedInv', c = NotBaseCh => NotBaseInv'
    PROVE  IInv'
<1>1. \A d \in Checks \ {c} : Leaves(d)
  BY StepLeaves
<1>2. {Replaced, Obsoleted, Removed, NotBaseCh} \subseteq Checks
  BY DEF Checks
<1> QED BY <1>1, <1>2, ReplacedLeft, ObsoletedLeft, RemovedLeft, NotBaseLeft DEF IInv

----------------------------------------------------------------------------
(* Types of the parts.                                                     *)
LEMMA LinesTyped ==
    ASSUME TypeOK, NEW p \in Pkg
    PROVE  /\ Change[p].chan \in Channels
           /\ ReplacedLine(p) \in Line /\ ObsoletedLine(p) \in Line
           /\ [ReplacedLine(p) EXCEPT !.req = LastOf(RequiredBy(p, foreign))] \in Line
           /\ RemovedLine(p) \in Line /\ KeptLine(p) \in Line
<1>1. Change[p].chan \in Channels /\ Change[p].by \subseteq Pkg \cup NewPkg
  BY TablesAssumption DEF Entry
<1>2. RepoFor(p) \in Channels \cup {NoRepo}
  BY <1>1 DEF RepoFor, RepoId
<1>3. RequiredBy(p, foreign) \subseteq Pkg
  BY DEF TypeOK, RequiredBy
<1>4. LastOf(RequiredBy(p, foreign)) \subseteq Pkg
  BY <1>3 DEF LastOf
<1> QED BY <1>1, <1>2, <1>3, <1>4 DEF ReplacedLine, ObsoletedLine, RemovedLine, KeptLine, Line

Locals == [found : BOOLEAN, status : Results, other : SUBSET Channels,
           last : Channels, removeme : SUBSET Pkg]
Solution == [lines : SUBSET Line, subs : SUBSET Channels,
             addrepo : BOOLEAN, unsupported : BOOLEAN]

LEMMA EmptyTyped ==
    /\ NoLocals \in Locals
    /\ EmptySolution \in Solution
    /\ NoPlan \in [written : BOOLEAN, missing : SUBSET Pkg, removeme : SUBSET Pkg]
    /\ NoCleanup \in [written : BOOLEAN, names : SUBSET Pkg]
BY DEF NoLocals, EmptySolution, NoPlan, NoCleanup, Locals, Solution, Results, Channels

Risk == Checks \X {"slight", "medium", "high"} \X (Pkg \cup Notes)

(* A package has a risk of its own; no package is "unsupported".           *)
LEMMA RisksTyped ==
    /\ TypeOK => risks \subseteq Risk
    /\ \A c \in Checks, level \in {"slight", "medium", "high"}, p \in Pkg :
         <<c, level, p>> \in Risk /\ <<c, level, p>> # Unsupported
    /\ \A c \in Checks, level \in {"slight", "medium", "high"} : <<c, level, "summary">> \in Risk
    /\ Unsupported \in Risk
    /\ \A c, level, p : Unsupported = <<c, level, p>> => c = NotBaseCh /\ p = "unsupported"
<1>1. TypeOK => risks \subseteq Risk
  BY DEF TypeOK, Risk
<1>2. \A p \in Pkg : p # "unsupported"
  BY AssessmentAssumption
<1>3. \A c, level, p : Unsupported = <<c, level, p>> => c = NotBaseCh /\ p = "unsupported"
  BY DEF Unsupported
<1>4. \A c \in Checks, level \in {"slight", "medium", "high"}, p \in Pkg :
         <<c, level, p>> \in Risk /\ <<c, level, p>> # Unsupported
  BY <1>2, <1>3 DEF Risk
<1>5. \A c \in Checks, level \in {"slight", "medium", "high"} : <<c, level, "summary">> \in Risk
  BY DEF Risk, Notes
<1>6. Unsupported \in Risk
  BY DEF Unsupported, Risk, Notes, Checks
<1> QED BY <1>1, <1>3, <1>4, <1>5, <1>6

(* A script that gives up changes its result only.                         *)
LEMMA AbortKeeps ==
    ASSUME IInv, NEW c \in Checks, Ready(c), Abort(c)
    PROVE  IInv'
<1> USE DEF Ready, Abort, system, mode, outputs
<1>1. result' = [result EXCEPT ![c] = "error"] /\ result \in [Checks -> Results]
  BY DEF IInv, TypeOK
<1>2. TypeOK'
  BY <1>1 DEF IInv, TypeOK, Results
<1>3. Control'
  BY DEF Control
<1>4. StepOf(c)
  BY <1>1 DEF StepOf
<1>5. result'[c] = "error" /\ active' = Idle
  BY <1>1
<1>6. c = NotBaseCh => Unsupported \notin risks'
  BY DEF IInv, NotBaseInv, Finished
<1>7. /\ c = Replaced => ReplacedInv'
      /\ c = Obsoleted => ObsoletedInv'
      /\ c = Removed => RemovedInv'
      /\ c = NotBaseCh => NotBaseInv'
  BY <1>5, <1>6 DEF ReplacedInv, ObsoletedInv, RemovedInv, NotBaseInv, Current, Finished
<1> QED BY <1>2, <1>3, <1>4, <1>7, StepKeeps

(* What the lists say at the beginning: nothing has been read.             *)
LEMMA NothingSeen ==
    ASSUME NEW c, NEW kind, active' = c, Reported(kind)' \subseteq todo'
    PROVE  Seen(c, kind)' = {}
BY DEF Seen

LEMMA BeginControl ==
    ASSUME NEW c \in Checks, Ready(c), NEW work, Begin(c, work)
    PROVE  Control' /\ result'[c] = "none" /\ active = Idle /\ active' = c
BY DEF Ready, Begin, Control, Checks

----------------------------------------------------------------------------
(* The steps of ReplacedPackages.                                          *)

(* A check that begins finds an idle run, and keeps what the others wrote. *)
LEMMA BeginKeeps ==
    ASSUME IInv, NEW c \in Checks, Ready(c),
           NEW work \in SUBSET Pkg, Begin(c, work),
           sol' = [sol EXCEPT ![c] = EmptySolution],
           risks' = risks, fixplan' = fixplan,
           NEW fs \in SUBSET FilesOf(c), NEW created \in SUBSET fs,
           Wipe(fs, created) \/ (fs = {} /\ UNCHANGED <<kick, exists, sorted>>),
           cleanplan' \in [written : BOOLEAN, names : SUBSET Pkg], rpmlist' \in BOOLEAN
    PROVE  TypeOK' /\ StepOf(c)
<1> USE DEF Ready, Begin, Wipe, system, mode
<1>1. FilesOf(c) \subseteq Files
  BY DEF Checks, Files, FilesOf, ReplacedFiles, ObsoletedFiles, KeptFiles, RemovedFiles
<1>2. /\ kick' \in [Files -> SUBSET Line] /\ exists' \subseteq Files /\ sorted' \subseteq Files
      /\ \A f \in Files \ FilesOf(c) :
            /\ kick'[f] = kick[f]
            /\ f \in exists' <=> f \in exists
            /\ f \in sorted' <=> f \in sorted
  BY <1>1 DEF IInv, TypeOK
<1>3. sol \in [Checks -> Solution]
  BY DEF IInv, TypeOK, Solution
<1>4. sol' \in [Checks -> Solution] /\ \A d \in Checks \ {c} : sol'[d] = sol[d]
  BY <1>3, EmptyTyped
<1>5. loc' \in Locals
  BY EmptyTyped
<1>6. TypeOK'
  BY <1>2, <1>4, <1>5 DEF IInv, TypeOK, Locals, Solution
<1>7. StepOf(c)
  BY <1>2, <1>4 DEF StepOf
<1> QED BY <1>6, <1>7

LEMMA ReplacedBeginKeeps ==
    ASSUME IInv, ReplacedBegin
    PROVE  IInv'
<1> USE DEF ReplacedBegin
<1>1. NativeList \subseteq Pkg /\ Replaced \in Checks
  BY DEF IInv, TypeOK, NativeList, Checks
<1>2. FilesOf(Replaced) = ReplacedFiles /\ {"replaced", "replaced-notbase"} = ReplacedFiles
  BY DEF FilesOf, ReplacedFiles
<1>3. TypeOK' /\ StepOf(Replaced)
  <2>1. cleanplan' \in [written : BOOLEAN, names : SUBSET Pkg] /\ rpmlist' \in BOOLEAN
    BY DEF IInv, TypeOK
  <2> QED BY <1>1, <1>2, <2>1, BeginKeeps
<1>4. Control' /\ result'[Replaced] = "none" /\ active' = Replaced
  BY <1>1, BeginControl
<1>5. SeenReplaced' = {}
  <2>1. UNCHANGED <<system, mode>> /\ todo' = NativeList
    BY DEF Begin
  <2>2. Reported("replaced")' \subseteq todo'
    BY <2>1, SameSystem DEF Reported
  <2> QED BY <1>4, <2>2, NothingSeen DEF SeenReplaced
<1>6. Away(SeenReplaced)' = {} /\ Chans(Away(SeenReplaced))' = {}
  BY <1>5 DEF Away, Chans
<1>7. ReplacedLists'
  <2>1. kick'["replaced"] = {} /\ kick'["replaced-notbase"] = {} /\ ReplacedFiles \subseteq exists'
    BY <1>2 DEF Wipe, Files
  <2>2. readable' = readable
    BY DEF Begin, mode
  <2> QED BY <2>1, <2>2, <1>5, <1>6 DEF ReplacedLists
<1>8. ReplacedLoop'
  BY <1>5, <1>6, SameSystem DEF ReplacedLoop, Begin, NoLocals
<1>9. ReplacedInv'
  BY <1>4, <1>7, <1>8 DEF ReplacedInv, Finished
<1> QED BY <1>1, <1>3, <1>4, <1>9, StepKeeps

(* A turn of a loop adds its package to those seen, if it is to be         *)
(* reported.                                                               *)
LEMMA SeenGrows ==
    ASSUME UNCHANGED <<system, mode>>, NEW c \in Checks, NEW kind \in Kinds,
           active = c, active' = c, NEW p \in todo, todo' = todo \ {p}
    PROVE  Seen(c, kind)' = Seen(c, kind) \cup ({p} \cap Reported(kind))
BY SameSystem DEF Seen

LEMMA AwayGrows ==
    ASSUME NEW S, NEW p
    PROVE  /\ NotBase(p) => /\ Away(S \cup {p}) = Away(S) \cup {p}
                            /\ Chans(Away(S \cup {p})) = Chans(Away(S)) \cup {Change[p].chan}
           /\ ~NotBase(p) => Away(S \cup {p}) = Away(S)
<1>1. NotBase(p) => Away(S \cup {p}) = Away(S) \cup {p}
  BY DEF Away
<1>2. Chans(Away(S) \cup {p}) = Chans(Away(S)) \cup {Change[p].chan}
  BY DEF Chans
<1>3. ~NotBase(p) => Away(S \cup {p}) = Away(S)
  BY DEF Away
<1> QED BY <1>1, <1>2, <1>3

(* A line is put into a list of the check.                                 *)
LEMMA PutTyped ==
    ASSUME TypeOK, NEW f \in Files, NEW line \in Line, Put(f, line)
    PROVE  /\ kick' \in [Files -> SUBSET Line] /\ exists' \subseteq Files
           /\ kick'[f] = kick[f] \cup {line} /\ exists' = exists \cup {f}
           /\ \A g \in Files \ {f} : kick'[g] = kick[g]
BY DEF TypeOK, Put

LEMMA ReplacedPkgKeeps ==
    ASSUME IInv, NEW p \in Pkg, ReplacedPkg(p)
    PROVE  IInv'
<1> DEFINE counts == Change[p].kind = "replaced" /\ ~Ignored(p)
           file == IF NotBase(p) THEN "replaced-notbase" ELSE "replaced"
<1>0. IF counts
        THEN /\ Put(file, ReplacedLine(p))
             /\ loc' = [loc EXCEPT
                   !.found = TRUE,
                   !.status = IF NotBase(p) THEN "fail" ELSE @,
                   !.other = IF NotBase(p) THEN @ \cup {Change[p].chan} ELSE @,
                   !.removeme = @ \cup {p}]
             /\ sol' = [sol EXCEPT ![Replaced].lines = @ \cup
                   {[ReplacedLine(p) EXCEPT !.req = LastOf(RequiredBy(p, foreign))]}]
             /\ risks' = risks \cup ReplacedRisks(p)
        ELSE UNCHANGED <<kick, exists, loc, sol, risks>>
  BY DEF ReplacedPkg
<1>1. /\ TypeOK /\ Replaced \in Checks
      /\ active = Replaced /\ active' = Replaced /\ p \in todo /\ todo' = todo \ {p}
      /\ UNCHANGED <<system, mode, run, killed, sorted, fixplan, result>>
      /\ UNCHANGED <<cleanplan, rpmlist>> /\ result[Replaced] = "none"
  BY DEF IInv, Checks, Control, ReplacedPkg
<1>2. ReplacedLists /\ ReplacedLoop
  BY <1>1 DEF IInv, ReplacedInv, Current
<1>3. FilesOf(Replaced) = {"replaced", "replaced-notbase"} /\ FilesOf(Replaced) \subseteq Files
      /\ ReplacedFiles = {"replaced", "replaced-notbase"}
  BY DEF FilesOf, ReplacedFiles, Files
<1> HIDE DEF file
<1>4. counts <=> p \in Reported("replaced")
  BY <1>1, <1>2 DEF ReplacedLoop, Reported
<1>5. SeenReplaced' = IF counts THEN SeenReplaced \cup {p} ELSE SeenReplaced
  BY <1>1, <1>4, SeenGrows DEF SeenReplaced, Kinds
<1>6. \A q \in Pkg : ReplacedLine(q)' = ReplacedLine(q)
  BY <1>1, SameSystem
<1>7. SeenReplaced \subseteq Pkg
  BY <1>1, SeenArePackages DEF TypeOK, SeenReplaced
<1>a. file \in {"replaced", "replaced-notbase"} /\ (file = "replaced-notbase" <=> NotBase(p))
  BY DEF file
<1>8. CASE counts
  <2>1. /\ kick' \in [Files -> SUBSET Line] /\ exists' \subseteq Files
        /\ kick'[file] = kick[file] \cup {ReplacedLine(p)} /\ exists' = exists \cup {file}
        /\ \A g \in Files \ {file} : kick'[g] = kick[g]
    BY <1>0, <1>1, <1>3, <1>a, <1>8, LinesTyped, PutTyped
  <2>2. loc' \in Locals /\ sol' \in [Checks -> Solution]
        /\ \A d \in Checks \ {Replaced} : sol'[d] = sol[d]
    <3>1. loc \in Locals /\ sol \in [Checks -> Solution]
      BY <1>1 DEF TypeOK, Locals, Solution
    <3>2. Change[p].chan \in Channels
          /\ [ReplacedLine(p) EXCEPT !.req = LastOf(RequiredBy(p, foreign))] \in Line
      BY <1>1, LinesTyped
    <3>3. loc' \in Locals
      <4> DEFINE status == IF NotBase(p) THEN "fail" ELSE loc.status
                 other == IF NotBase(p) THEN loc.other \cup {Change[p].chan} ELSE loc.other
      <4>1. /\ status \in Results /\ other \in SUBSET Channels
            /\ loc.removeme \cup {p} \in SUBSET Pkg
        BY <3>1, <3>2 DEF Locals, Results
      <4>2. loc' = [loc EXCEPT !.found = TRUE, !.status = status, !.other = other,
                               !.removeme = loc.removeme \cup {p}]
        BY <1>0, <1>8
      <4> HIDE DEF status, other
      <4> QED BY <4>1, <4>2, <3>1 DEF Locals
    <3>4. sol' \in [Checks -> Solution] /\ \A d \in Checks \ {Replaced} : sol'[d] = sol[d]
      BY <3>1, <3>2, <1>0, <1>1, <1>8 DEF Solution
    <3> QED BY <3>3, <3>4
  <2>3. risks' = risks \cup ReplacedRisks(p)
    BY <1>0, <1>8
  <2>4. /\ ReplacedRisks(p) \subseteq {<<Replaced, "slight", p>>, <<Replaced, "high", p>>}
        /\ NotBase(p) => <<Replaced, "high", p>> \in ReplacedRisks(p)
    BY DEF ReplacedRisks
  <2>a. \A level \in {"slight", "high"} :
          <<Replaced, level, p>> \in Risk /\ <<Replaced, level, p>> # Unsupported
    BY <1>1, RisksTyped
  <2>5. TypeOK'
    <3>1. risks' \subseteq Risk
      BY <1>1, <2>3, <2>4, <2>a, RisksTyped
    <3> QED BY <1>1, <2>1, <2>2, <3>1 DEF TypeOK, Locals, Solution, Risk, system, mode
  <2>6. Unsupported \in risks' <=> Unsupported \in risks
    BY <2>3, <2>4, <2>a
  <2>7. StepOf(Replaced)
    BY <1>1, <1>3, <1>a, <2>1, <2>2, <2>3, <2>6 DEF StepOf
  <2>8. SeenReplaced' = SeenReplaced \cup {p}
    BY <1>5, <1>8
  <2>9. /\ NotBase(p) => /\ Away(SeenReplaced)' = Away(SeenReplaced) \cup {p}
                         /\ Chans(Away(SeenReplaced))' = Chans(Away(SeenReplaced)) \cup {Change[p].chan}
        /\ ~NotBase(p) => /\ Away(SeenReplaced)' = Away(SeenReplaced)
                          /\ Chans(Away(SeenReplaced))' = Chans(Away(SeenReplaced))
    <3>1. Away(SeenReplaced)' = Away(SeenReplaced \cup {p})
      BY <2>8 DEF Away
    <3>2. Chans(Away(SeenReplaced))' = Chans(Away(SeenReplaced \cup {p}))
      BY <3>1 DEF Chans
    <3> QED BY <3>1, <3>2, AwayGrows
  <2>10. ReplacedLists'
    <3>1. ReplacedInputs' \subseteq readable' /\ ReplacedFiles \subseteq exists'
      BY <1>1, <1>2, <1>a, <2>1 DEF ReplacedLists, mode
    <3>2. kick'["replaced"] = {ReplacedLine(q)' : q \in SeenReplaced' \ Away(SeenReplaced)'}
      <4>1. CASE NotBase(p)
        <5>1. SeenReplaced' \ Away(SeenReplaced)' = SeenReplaced \ Away(SeenReplaced)
          BY <4>1, <2>8, <2>9 DEF Away
        <5> QED BY <5>1, <4>1, <2>1, <1>a, <1>2, <1>3, <1>6, <1>7 DEF ReplacedLists
      <4>2. CASE ~NotBase(p)
        <5>1. SeenReplaced' \ Away(SeenReplaced)' = (SeenReplaced \ Away(SeenReplaced)) \cup {p}
          BY <4>2, <2>8, <2>9 DEF Away
        <5> QED BY <5>1, <4>2, <2>1, <1>a, <1>2, <1>3, <1>6, <1>7 DEF ReplacedLists
      <4> QED BY <4>1, <4>2
    <3>3. kick'["replaced-notbase"] = {ReplacedLine(q)' : q \in Away(SeenReplaced)'}
      BY <2>1, <2>9, <1>a, <1>2, <1>3, <1>6, <1>7 DEF ReplacedLists, Away
    <3>4. \A q \in Away(SeenReplaced)' : <<Replaced, "high", q>> \in risks'
      <4> DEFINE High(q) == <<Replaced, "high", q>> \in risks
      <4>1. \A q \in Away(SeenReplaced) : High(q)
        BY <1>2 DEF ReplacedLists
      <4>2. NotBase(p) => High(p)'
        BY <2>3, <2>4
      <4>3. \A q : High(q) => High(q)'
        BY <2>3
      <4> HIDE DEF High
      <4>4. \A q \in Away(SeenReplaced)' : High(q)'
        BY <2>9, <4>1, <4>2, <4>3
      <4> QED BY <4>4 DEF High
    <3> QED BY <3>1, <3>2, <3>3, <3>4 DEF ReplacedLists
  <2>11. ReplacedLoop'
    <3>1. /\ loc'.found
          /\ loc'.removeme = loc.removeme \cup {p}
          /\ loc'.status = IF NotBase(p) THEN "fail" ELSE loc.status
          /\ loc'.other = IF NotBase(p) THEN loc.other \cup {Change[p].chan} ELSE loc.other
      <4>1. loc \in Locals
        BY <1>1 DEF TypeOK, Locals
      <4> QED BY <4>1, <1>0, <1>8 DEF Locals
    <3>2. NativeList' = NativeList
      BY <1>1, SameSystem
    <3>3. todo' \subseteq NativeList'
      BY <1>1, <1>2, <3>2 DEF ReplacedLoop
    <3>4. loc'.status = IF Away(SeenReplaced)' = {} THEN "informational" ELSE "fail"
      BY <1>2, <2>9, <3>1 DEF ReplacedLoop
    <3>5. /\ loc'.found <=> SeenReplaced' # {}
          /\ loc'.other = Chans(Away(SeenReplaced))'
          /\ loc'.removeme = SeenReplaced'
      BY <1>2, <2>8, <2>9, <3>1 DEF ReplacedLoop
    <3> QED BY <3>3, <3>4, <3>5 DEF ReplacedLoop
  <2>12. Control' /\ ReplacedInv'
    BY <1>1, <2>10, <2>11 DEF Control, ReplacedInv, Finished, IInv
  <2> QED BY <1>1, <2>5, <2>7, <2>12, StepKeeps
<1>9. CASE ~counts
  <2>1. UNCHANGED <<kick, exists, loc, sol, risks>>
    BY <1>0, <1>9
  <2>2. TypeOK' /\ StepOf(Replaced)
    BY <1>1, <2>1 DEF TypeOK, StepOf, system, mode
  <2>3. SeenReplaced' = SeenReplaced /\ NativeList' = NativeList
    BY <1>1, <1>5, <1>9, SameSystem
  <2>4. ReplacedLists' /\ ReplacedLoop'
    <3>1. Away(SeenReplaced)' = Away(SeenReplaced)
      BY <2>3 DEF Away
    <3>2. ReplacedLists'
      BY <1>1, <1>2, <1>6, <1>7, <2>1, <2>3, <3>1 DEF ReplacedLists, mode, Away
    <3>3. ReplacedLoop'
      BY <1>1, <1>2, <2>1, <2>3, <3>1 DEF ReplacedLoop, Chans
    <3> QED BY <3>2, <3>3
  <2>5. Control' /\ ReplacedInv'
    BY <1>1, <2>4 DEF Control, ReplacedInv, Finished, IInv
  <2> QED BY <1>1, <2>2, <2>5, StepKeeps
<1> QED BY <1>8, <1>9

(* A script that exits: what it still changes, and what it leaves.         *)
LEMMA ExitKeeps ==
    ASSUME IInv, NEW c \in Checks, active = c, NEW r \in Results, Exit(c, r),
           kick' \in [Files -> SUBSET Line], exists' \subseteq Files, sorted' \subseteq Files,
           \A f \in Files \ FilesOf(c) :
              /\ kick'[f] = kick[f]
              /\ f \in exists' <=> f \in exists
              /\ f \in sorted' <=> f \in sorted,
           sol' \in [Checks -> Solution], \A d \in Checks \ {c} : sol'[d] = sol[d],
           risks \subseteq risks', risks' \subseteq Risk,
           c # NotBaseCh => (Unsupported \in risks' <=> Unsupported \in risks),
           fixplan' \in [written : BOOLEAN, missing : SUBSET Pkg, removeme : SUBSET Pkg],
           c # Replaced => fixplan' = fixplan, UNCHANGED <<cleanplan, rpmlist>>
    PROVE  /\ TypeOK' /\ Control' /\ StepOf(c)
           /\ active' = Idle /\ result'[c] = r
<1> USE DEF Exit, system, mode
<1>1. result' = [result EXCEPT ![c] = r] /\ result \in [Checks -> Results]
  BY DEF IInv, TypeOK
<1>2. /\ result' \in [Checks -> Results] /\ result'[c] = r
      /\ \A d \in Checks \ {c} : result'[d] = result[d]
  BY <1>1
<1>3. loc' \in Locals
  BY EmptyTyped
<1>4. TypeOK'
  BY <1>2, <1>3 DEF IInv, TypeOK, Locals, Solution, Risk
<1>5. StepOf(c)
  BY <1>2 DEF StepOf
<1> QED BY <1>2, <1>4, <1>5 DEF Control

(* When nothing is left to be read, all has been seen.                     *)
LEMMA AllSeen ==
    ASSUME UNCHANGED <<system, mode>>, NEW c \in Checks, NEW kind \in Kinds,
           active = c, todo = {}, active' = Idle
    PROVE  Seen(c, kind)' = Seen(c, kind)
<1>1. active' # c
  BY DEF Checks
<1> QED BY <1>1, SameSystem DEF Seen

LEMMA SortTyped ==
    ASSUME TypeOK, NEW fs \in SUBSET Files, Sort(fs)
    PROVE  /\ sorted' \subseteq Files /\ exists \cap fs \subseteq sorted'
           /\ \A f \in Files \ fs : f \in sorted' <=> f \in sorted
BY DEF Sort, TypeOK

LEMMA ReplacedEndKeeps ==
    ASSUME IInv, ReplacedEnd
    PROVE  IInv'
<1>1. /\ TypeOK /\ Replaced \in Checks
      /\ active = Replaced /\ todo = {}
      /\ Exit(Replaced, ReplacedResult)
      /\ UNCHANGED <<system, mode, kick, exists, cleanplan, rpmlist>>
  BY DEF IInv, Checks, ReplacedEnd, Exit
<1>2. ReplacedLists /\ ReplacedLoop
  BY <1>1 DEF IInv, ReplacedInv, Current
<1>3. /\ FilesOf(Replaced) = ReplacedFiles /\ ReplacedFiles \subseteq Files
      /\ ReplacedFiles = {"replaced", "replaced-notbase"}
  BY DEF FilesOf, ReplacedFiles, Files
<1>4. /\ loc \in Locals /\ sol \in [Checks -> Solution]
      /\ kick \in [Files -> SUBSET Line] /\ exists \subseteq Files
  BY <1>1 DEF TypeOK, Locals, Solution
<1>5. sorted' \subseteq Files /\ exists \cap ReplacedFiles \subseteq sorted'
      /\ (\A f \in Files \ ReplacedFiles : f \in sorted' <=> f \in sorted)
  BY <1>1, <1>3, SortTyped DEF ReplacedEnd
<1>6. /\ sol' \in [Checks -> Solution] /\ \A d \in Checks \ {Replaced} : sol'[d] = sol[d]
      /\ CanName => sol'[Replaced].subs = IF loc.found THEN loc.other ELSE {}
  <2> DEFINE advice == IF ~loc.found THEN EmptySolution
                       ELSE [sol[Replaced] EXCEPT
                              !.subs = Subscriptions(loc.other),
                              !.addrepo = upgrade /\ Optional \in loc.other,
                              !.unsupported = upgrade /\ loc.other # {}]
  <2>1. sol' = [sol EXCEPT ![Replaced] = advice]
    BY DEF ReplacedEnd
  <2>2. advice \in Solution /\ (CanName => advice.subs = IF loc.found THEN loc.other ELSE {})
    <3> DEFINE subs == Subscriptions(loc.other)
               addrepo == upgrade /\ Optional \in loc.other
               unsupported == upgrade /\ loc.other # {}
    <3>1. subs \in SUBSET Channels /\ addrepo \in BOOLEAN /\ unsupported \in BOOLEAN
      BY <1>1, <1>4 DEF TypeOK, Locals, Subscriptions
    <3>2. sol[Replaced] \in Solution
      BY <1>1, <1>4
    <3>3. advice = IF ~loc.found THEN EmptySolution
                   ELSE [sol[Replaced] EXCEPT !.subs = subs, !.addrepo = addrepo,
                                              !.unsupported = unsupported]
      OBVIOUS
    <3>4. CanName => subs = loc.other
      BY DEF Subscriptions
    <3> HIDE DEF subs, addrepo, unsupported, advice
    <3> QED BY <3>1, <3>2, <3>3, <3>4, EmptyTyped DEF Solution, EmptySolution
  <2> HIDE DEF advice
  <2> QED BY <2>1, <2>2, <1>1, <1>4
<1>7. /\ risks \subseteq risks' /\ risks' \subseteq Risk
      /\ Unsupported \in risks' <=> Unsupported \in risks
  <2>1. \/ risks' = risks \cup {<<Replaced, "slight", "summary">>}
        \/ risks' = risks
    BY DEF ReplacedEnd
  <2>2. <<Replaced, "slight", "summary">> \in Risk /\ <<Replaced, "slight", "summary">> # Unsupported
    BY <1>1, RisksTyped
  <2> QED BY <1>1, <2>1, <2>2, RisksTyped
<1>8. /\ fixplan' \in [written : BOOLEAN, missing : SUBSET Pkg, removeme : SUBSET Pkg]
      /\ upgrade => fixplan'.written /\ fixplan'.removeme = loc.removeme
  <2>1. NotProvided \subseteq Pkg /\ loc.removeme \subseteq Pkg
    BY <1>1, <1>4, SeenArePackages DEF NotProvided, TypeOK, Locals
  <2>2. CASE upgrade
    BY <2>1, <2>2 DEF ReplacedEnd
  <2>3. CASE ~upgrade
    BY <2>3, <1>1 DEF ReplacedEnd, TypeOK
  <2> QED BY <2>2, <2>3
<1>9. /\ ReplacedResult \in Results
      /\ ReplacedResult = "fail" <=> Away(SeenReplaced) # {}
      /\ ReplacedResult = "pass" <=> SeenReplaced = {}
  <2>1. loc.other # {} <=> Away(SeenReplaced) # {}
    BY <1>2 DEF ReplacedLoop, Chans
  <2>2. SeenReplaced = {} => Away(SeenReplaced) = {}
    BY DEF Away
  <2> QED BY <1>2, <2>1, <2>2 DEF ReplacedResult, ReplacedLoop, Results
<1>10. /\ TypeOK' /\ Control' /\ StepOf(Replaced)
       /\ active' = Idle /\ result'[Replaced] = ReplacedResult
  BY <1>1, <1>3, <1>4, <1>5, <1>6, <1>7, <1>8, <1>9, ExitKeeps
<1>11. SeenReplaced' = SeenReplaced /\ SeenReplaced \subseteq Pkg
  BY <1>1, <1>10, AllSeen, SeenArePackages DEF SeenReplaced, Kinds, TypeOK
<1>12. Away(SeenReplaced)' = Away(SeenReplaced) /\ Chans(Away(SeenReplaced))' = Chans(Away(SeenReplaced))
  BY <1>11 DEF Away, Chans
<1>13. ReplacedLists'
  <2>1. \A p \in Pkg : ReplacedLine(p)' = ReplacedLine(p)
    BY <1>1, SameSystem
  <2> QED BY <1>1, <1>2, <1>7, <1>11, <1>12, <2>1 DEF ReplacedLists, mode, Away
<1>14. ReplacedExit'
  <2>1. ReplacedFiles \subseteq sorted'
    BY <1>2, <1>5 DEF ReplacedLists
  <2>2. CanName' => sol'[Replaced].subs = Chans(Away(SeenReplaced))'
    <3>1. SeenReplaced = {} => Chans(Away(SeenReplaced)) = {}
      BY DEF Chans, Away
    <3> QED BY <1>1, <1>2, <1>6, <1>12, <3>1 DEF ReplacedLoop, mode, CanName
  <2>3. upgrade' => fixplan'.written /\ fixplan'.removeme = SeenReplaced'
    BY <1>1, <1>2, <1>8, <1>11 DEF ReplacedLoop, mode
  <2>4. /\ result'[Replaced] = "fail" <=> Away(SeenReplaced)' # {}
        /\ result'[Replaced] = "pass" <=> SeenReplaced' = {}
    BY <1>9, <1>10, <1>11, <1>12
  <2> QED BY <2>1, <2>2, <2>3, <2>4 DEF ReplacedExit
<1>15. ReplacedInv'
  BY <1>10, <1>13, <1>14 DEF ReplacedInv
<1> QED BY <1>1, <1>10, <1>15, StepKeeps

----------------------------------------------------------------------------
(* The steps of ObsoletedPackages.                                         *)

LEMMA ObsoletedBeginKeeps ==
    ASSUME IInv, ObsoletedBegin
    PROVE  IInv'
<1> USE DEF ObsoletedBegin
<1>1. Listed("obsoleted") \subseteq Pkg /\ Obsoleted \in Checks
  BY DEF Listed, Checks
<1>2. FilesOf(Obsoleted) = ObsoletedFiles /\ ObsoletedFiles \subseteq Files
  BY DEF FilesOf, Files
<1>3. TypeOK' /\ StepOf(Obsoleted)
  <2>1. cleanplan' \in [written : BOOLEAN, names : SUBSET Pkg] /\ rpmlist' \in BOOLEAN
    BY DEF IInv, TypeOK
  <2>2. Ready(Obsoleted) /\ Begin(Obsoleted, Listed("obsoleted")) /\ Wipe(ObsoletedFiles, {})
    OBVIOUS
  <2>3. {} \in SUBSET ObsoletedFiles /\ ObsoletedFiles \in SUBSET FilesOf(Obsoleted)
    BY <1>2
  <2>4. sol' = [sol EXCEPT ![Obsoleted] = EmptySolution] /\ risks' = risks /\ fixplan' = fixplan
    OBVIOUS
  <2> HIDE DEF ObsoletedBegin
  <2> QED BY <1>1, <2>1, <2>2, <2>3, <2>4, BeginKeeps
<1>4. Control' /\ result'[Obsoleted] = "none" /\ active' = Obsoleted
  BY <1>1, BeginControl
<1>5. SeenObsoleted' = {}
  <2>1. UNCHANGED <<system, mode>> /\ todo' = Listed("obsoleted")
    BY DEF Begin
  <2>2. NativeList' = NativeList /\ NativeList \subseteq Pkg
    BY <2>1, SameSystem DEF IInv, TypeOK, NativeList
  <2>3. Reported("obsoleted")' \subseteq todo'
    BY <2>1, <2>2 DEF Reported, Listed
  <2> QED BY <1>4, <2>3, NothingSeen DEF SeenObsoleted
<1>6. Away(SeenObsoleted)' = {} /\ Chans(Away(SeenObsoleted))' = {}
  BY <1>5 DEF Away, Chans
<1>7. ObsoletedLists'
  <2>1. \A f \in ObsoletedFiles : kick'[f] = {}
    BY <1>2 DEF Wipe
  <2> QED BY <2>1, <1>5 DEF ObsoletedLists
<1>8. ObsoletedLoop'
  BY <1>5, <1>6 DEF ObsoletedLoop, Begin, NoLocals
<1>9. ObsoletedInv'
  BY <1>4, <1>7, <1>8 DEF ObsoletedInv, Finished
<1> QED BY <1>1, <1>3, <1>4, <1>9, StepKeeps

LEMMA ObsoletedPkgKeeps ==
    ASSUME IInv, NEW p \in Pkg, ObsoletedPkg(p)
    PROVE  IInv'
<1> DEFINE counts == p \in NativeList /\ ~Ignored(p)
           other == IF NotBase(p) THEN loc.other \cup {Change[p].chan} ELSE loc.other
<1>0. IF counts
        THEN /\ Put(ObsoletedFile(p), ObsoletedLine(p))
             /\ loc' = [loc EXCEPT !.found = TRUE, !.other = other]
             /\ sol' = [sol EXCEPT ![Obsoleted].lines = @ \cup {ObsoletedLine(p)}]
             /\ risks' = risks \cup ObsoletedRisks(p)
        ELSE UNCHANGED <<kick, exists, loc, sol, risks>>
  BY DEF ObsoletedPkg
<1>1. /\ TypeOK /\ Obsoleted \in Checks
      /\ active = Obsoleted /\ active' = Obsoleted /\ p \in todo /\ todo' = todo \ {p}
      /\ UNCHANGED <<system, mode, run, killed, sorted, fixplan, result>>
      /\ UNCHANGED <<cleanplan, rpmlist>> /\ result[Obsoleted] = "none"
  BY DEF IInv, Checks, Control, ObsoletedPkg
<1>2. ObsoletedLists /\ ObsoletedLoop
  BY <1>1 DEF IInv, ObsoletedInv, Current
<1>3. FilesOf(Obsoleted) = ObsoletedFiles /\ ObsoletedFiles \subseteq Files
  BY DEF FilesOf, Files
<1>4. counts <=> p \in Reported("obsoleted")
  BY <1>1, <1>2 DEF ObsoletedLoop, Reported, Listed
<1>5. SeenObsoleted' = IF counts THEN SeenObsoleted \cup {p} ELSE SeenObsoleted
  BY <1>1, <1>4, SeenGrows DEF SeenObsoleted, Kinds
<1>6. \A q \in Pkg : ObsoletedLine(q)' = ObsoletedLine(q) /\ ObsoletedFile(q)' = ObsoletedFile(q)
  BY <1>1, SameSystem
<1>7. SeenObsoleted \subseteq Pkg
  BY <1>1, SeenArePackages DEF TypeOK, SeenObsoleted
<1>8. todo' \subseteq Listed("obsoleted")
  BY <1>1, <1>2 DEF ObsoletedLoop
<1>9. CASE counts
  <2>1. ObsoletedFile(p) \in ObsoletedFiles
    BY DEF ObsoletedFile, ObsoletedFiles
  <2>2. /\ kick' \in [Files -> SUBSET Line] /\ exists' \subseteq Files
        /\ kick'[ObsoletedFile(p)] = kick[ObsoletedFile(p)] \cup {ObsoletedLine(p)}
        /\ exists' = exists \cup {ObsoletedFile(p)}
        /\ \A g \in Files \ {ObsoletedFile(p)} : kick'[g] = kick[g]
    BY <1>0, <1>1, <1>3, <1>9, <2>1, LinesTyped, PutTyped
  <2>3. /\ loc' \in Locals /\ loc'.found /\ loc'.other = other
        /\ sol' \in [Checks -> Solution]
        /\ \A d \in Checks \ {Obsoleted} : sol'[d] = sol[d]
    <3>1. loc \in Locals /\ sol \in [Checks -> Solution]
      BY <1>1 DEF TypeOK, Locals, Solution
    <3>2. Change[p].chan \in Channels /\ ObsoletedLine(p) \in Line
      BY <1>1, LinesTyped
    <3>3. other \in SUBSET Channels
      BY <3>1, <3>2 DEF Locals
    <3> HIDE DEF other
    <3>4. loc' \in Locals /\ loc'.found /\ loc'.other = other
      BY <3>1, <3>3, <1>0, <1>9 DEF Locals
    <3>5. sol' \in [Checks -> Solution] /\ \A d \in Checks \ {Obsoleted} : sol'[d] = sol[d]
      BY <3>1, <3>2, <1>0, <1>1, <1>9 DEF Solution
    <3> QED BY <3>4, <3>5
  <2>4. /\ risks' = risks \cup ObsoletedRisks(p)
        /\ ObsoletedRisks(p) \subseteq {<<Obsoleted, "medium", p>>, <<Obsoleted, "high", p>>}
    BY <1>0, <1>9 DEF ObsoletedRisks
  <2>5. \A level \in {"medium", "high"} :
          <<Obsoleted, level, p>> \in Risk /\ <<Obsoleted, level, p>> # Unsupported
    BY <1>1, RisksTyped
  <2>6. TypeOK'
    <3>1. risks' \subseteq Risk
      BY <1>1, <2>4, <2>5, RisksTyped
    <3> QED BY <1>1, <2>2, <2>3, <3>1 DEF TypeOK, Locals, Solution, Risk, system, mode
  <2>7. Unsupported \in risks' <=> Unsupported \in risks
    BY <2>4, <2>5
  <2>8. StepOf(Obsoleted)
    BY <1>1, <1>3, <2>1, <2>2, <2>3, <2>4, <2>7 DEF StepOf
  <2>9. /\ SeenObsoleted' = SeenObsoleted \cup {p}
        /\ Chans(Away(SeenObsoleted))' = IF NotBase(p)
             THEN Chans(Away(SeenObsoleted)) \cup {Change[p].chan} ELSE Chans(Away(SeenObsoleted))
    <3>1. SeenObsoleted' = SeenObsoleted \cup {p}
      BY <1>5, <1>9
    <3>2. Away(SeenObsoleted)' = Away(SeenObsoleted \cup {p})
      BY <3>1 DEF Away
    <3>3. Chans(Away(SeenObsoleted))' = Chans(Away(SeenObsoleted \cup {p}))
      BY <3>2 DEF Chans
    <3> QED BY <3>1, <3>3, AwayGrows
  <2>10. ObsoletedLists'
    <3> SUFFICES ASSUME NEW f \in ObsoletedFiles
                 PROVE  /\ kick'[f] = {ObsoletedLine(q)' : q \in {r \in SeenObsoleted' : ObsoletedFile(r)' = f}}
                        /\ kick'[f] # {} => f \in exists'
      BY DEF ObsoletedLists
    <3>1. {r \in SeenObsoleted' : ObsoletedFile(r)' = f} =
             {r \in SeenObsoleted : ObsoletedFile(r) = f}
                \cup (IF f = ObsoletedFile(p) THEN {p} ELSE {})
      BY <1>6, <1>7, <2>9
    <3>2. /\ kick[f] = {ObsoletedLine(q) : q \in {r \in SeenObsoleted : ObsoletedFile(r) = f}}
          /\ kick[f] # {} => f \in exists
      BY <1>2 DEF ObsoletedLists
    <3>3. kick'[f] = kick[f] \cup (IF f = ObsoletedFile(p) THEN {ObsoletedLine(p)} ELSE {})
      BY <1>3, <2>2
    <3> QED BY <1>6, <1>7, <2>2, <3>1, <3>2, <3>3
  <2>11. ObsoletedLoop'
    BY <1>2, <1>8, <2>3, <2>9 DEF ObsoletedLoop
  <2>12. Control' /\ ObsoletedInv'
    BY <1>1, <2>10, <2>11 DEF Control, ObsoletedInv, Finished, IInv
  <2> QED BY <1>1, <2>6, <2>8, <2>12, StepKeeps
<1>10. CASE ~counts
  <2>1. UNCHANGED <<kick, exists, loc, sol, risks>>
    BY <1>0, <1>10
  <2>2. TypeOK' /\ StepOf(Obsoleted)
    BY <1>1, <2>1 DEF TypeOK, StepOf, system, mode
  <2>3. SeenObsoleted' = SeenObsoleted
    BY <1>5, <1>10
  <2>4. ObsoletedLists'
    BY <1>2, <1>6, <1>7, <2>1, <2>3 DEF ObsoletedLists
  <2>5. ObsoletedLoop'
    BY <1>2, <1>8, <2>1, <2>3 DEF ObsoletedLoop, Chans, Away
  <2>6. Control' /\ ObsoletedInv'
    BY <1>1, <2>4, <2>5 DEF Control, ObsoletedInv, Finished, IInv
  <2> QED BY <1>1, <2>2, <2>6, StepKeeps
<1> QED BY <1>9, <1>10

LEMMA ObsoletedEndKeeps ==
    ASSUME IInv, ObsoletedEnd
    PROVE  IInv'
<1> DEFINE outcome == IF loc.found THEN "fail" ELSE "pass"
<1>1. /\ TypeOK /\ Obsoleted \in Checks
      /\ active = Obsoleted /\ todo = {}
      /\ Exit(Obsoleted, outcome) /\ outcome \in Results
      /\ UNCHANGED <<system, mode, kick, exists, fixplan, cleanplan, rpmlist>>
  BY DEF IInv, Checks, ObsoletedEnd, Exit, Results
<1>2. ObsoletedLists /\ ObsoletedLoop
  BY <1>1 DEF IInv, ObsoletedInv, Current
<1>3. FilesOf(Obsoleted) = ObsoletedFiles /\ ObsoletedFiles \subseteq Files
  BY DEF FilesOf, Files
<1>4. /\ loc \in Locals /\ sol \in [Checks -> Solution]
      /\ kick \in [Files -> SUBSET Line] /\ exists \subseteq Files
      /\ fixplan \in [written : BOOLEAN, missing : SUBSET Pkg, removeme : SUBSET Pkg]
  BY <1>1 DEF TypeOK, Locals, Solution
<1>5. /\ sorted' \subseteq Files /\ exists \cap ObsoletedFiles \subseteq sorted'
      /\ \A f \in Files \ ObsoletedFiles : f \in sorted' <=> f \in sorted
  BY <1>1, <1>3, SortTyped DEF ObsoletedEnd
<1>6. /\ sol' \in [Checks -> Solution] /\ \A d \in Checks \ {Obsoleted} : sol'[d] = sol[d]
      /\ CanName => sol'[Obsoleted].subs = IF loc.found THEN loc.other ELSE {}
  <2> DEFINE subs == Subscriptions(loc.other)
             advice == IF loc.found THEN [sol[Obsoleted] EXCEPT !.subs = subs] ELSE EmptySolution
  <2>1. sol' = [sol EXCEPT ![Obsoleted] = advice]
    BY DEF ObsoletedEnd
  <2>2. subs \in SUBSET Channels /\ (CanName => subs = loc.other) /\ sol[Obsoleted] \in Solution
    BY <1>1, <1>4 DEF Locals, Subscriptions
  <2> HIDE DEF subs
  <2>3. advice \in Solution /\ (CanName => advice.subs = IF loc.found THEN loc.other ELSE {})
    BY <2>2, EmptyTyped DEF Solution, EmptySolution
  <2> HIDE DEF advice
  <2> QED BY <2>1, <2>3, <1>1, <1>4
<1>7. /\ risks \subseteq risks' /\ risks' \subseteq Risk
      /\ Unsupported \in risks' <=> Unsupported \in risks
  <2>1. \/ risks' = risks \cup {<<Obsoleted, "medium", "summary">>}
        \/ risks' = risks
    BY DEF ObsoletedEnd
  <2>2. <<Obsoleted, "medium", "summary">> \in Risk /\ <<Obsoleted, "medium", "summary">> # Unsupported
    BY <1>1, RisksTyped
  <2> QED BY <1>1, <2>1, <2>2, RisksTyped
<1> HIDE DEF outcome
<1>8. /\ TypeOK' /\ Control' /\ StepOf(Obsoleted)
      /\ active' = Idle /\ result'[Obsoleted] = outcome
  BY <1>1, <1>3, <1>4, <1>5, <1>6, <1>7, ExitKeeps
<1>9. SeenObsoleted' = SeenObsoleted /\ SeenObsoleted \subseteq Pkg
  BY <1>1, <1>8, AllSeen, SeenArePackages DEF SeenObsoleted, Kinds, TypeOK
<1>10. Chans(Away(SeenObsoleted))' = Chans(Away(SeenObsoleted))
  BY <1>9 DEF Away, Chans
<1>11. ObsoletedLists'
  <2>1. \A p \in Pkg : ObsoletedLine(p)' = ObsoletedLine(p) /\ ObsoletedFile(p)' = ObsoletedFile(p)
    BY <1>1, SameSystem
  <2> QED BY <1>1, <1>2, <1>9, <2>1 DEF ObsoletedLists
<1>12. ObsoletedExit'
  <2>1. exists' \cap ObsoletedFiles \subseteq sorted'
    BY <1>1, <1>5
  <2>2. CanName' => sol'[Obsoleted].subs = Chans(Away(SeenObsoleted))'
    <3>1. SeenObsoleted = {} => Chans(Away(SeenObsoleted)) = {}
      BY DEF Chans, Away
    <3> QED BY <1>1, <1>2, <1>6, <1>10, <3>1 DEF ObsoletedLoop, mode, CanName
  <2>3. result'[Obsoleted] = "fail" <=> SeenObsoleted' # {}
    BY <1>2, <1>8, <1>9 DEF ObsoletedLoop, outcome
  <2> QED BY <2>1, <2>2, <2>3 DEF ObsoletedExit
<1>13. ObsoletedInv'
  BY <1>8, <1>11, <1>12 DEF ObsoletedInv
<1> QED BY <1>1, <1>8, <1>13, StepKeeps

----------------------------------------------------------------------------
(* The steps of RemovedPackages.                                           *)

LEMMA RemovedBeginKeeps ==
    ASSUME IInv, RemovedBegin
    PROVE  IInv'
<1> DEFINE work == IF "commondir" \in readable THEN Listed("removed") ELSE {}
<1>1. /\ TypeOK /\ work \in SUBSET Pkg /\ Removed \in Checks
      /\ Ready(Removed) /\ Begin(Removed, work)
      /\ sol' = [sol EXCEPT ![Removed] = EmptySolution]
      /\ UNCHANGED <<kick, exists, sorted, risks, fixplan, rpmlist>>
      /\ cleanplan' = [written |-> TRUE, names |-> NativeList]
  BY DEF RemovedBegin, Listed, Checks, IInv
<1>2. TypeOK' /\ StepOf(Removed)
  <2>1. NativeList \subseteq Pkg
    BY <1>1 DEF TypeOK, NativeList
  <2>2. cleanplan' \in [written : BOOLEAN, names : SUBSET Pkg] /\ rpmlist' \in BOOLEAN
    BY <1>1, <2>1 DEF TypeOK
  <2>3. {} \in SUBSET FilesOf(Removed) /\ {} \in SUBSET {}
    OBVIOUS
  <2> HIDE DEF work
  <2> QED BY <1>1, <2>2, <2>3, BeginKeeps
<1>3. Control' /\ result'[Removed] = "none" /\ active' = Removed
  BY <1>1, BeginControl
<1>4. /\ UNCHANGED <<system, mode>> /\ todo' = work
      /\ loc'.found = FALSE
  BY <1>1 DEF Begin, NoLocals
<1>5. "commondir" \in readable' => SeenRemoved' = {}
  <2> SUFFICES ASSUME "commondir" \in readable' PROVE SeenRemoved' = {}
    OBVIOUS
  <2>1. todo' = Listed("removed")
    BY <1>4 DEF mode
  <2>2. NativeList' = NativeList /\ NativeList \subseteq Pkg
    BY <1>1, <1>4, SameSystem DEF TypeOK, NativeList
  <2>3. Reported("removed")' \subseteq todo'
    BY <2>1, <2>2 DEF Reported, Listed
  <2> QED BY <1>3, <2>3, NothingSeen DEF SeenRemoved
<1>6. RemovedLoop'
  BY <1>4, <1>5 DEF RemovedLoop
<1>7. RemovedInv'
  BY <1>3, <1>6 DEF RemovedInv, Finished
<1> QED BY <1>1, <1>2, <1>3, <1>7, StepKeeps

LEMMA RemovedPkgKeeps ==
    ASSUME IInv, NEW p \in Pkg, RemovedPkg(p)
    PROVE  IInv'
<1>0. IF p \in NativeList
        THEN /\ sol' = [sol EXCEPT ![Removed].lines = @ \cup {RemovedLine(p)}]
             /\ loc' = [loc EXCEPT !.found = TRUE]
             /\ risks' \in {risks, risks \cup {<<Removed, "high", p>>}}
        ELSE UNCHANGED <<loc, sol, risks>>
  BY DEF RemovedPkg
<1>1. /\ TypeOK /\ Removed \in Checks
      /\ active = Removed /\ active' = Removed /\ p \in todo /\ todo' = todo \ {p}
      /\ UNCHANGED <<system, mode, run, killed, kick, exists, sorted, fixplan, result>>
      /\ UNCHANGED <<cleanplan, rpmlist>> /\ result[Removed] = "none"
  BY DEF IInv, Checks, Control, RemovedPkg
<1>2. RemovedLoop
  BY <1>1 DEF IInv, RemovedInv
<1>3. SeenRemoved' = SeenRemoved \cup ({p} \cap Reported("removed"))
      /\ SeenRemoved \subseteq Pkg /\ Reported("removed") \subseteq NativeList
  BY <1>1, SeenGrows, SeenArePackages DEF SeenRemoved, Kinds, TypeOK, Reported
<1>4. \A q \in Pkg : RemovedLine(q)' = RemovedLine(q)
  BY <1>1, SameSystem
<1>5. CASE p \in NativeList
  <2>1. loc \in Locals /\ sol \in [Checks -> Solution] /\ RemovedLine(p) \in Line
    BY <1>1, LinesTyped DEF TypeOK, Locals, Solution
  <2>2. loc' \in Locals /\ loc'.found
    BY <1>0, <1>5, <2>1 DEF Locals
  <2>3. /\ sol' \in [Checks -> Solution]
        /\ \A d \in Checks \ {Removed} : sol'[d] = sol[d]
        /\ sol'[Removed].lines = sol[Removed].lines \cup {RemovedLine(p)}
    BY <1>0, <1>1, <1>5, <2>1 DEF Solution
  <2>4. /\ risks \subseteq risks' /\ risks' \subseteq Risk
        /\ Unsupported \in risks' <=> Unsupported \in risks
    <3>1. risks' \in {risks, risks \cup {<<Removed, "high", p>>}}
      BY <1>0, <1>5
    <3>2. <<Removed, "high", p>> \in Risk /\ <<Removed, "high", p>> # Unsupported
      BY <1>1, RisksTyped
    <3> QED BY <1>1, <3>1, <3>2, RisksTyped
  <2>5. TypeOK'
    BY <1>1, <2>2, <2>3, <2>4 DEF TypeOK, Locals, Solution, Risk, system, mode
  <2>6. StepOf(Removed)
    BY <1>1, <2>3, <2>4 DEF StepOf
  <2>7. "commondir" \in readable' => \A q \in SeenRemoved' : RemovedLine(q)' \in sol'[Removed].lines
    BY <1>1, <1>2, <1>3, <1>4, <2>3 DEF RemovedLoop, mode
  <2>8. RemovedLoop'
    BY <2>2, <2>3, <2>7 DEF RemovedLoop
  <2>9. Control' /\ RemovedInv'
    BY <1>1, <2>8 DEF Control, RemovedInv, Finished, IInv
  <2> QED BY <1>1, <2>5, <2>6, <2>9, StepKeeps
<1>6. CASE p \notin NativeList
  <2>1. UNCHANGED <<loc, sol, risks>> /\ SeenRemoved' = SeenRemoved
    BY <1>0, <1>3, <1>6
  <2>2. TypeOK' /\ StepOf(Removed)
    BY <1>1, <2>1 DEF TypeOK, StepOf, system, mode
  <2>3. RemovedLoop'
    BY <1>1, <1>2, <1>3, <1>4, <2>1 DEF RemovedLoop, mode
  <2>4. Control' /\ RemovedInv'
    BY <1>1, <2>3 DEF Control, RemovedInv, Finished, IInv
  <2> QED BY <1>1, <2>2, <2>4, StepKeeps
<1> QED BY <1>5, <1>6

LEMMA RemovedEndKeeps ==
    ASSUME IInv, RemovedEnd
    PROVE  IInv'
<1> DEFINE outcome == IF loc.found THEN "fail" ELSE "pass"
           lines == sol[Removed].lines
           new == [f \in RemovedFiles |->
                     IF f = "RemovedPkg-required" THEN {x \in lines : x.req # {}}
                                                  ELSE {x \in lines : x.req = {}}]
<1>1. /\ TypeOK /\ Removed \in Checks
      /\ active = Removed /\ todo = {}
      /\ Exit(Removed, outcome) /\ outcome \in Results
      /\ UNCHANGED <<system, mode, sorted, fixplan, cleanplan, rpmlist>>
  BY DEF IInv, Checks, RemovedEnd, Exit, Results
<1>2. RemovedLoop
  BY <1>1 DEF IInv, RemovedInv
<1>3. FilesOf(Removed) = RemovedFiles /\ RemovedFiles \subseteq Files
  BY DEF FilesOf, Files
<1>4. /\ loc \in Locals /\ sol \in [Checks -> Solution]
      /\ kick \in [Files -> SUBSET Line] /\ exists \subseteq Files /\ sorted \subseteq Files
      /\ fixplan \in [written : BOOLEAN, missing : SUBSET Pkg, removeme : SUBSET Pkg]
  BY <1>1 DEF TypeOK, Locals, Solution
<1>5. /\ kick' = [f \in Files |-> IF f \in RemovedFiles THEN kick[f] \cup new[f] ELSE kick[f]]
      /\ exists' = (exists \ RemovedFiles) \cup {f \in RemovedFiles : kick[f] \cup new[f] # {}}
      /\ sol' = IF loc.found THEN sol ELSE [sol EXCEPT ![Removed] = EmptySolution]
      /\ \/ risks' = risks \cup {<<Removed, "high", "summary">>, <<Removed, "medium", "summary">>}
         \/ risks' = risks
  BY DEF RemovedEnd
<1>6. /\ lines \subseteq Line
      /\ \A f \in RemovedFiles : new[f] \subseteq lines
      /\ \A x \in lines : \E f \in RemovedFiles : x \in new[f]
  BY <1>1, <1>4 DEF Solution, RemovedFiles
<1> HIDE DEF lines, new, outcome
<1>7. /\ kick' \in [Files -> SUBSET Line] /\ exists' \subseteq Files /\ sorted' \subseteq Files
      /\ \A f \in Files \ RemovedFiles :
            /\ kick'[f] = kick[f]
            /\ f \in exists' <=> f \in exists
            /\ f \in sorted' <=> f \in sorted
      /\ \A x \in lines : \E f \in RemovedFiles \cap exists' : x \in kick'[f]
  BY <1>1, <1>3, <1>4, <1>5, <1>6
<1>8. sol' \in [Checks -> Solution] /\ \A d \in Checks \ {Removed} : sol'[d] = sol[d]
  BY <1>1, <1>4, <1>5, EmptyTyped
<1>9. /\ risks \subseteq risks' /\ risks' \subseteq Risk
      /\ Unsupported \in risks' <=> Unsupported \in risks
  <2>1. \A level \in {"high", "medium"} :
          <<Removed, level, "summary">> \in Risk /\ <<Removed, level, "summary">> # Unsupported
    BY <1>1, RisksTyped
  <2> QED BY <1>1, <1>5, <2>1, RisksTyped
<1>10. /\ TypeOK' /\ Control' /\ StepOf(Removed)
       /\ active' = Idle /\ result'[Removed] = outcome
  BY <1>1, <1>3, <1>4, <1>7, <1>8, <1>9, ExitKeeps
<1>11. SeenRemoved' = SeenRemoved /\ SeenRemoved \subseteq Pkg
  BY <1>1, <1>10, AllSeen, SeenArePackages DEF SeenRemoved, Kinds, TypeOK
<1>12. RemovedExit'
  <2>1. result'[Removed] = "fail" => \E f \in RemovedFiles : kick'[f] # {}
    BY <1>2, <1>7, <1>10 DEF RemovedLoop, outcome, lines
  <2>2. \A p \in Pkg : RemovedLine(p)' = RemovedLine(p)
    BY <1>1, SameSystem
  <2>3. "commondir" \in readable' =>
          \A p \in SeenRemoved' : \E f \in RemovedFiles \cap exists' : RemovedLine(p)' \in kick'[f]
    BY <1>1, <1>2, <1>7, <1>11, <2>2 DEF RemovedLoop, lines, mode
  <2> QED BY <2>1, <2>3 DEF RemovedExit
<1>13. RemovedInv'
  BY <1>10, <1>12 DEF RemovedInv
<1> QED BY <1>1, <1>10, <1>13, StepKeeps

----------------------------------------------------------------------------
(* The steps of notbase-channel.                                           *)

LEMMA NotBaseBeginKeeps ==
    ASSUME IInv, NotBaseBegin
    PROVE  IInv'
<1> DEFINE work == {p \in Listed("kept") : ~Ignored(p)}
<1>1. /\ TypeOK /\ work \in SUBSET Pkg /\ NotBaseCh \in Checks
      /\ Ready(NotBaseCh) /\ Begin(NotBaseCh, work) /\ Wipe(KeptFiles, {})
      /\ sol' = [sol EXCEPT ![NotBaseCh] = EmptySolution]
      /\ UNCHANGED <<risks, fixplan, cleanplan, rpmlist>>
  BY DEF NotBaseBegin, Listed, Checks, IInv
<1>2. FilesOf(NotBaseCh) = KeptFiles /\ KeptFiles \subseteq Files
      /\ KeptFiles = {"kept", "kept-notbase"}
  BY DEF FilesOf, Files, KeptFiles
<1>3. TypeOK' /\ StepOf(NotBaseCh)
  <2>1. cleanplan' \in [written : BOOLEAN, names : SUBSET Pkg] /\ rpmlist' \in BOOLEAN
    BY <1>1 DEF TypeOK
  <2>2. {} \in SUBSET KeptFiles /\ KeptFiles \in SUBSET FilesOf(NotBaseCh)
    BY <1>2
  <2> HIDE DEF work
  <2> QED BY <1>1, <2>1, <2>2, BeginKeeps
<1>4. Control' /\ result'[NotBaseCh] = "none" /\ active' = NotBaseCh
  BY <1>1, BeginControl
<1>5. /\ UNCHANGED <<system, mode>> /\ todo' = work
      /\ loc'.found = FALSE /\ loc'.other = {}
  BY <1>1 DEF Begin, NoLocals
<1>6. SeenKept' = {}
  <2>1. NativeList' = NativeList /\ NativeList \subseteq Pkg
    BY <1>1, <1>5, SameSystem DEF TypeOK, NativeList
  <2>2. Reported("kept")' \subseteq todo'
    BY <1>5, <2>1 DEF Reported, Listed
  <2> QED BY <1>4, <2>2, NothingSeen DEF SeenKept
<1>7. Away(SeenKept)' = {} /\ Chans(Away(SeenKept))' = {}
  BY <1>6 DEF Away, Chans
<1>8. NotBaseLists'
  <2>1. \A f \in KeptFiles : kick'[f] = {}
    BY <1>1, <1>2 DEF Wipe
  <2> QED BY <2>1, <1>2, <1>6, <1>7 DEF NotBaseLists
<1>9. NotBaseLoops'
  <2>1. sol'[NotBaseCh].subs = {}
    BY <1>1 DEF TypeOK, EmptySolution
  <2> QED BY <1>5, <1>6, <1>7, <2>1 DEF NotBaseLoops
<1>10. Unsupported \notin risks'
  BY <1>1 DEF IInv, NotBaseInv, Ready, Finished
<1>11. NotBaseInv'
  BY <1>4, <1>8, <1>9, <1>10 DEF NotBaseInv, Finished
<1> QED BY <1>1, <1>3, <1>4, <1>11, StepKeeps

(* Two packages of one loop are both of Optional, or neither is: the last  *)
(* one read tells whether all of them are.                                 *)
LEMMA LastTells ==
    ASSUME NEW S \in SUBSET Pkg, NEW p \in Pkg, NotBase(p),
           \A q \in S : NotBaseLoop(q) <= NotBaseLoop(p)
    PROVE  Change[p].chan = Optional <=> \A q \in Away(S) \cup {p} : Change[q].chan = Optional
<1>1. \A q \in Pkg : NotBaseLoop(q) \in {1, 2, 3} /\ (NotBaseLoop(q) = 1 <=> Change[q].chan = Optional)
  BY DEF NotBaseLoop, Optional, Base
<1>2. ASSUME Change[p].chan = Optional, NEW q \in S
      PROVE  Change[q].chan = Optional
  <2>1. NotBaseLoop(p) = 1 /\ NotBaseLoop(q) <= 1 /\ NotBaseLoop(q) \in {1, 2, 3}
    BY <1>1, <1>2
  <2>2. NotBaseLoop(q) = 1
    BY <2>1
  <2> QED BY <1>1, <2>2
<1> QED BY <1>2 DEF Away

LEMMA NotBasePkgKeeps ==
    ASSUME IInv, NEW p \in Pkg, NotBasePkg(p)
    PROVE  IInv'
<1> DEFINE file == IF NotBase(p) THEN "kept-notbase" ELSE "kept"
<1>0. IF p \in NativeList
        THEN /\ Put(file, KeptLine(p))
             /\ IF NotBase(p)
                  THEN /\ loc' = [loc EXCEPT !.found = TRUE,
                                             !.other = @ \cup {Change[p].chan},
                                             !.last = Change[p].chan]
                       /\ sol' = [sol EXCEPT ![NotBaseCh].lines = @ \cup {KeptLine(p)}]
                       /\ risks' = risks \cup {<<NotBaseCh, "high", p>>}
                  ELSE UNCHANGED <<loc, sol, risks>>
        ELSE UNCHANGED <<kick, exists, loc, sol, risks>>
  BY DEF NotBasePkg
<1>1. /\ TypeOK /\ NotBaseCh \in Checks
      /\ active = NotBaseCh /\ active' = NotBaseCh /\ p \in todo /\ todo' = todo \ {p}
      /\ \A q \in todo : NotBaseLoop(p) <= NotBaseLoop(q)
      /\ UNCHANGED <<system, mode, run, killed, sorted, fixplan, result>>
      /\ UNCHANGED <<cleanplan, rpmlist>> /\ result[NotBaseCh] = "none"
  BY DEF IInv, Checks, Control, NotBasePkg
<1>2. NotBaseLists /\ NotBaseLoops /\ Unsupported \notin risks
  BY <1>1 DEF IInv, NotBaseInv, Current, Finished
<1>3. /\ FilesOf(NotBaseCh) = KeptFiles /\ KeptFiles \subseteq Files
      /\ KeptFiles = {"kept", "kept-notbase"}
  BY DEF FilesOf, Files, KeptFiles
<1>4. p \in NativeList <=> p \in Reported("kept")
  BY <1>1, <1>2 DEF NotBaseLoops, Reported, Listed
<1>5. SeenKept' = IF p \in NativeList THEN SeenKept \cup {p} ELSE SeenKept
  BY <1>1, <1>4, SeenGrows DEF SeenKept, Kinds
<1>6. \A q \in Pkg : KeptLine(q)' = KeptLine(q)
  BY <1>1, SameSystem
<1>7. SeenKept \subseteq Pkg
  BY <1>1, SeenArePackages DEF TypeOK, SeenKept
<1>8. /\ todo' \subseteq {q \in Listed("kept") : ~Ignored(q)}
      /\ \A s \in SeenKept', q \in todo' : NotBaseLoop(s) <= NotBaseLoop(q)
      /\ \A s \in SeenKept : NotBaseLoop(s) <= NotBaseLoop(p)
  BY <1>1, <1>2, <1>5 DEF NotBaseLoops
<1>9. file \in KeptFiles /\ (file = "kept-notbase" <=> NotBase(p))
  BY <1>3
<1> HIDE DEF file
<1>10. CASE p \in NativeList
  <2>1. /\ kick' \in [Files -> SUBSET Line] /\ exists' \subseteq Files
        /\ kick'[file] = kick[file] \cup {KeptLine(p)} /\ exists' = exists \cup {file}
        /\ \A g \in Files \ {file} : kick'[g] = kick[g]
    BY <1>0, <1>1, <1>3, <1>9, <1>10, LinesTyped, PutTyped
  <2>2. /\ loc' \in Locals /\ sol' \in [Checks -> Solution]
        /\ \A d \in Checks \ {NotBaseCh} : sol'[d] = sol[d]
        /\ sol'[NotBaseCh].subs = sol[NotBaseCh].subs
        /\ IF NotBase(p) THEN loc'.found /\ loc'.other = loc.other \cup {Change[p].chan}
                              /\ loc'.last = Change[p].chan
           ELSE loc' = loc
    <3>1. loc \in Locals /\ sol \in [Checks -> Solution]
      BY <1>1 DEF TypeOK, Locals, Solution
    <3>2. Change[p].chan \in Channels /\ KeptLine(p) \in Line
      BY <1>1, LinesTyped
    <3>3. CASE NotBase(p)
      <4>1. loc' \in Locals /\ loc'.found /\ loc'.other = loc.other \cup {Change[p].chan}
            /\ loc'.last = Change[p].chan
        <5>1. loc.other \cup {Change[p].chan} \in SUBSET Channels
          BY <3>1, <3>2 DEF Locals
        <5>2. loc' = [loc EXCEPT !.found = TRUE, !.other = loc.other \cup {Change[p].chan},
                                 !.last = Change[p].chan]
          BY <3>3, <1>0, <1>10
        <5> QED BY <5>1, <5>2, <3>1, <3>2 DEF Locals
      <4>2. sol' \in [Checks -> Solution] /\ (\A d \in Checks \ {NotBaseCh} : sol'[d] = sol[d])
            /\ sol'[NotBaseCh].subs = sol[NotBaseCh].subs
        BY <3>1, <3>2, <3>3, <1>0, <1>1, <1>10 DEF Solution
      <4> QED BY <4>1, <4>2, <3>3
    <3>4. CASE ~NotBase(p)
      BY <3>1, <3>4, <1>0, <1>10
    <3> QED BY <3>3, <3>4
  <2>3. /\ risks \subseteq risks' /\ risks' \subseteq Risk /\ Unsupported \notin risks'
    <3>1. risks' \in {risks, risks \cup {<<NotBaseCh, "high", p>>}}
      BY <1>0, <1>10
    <3>2. <<NotBaseCh, "high", p>> \in Risk /\ <<NotBaseCh, "high", p>> # Unsupported
      BY <1>1, RisksTyped
    <3> QED BY <1>1, <1>2, <3>1, <3>2, RisksTyped
  <2>4. TypeOK'
    BY <1>1, <2>1, <2>2, <2>3 DEF TypeOK, Locals, Solution, Risk, system, mode
  <2>5. StepOf(NotBaseCh)
    BY <1>1, <1>3, <1>9, <2>1, <2>2, <2>3 DEF StepOf
  <2>6. SeenKept' = SeenKept \cup {p}
    BY <1>5, <1>10
  <2>7. /\ NotBase(p) => /\ Away(SeenKept)' = Away(SeenKept) \cup {p}
                         /\ Chans(Away(SeenKept))' = Chans(Away(SeenKept)) \cup {Change[p].chan}
        /\ ~NotBase(p) => /\ Away(SeenKept)' = Away(SeenKept)
                          /\ Chans(Away(SeenKept))' = Chans(Away(SeenKept))
    <3>1. Away(SeenKept)' = Away(SeenKept \cup {p})
      BY <2>6 DEF Away
    <3>2. Chans(Away(SeenKept))' = Chans(Away(SeenKept \cup {p}))
      BY <3>1 DEF Chans
    <3> QED BY <3>1, <3>2, AwayGrows
  <2>8. NotBaseLists'
    <3>1. kick'["kept"] = {KeptLine(q)' : q \in SeenKept' \ Away(SeenKept)'}
      <4>1. CASE NotBase(p)
        <5>1. SeenKept' \ Away(SeenKept)' = SeenKept \ Away(SeenKept)
          BY <4>1, <2>6, <2>7 DEF Away
        <5> QED BY <5>1, <4>1, <2>1, <1>2, <1>3, <1>6, <1>7, <1>9 DEF NotBaseLists
      <4>2. CASE ~NotBase(p)
        <5>1. SeenKept' \ Away(SeenKept)' = (SeenKept \ Away(SeenKept)) \cup {p}
          BY <4>2, <2>6, <2>7 DEF Away
        <5> QED BY <5>1, <4>2, <2>1, <1>2, <1>3, <1>6, <1>7, <1>9 DEF NotBaseLists
      <4> QED BY <4>1, <4>2
    <3>2. kick'["kept-notbase"] = {KeptLine(q)' : q \in Away(SeenKept)'}
      BY <2>1, <2>7, <1>2, <1>3, <1>6, <1>7, <1>9 DEF NotBaseLists, Away
    <3>3. \A f \in KeptFiles : kick'[f] # {} => f \in exists'
      BY <2>1, <1>2, <1>3 DEF NotBaseLists
    <3> QED BY <3>1, <3>2, <3>3 DEF NotBaseLists
  <2>9. NotBaseLoops'
    <3>1. CASE NotBase(p)
      <4>1. OptionalOnly' <=> \A q \in Away(SeenKept) \cup {p} : Change[q].chan = Optional
        BY <2>7, <3>1 DEF OptionalOnly
      <4>2. loc'.last = Optional <=> OptionalOnly'
        BY <4>1, <3>1, <2>2, <1>7, <1>8, LastTells
      <4>3. (loc'.found <=> Away(SeenKept)' # {}) /\ loc'.other = Chans(Away(SeenKept))'
        BY <1>2, <2>2, <2>7, <3>1 DEF NotBaseLoops
      <4> QED BY <1>2, <1>8, <2>2, <4>2, <4>3 DEF NotBaseLoops
    <3>2. CASE ~NotBase(p)
      <4>1. loc' = loc /\ Away(SeenKept)' = Away(SeenKept)
            /\ Chans(Away(SeenKept))' = Chans(Away(SeenKept))
        BY <2>2, <2>7, <3>2
      <4>2. OptionalOnly' = OptionalOnly
        BY <4>1 DEF OptionalOnly
      <4> QED BY <1>2, <1>8, <2>2, <4>1, <4>2 DEF NotBaseLoops
    <3> QED BY <3>1, <3>2
  <2>10. Control' /\ NotBaseInv'
    BY <1>1, <2>3, <2>8, <2>9 DEF Control, NotBaseInv, Finished, IInv
  <2> QED BY <1>1, <2>4, <2>5, <2>10, StepKeeps
<1>11. CASE p \notin NativeList
  <2>1. UNCHANGED <<kick, exists, loc, sol, risks>> /\ SeenKept' = SeenKept
    BY <1>0, <1>5, <1>11
  <2>2. TypeOK' /\ StepOf(NotBaseCh)
    BY <1>1, <2>1 DEF TypeOK, StepOf, system, mode
  <2>3. Away(SeenKept)' = Away(SeenKept)
    BY <2>1 DEF Away
  <2>4. NotBaseLists'
    BY <1>2, <1>6, <1>7, <2>1, <2>3 DEF NotBaseLists, Away
  <2>5. NotBaseLoops'
    BY <1>2, <1>8, <2>1, <2>3 DEF NotBaseLoops, Chans, OptionalOnly
  <2>6. Control' /\ NotBaseInv'
    BY <1>1, <1>2, <2>1, <2>4, <2>5 DEF Control, NotBaseInv, Finished, IInv
  <2> QED BY <1>1, <2>2, <2>6, StepKeeps
<1> QED BY <1>10, <1>11

LEMMA NotBaseEndKeeps ==
    ASSUME IInv, NotBaseEnd
    PROVE  IInv'
<1> DEFINE outcome == IF loc.found THEN "fail" ELSE "pass"
<1>1. /\ TypeOK /\ NotBaseCh \in Checks
      /\ active = NotBaseCh /\ todo = {}
      /\ Exit(NotBaseCh, outcome) /\ outcome \in Results
      /\ UNCHANGED <<system, mode, kick, exists, fixplan, cleanplan, rpmlist>>
  BY DEF IInv, Checks, NotBaseEnd, Exit, Results
<1>2. NotBaseLists /\ NotBaseLoops /\ Unsupported \notin risks
  BY <1>1 DEF IInv, NotBaseInv, Current, Control, Finished
<1>3. FilesOf(NotBaseCh) = KeptFiles /\ KeptFiles \subseteq Files
  BY DEF FilesOf, Files
<1>4. /\ loc \in Locals /\ sol \in [Checks -> Solution]
      /\ kick \in [Files -> SUBSET Line] /\ exists \subseteq Files
      /\ fixplan \in [written : BOOLEAN, missing : SUBSET Pkg, removeme : SUBSET Pkg]
  BY <1>1 DEF TypeOK, Locals, Solution
<1>5. /\ sorted' \subseteq Files /\ exists \cap KeptFiles \subseteq sorted'
      /\ \A f \in Files \ KeptFiles : f \in sorted' <=> f \in sorted
  BY <1>1, <1>3, SortTyped DEF NotBaseEnd
<1>6. /\ sol' \in [Checks -> Solution] /\ \A d \in Checks \ {NotBaseCh} : sol'[d] = sol[d]
      /\ CanName => sol'[NotBaseCh].subs = IF loc.found THEN loc.other ELSE {}
  <2> DEFINE subs == Subscriptions(loc.other)
             unsupported == upgrade /\ ~OnlyOptional
             advice == IF ~loc.found THEN sol[NotBaseCh]
                       ELSE [sol[NotBaseCh] EXCEPT !.addrepo = upgrade,
                              !.unsupported = unsupported, !.subs = subs]
  <2>1. sol' = [sol EXCEPT ![NotBaseCh] = advice]
    BY DEF NotBaseEnd
  <2>2. /\ subs \in SUBSET Channels /\ (CanName => subs = loc.other)
        /\ unsupported \in BOOLEAN /\ upgrade \in BOOLEAN
        /\ sol[NotBaseCh] \in Solution /\ sol[NotBaseCh].subs = {}
    BY <1>1, <1>2, <1>4 DEF Locals, TypeOK, NotBaseLoops, Subscriptions
  <2> HIDE DEF subs, unsupported
  <2>3. advice \in Solution /\ (CanName => advice.subs = IF loc.found THEN loc.other ELSE {})
    BY <2>2 DEF Solution
  <2> HIDE DEF advice
  <2> QED BY <2>1, <2>3, <1>1, <1>4
<1>7. /\ risks \subseteq risks' /\ risks' \subseteq Risk
      /\ Unsupported \in risks' <=> loc.found /\ upgrade /\ ~OnlyOptional
  <2>1. risks' = IF loc.found /\ upgrade /\ ~OnlyOptional THEN risks \cup {Unsupported} ELSE risks
    BY DEF NotBaseEnd, Unsupported
  <2> QED BY <1>1, <1>2, <2>1, RisksTyped
<1> HIDE DEF outcome
<1>8. /\ TypeOK' /\ Control' /\ StepOf(NotBaseCh)
      /\ active' = Idle /\ result'[NotBaseCh] = outcome
  BY <1>1, <1>3, <1>4, <1>5, <1>6, <1>7, ExitKeeps
<1>9. SeenKept' = SeenKept /\ SeenKept \subseteq Pkg
  BY <1>1, <1>8, AllSeen, SeenArePackages DEF SeenKept, Kinds, TypeOK
<1>10. Away(SeenKept)' = Away(SeenKept) /\ Chans(Away(SeenKept))' = Chans(Away(SeenKept))
  BY <1>9 DEF Away, Chans
<1>11. NotBaseLists'
  <2>1. \A p \in Pkg : KeptLine(p)' = KeptLine(p)
    BY <1>1, SameSystem
  <2> QED BY <1>1, <1>2, <1>9, <1>10, <2>1 DEF NotBaseLists, Away
<1>12. NotBaseExit'
  <2>1. exists' \cap KeptFiles \subseteq sorted'
    BY <1>1, <1>5
  <2>2. CanName' => sol'[NotBaseCh].subs = Chans(Away(SeenKept))'
    <3>1. Away(SeenKept) = {} => Chans(Away(SeenKept)) = {}
      BY DEF Chans
    <3> QED BY <1>1, <1>2, <1>6, <1>10, <3>1 DEF NotBaseLoops, mode, CanName
  <2>3. result'[NotBaseCh] = "fail" <=> Away(SeenKept)' # {}
    BY <1>2, <1>8, <1>10 DEF NotBaseLoops, outcome
  <2>4. upgrade' => (Unsupported \in risks' <=> ~OptionalOnly')
    <3>1. OptionalOnly' <=> OptionalOnly
      BY <1>10 DEF OptionalOnly
    <3>2. CASE loc.found
      <4>1. loc.other # {}
        BY <1>2, <3>2 DEF NotBaseLoops, Chans
      <4>2. OnlyOptional <=> OptionalOnly
        BY <1>2, <4>1 DEF NotBaseLoops, OnlyOptional
      <4> QED BY <1>1, <1>7, <3>1, <3>2, <4>2 DEF mode
    <3>3. CASE ~loc.found
      BY <1>2, <1>7, <3>1, <3>3 DEF NotBaseLoops, OptionalOnly
    <3> QED BY <3>2, <3>3
  <2> QED BY <2>1, <2>2, <2>3, <2>4 DEF NotBaseExit
<1>13. NotBaseInv'
  BY <1>1, <1>8, <1>11, <1>12 DEF NotBaseInv, outcome, Finished
<1> QED BY <1>1, <1>8, <1>13, StepKeeps

----------------------------------------------------------------------------
(* preupg and the administrator.                                           *)

(* A killed check has no result in this run: nothing is claimed of it.     *)
LEMMA KillKeeps ==
    ASSUME IInv, Kill
    PROVE  IInv'
<1>1. /\ TypeOK /\ active \in Checks /\ active' = Idle /\ result[active] = "none"
      /\ killed' = TRUE /\ todo' = {} /\ loc' = NoLocals
      /\ UNCHANGED <<system, mode, run, outputs, result>>
  BY DEF IInv, TypeOK, Control, Kill
<1>2. TypeOK'
  <2>1. loc' \in Locals
    BY <1>1, EmptyTyped
  <2> QED BY <1>1, <2>1 DEF TypeOK, Locals, system, mode, outputs
<1>3. Control'
  BY <1>1 DEF Control
<1>4. StepOf(active)
  <2>1. UNCHANGED <<kick, exists, sorted, sol, risks, fixplan>>
    BY <1>1 DEF outputs
  <2> QED BY <1>1, <2>1 DEF StepOf
<1>5. /\ active = Replaced => ReplacedInv'
      /\ active = Obsoleted => ObsoletedInv'
      /\ active = Removed => RemovedInv'
  BY <1>1 DEF ReplacedInv, ObsoletedInv, RemovedInv, Current, Finished
<1>6. active = NotBaseCh => NotBaseInv'
  <2>1. active = NotBaseCh => Unsupported \notin risks'
    BY <1>1 DEF IInv, NotBaseInv, Finished, outputs
  <2> QED BY <1>1, <2>1 DEF NotBaseInv, Current, Finished
<1> QED BY <1>1, <1>2, <1>3, <1>4, <1>5, <1>6, StepKeeps

(* A new run has no results: nothing is claimed, whatever was left behind.  *)
LEMMA RerunKeeps ==
    ASSUME IInv, Rerun
    PROVE  IInv'
<1>1. /\ TypeOK /\ active' = Idle /\ active = Idle /\ risks' = {} /\ killed' = FALSE
      /\ result' = [c \in Checks |-> "none"] /\ run' = run + 1
      /\ UNCHANGED <<mode, todo, loc, kick, exists, sorted, sol, fixplan, cleanplan, rpmlist>>
  BY DEF IInv, Rerun, RunOver
<1>2. native' \subseteq Pkg /\ foreign' \subseteq Pkg
  BY <1>1, AssessmentAssumption DEF TypeOK, Rerun, system
<1>3. TypeOK'
  <2>1. risks' \subseteq Risk
    BY <1>1
  <2>2. result' \in [Checks -> Results] /\ run' \in Nat
    BY <1>1 DEF TypeOK, Results
  <2> QED BY <1>1, <1>2, <2>1, <2>2 DEF TypeOK, Risk, mode
<1>4. \A c \in Checks : result'[c] = "none"
  BY <1>1
<1>5. Control' /\ ReplacedInv' /\ ObsoletedInv' /\ RemovedInv' /\ NotBaseInv'
  BY <1>1, <1>4 DEF Control, ReplacedInv, ObsoletedInv, RemovedInv, NotBaseInv, Current,
                    Finished, Checks
<1> QED BY <1>3, <1>5 DEF IInv

LEMMA StutterKeeps ==
    ASSUME IInv, UNCHANGED vars
    PROVE  IInv'
<1> USE DEF vars, Seen, Reported, NativeList, RepoFor, Current, Away, Chans
<1>1. TypeOK' /\ Control'
  BY DEF IInv, TypeOK, Control
<1>2. ReplacedInv'
  BY DEF IInv, ReplacedInv, ReplacedLists, ReplacedLoop, ReplacedExit, SeenReplaced, ReplacedLine, CanName
<1>3. ObsoletedInv'
  BY DEF IInv, ObsoletedInv, ObsoletedLists, ObsoletedLoop, ObsoletedExit, SeenObsoleted, CanName,
         ObsoletedLine, ObsoletedFile
<1>4. RemovedInv'
  BY DEF IInv, RemovedInv, RemovedLoop, RemovedExit, SeenRemoved, RemovedLine
<1>5. NotBaseInv'
  BY DEF IInv, NotBaseInv, NotBaseLists, NotBaseLoops, NotBaseExit, SeenKept, KeptLine, CanName,
         OptionalOnly
<1> QED BY <1>1, <1>2, <1>3, <1>4, <1>5 DEF IInv

(* The inductive invariant: every step of Next keeps it.                   *)
LEMMA NextKeeps == IInv /\ [Next]_vars => IInv'
<1> SUFFICES ASSUME IInv, [Next]_vars PROVE IInv'
  OBVIOUS
<1>1. ASSUME NEW c \in Checks, Ready(c), Abort(c) PROVE IInv'
  BY <1>1, AbortKeeps
<1>2. CASE ReplacedStep
  <2>1. ReplacedAbort => Ready(Replaced) /\ Abort(Replaced) /\ Replaced \in Checks
    BY DEF ReplacedAbort, Checks
  <2> QED BY <1>1, <1>2, <2>1, ReplacedBeginKeeps, ReplacedPkgKeeps, ReplacedEndKeeps DEF ReplacedStep
<1>3. CASE ObsoletedStep
  <2>1. ObsoletedAbort => Ready(Obsoleted) /\ Abort(Obsoleted) /\ Obsoleted \in Checks
    BY DEF ObsoletedAbort, Checks
  <2> QED BY <1>1, <1>3, <2>1, ObsoletedBeginKeeps, ObsoletedPkgKeeps, ObsoletedEndKeeps DEF ObsoletedStep
<1>4. CASE RemovedStep
  <2>1. RemovedAbort => Ready(Removed) /\ Abort(Removed) /\ Removed \in Checks
    BY DEF RemovedAbort, Checks
  <2> QED BY <1>1, <1>4, <2>1, RemovedBeginKeeps, RemovedPkgKeeps, RemovedEndKeeps DEF RemovedStep
<1>5. CASE NotBaseStep
  <2>1. NotBaseAbort => Ready(NotBaseCh) /\ Abort(NotBaseCh) /\ NotBaseCh \in Checks
    BY DEF NotBaseAbort, Checks
  <2> QED BY <1>1, <1>5, <2>1, NotBaseBeginKeeps, NotBasePkgKeeps, NotBaseEndKeeps DEF NotBaseStep
<1>6. CASE Kill
  BY <1>6, KillKeeps
<1>7. CASE Rerun
  BY <1>7, RerunKeeps
<1>8. CASE AllOver \/ UNCHANGED vars
  BY <1>8, StutterKeeps DEF AllOver
<1> QED BY <1>2, <1>3, <1>4, <1>5, <1>6, <1>7, <1>8 DEF Next, Step

LEMMA InitHolds == Init => IInv
<1> SUFFICES ASSUME Init PROVE IInv
  OBVIOUS
<1> USE DEF Init
<1>1. native \subseteq Pkg /\ foreign \subseteq Pkg /\ readable \subseteq CommonFiles
  BY AssessmentAssumption DEF CommonFiles
<1>2. loc \in Locals /\ sol \in [Checks -> Solution]
  BY EmptyTyped
<1>3. risks \subseteq Risk /\ kick \in [Files -> SUBSET Line] /\ result \in [Checks -> Results]
  BY DEF Results
<1>4. TypeOK
  BY <1>1, <1>2, <1>3, EmptyTyped DEF TypeOK, Locals, Solution, Risk
<1>5. active = Idle /\ risks = {} /\ \A c \in Checks : result[c] = "none"
  OBVIOUS
<1>6. Control /\ ReplacedInv /\ ObsoletedInv /\ RemovedInv /\ NotBaseInv
  BY <1>5 DEF Control, ReplacedInv, ObsoletedInv, RemovedInv, NotBaseInv, Current,
              Finished, Checks
<1> QED BY <1>4, <1>6 DEF IInv

(* The invariant holds in every state: of a run of preupg, a killed run    *)
(* and the runs after it, on systems that change in between.               *)
THEOREM Invariance == Spec => []IInv
BY InitHolds, NextKeeps, PTL DEF Spec

----------------------------------------------------------------------------
(* What follows of the reports.                                            *)

(* A check with a result has read everything.                              *)
LEMMA Done ==
    ASSUME IInv, NEW c \in Checks, result[c] \in Finished, NEW kind
    PROVE  Seen(c, kind) = Reported(kind) /\ Current(c)
BY DEF IInv, Control, Seen, Current, Finished, Checks

LEMMA ExpectedLists ==
    /\ Expected["replaced"] = {ReplacedLine(p) : p \in {q \in Reported("replaced") : ~NotBase(q)}}
    /\ Expected["replaced-notbase"] = {ReplacedLine(p) : p \in {q \in Reported("replaced") : NotBase(q)}}
    /\ \A f \in ObsoletedFiles :
          Expected[f] = {ObsoletedLine(p) : p \in {q \in Reported("obsoleted") : ObsoletedFile(q) = f}}
    /\ Expected["kept"] = {KeptLine(p) : p \in {q \in Reported("kept") : ~NotBase(q)}}
    /\ Expected["kept-notbase"] = {KeptLine(p) : p \in {q \in Reported("kept") : NotBase(q)}}
BY DEF Expected, Files, ReplacedFiles, ObsoletedFiles, KeptFiles, RemovedFiles

LEMMA AwaySplits ==
    ASSUME NEW S
    PROVE  Away(S) = {q \in S : NotBase(q)} /\ S \ Away(S) = {q \in S : ~NotBase(q)}
BY DEF Away

LEMMA ReplacedDone ==
    ASSUME IInv, result[Replaced] \in Finished
    PROVE  /\ SeenReplaced = Reported("replaced") /\ ReplacedLists /\ ReplacedExit
           /\ \A f \in ReplacedFiles : kick[f] = Expected[f]
<1>1. SeenReplaced = Reported("replaced") /\ ReplacedLists /\ ReplacedExit
  BY Done DEF IInv, ReplacedInv, SeenReplaced, Checks
<1> QED BY <1>1, ExpectedLists, AwaySplits DEF ReplacedLists, ReplacedFiles

LEMMA ObsoletedDone ==
    ASSUME IInv, result[Obsoleted] \in Finished
    PROVE  /\ SeenObsoleted = Reported("obsoleted") /\ ObsoletedLists /\ ObsoletedExit
           /\ \A f \in ObsoletedFiles : kick[f] = Expected[f]
<1>1. SeenObsoleted = Reported("obsoleted") /\ ObsoletedLists /\ ObsoletedExit
  BY Done DEF IInv, ObsoletedInv, SeenObsoleted, Checks
<1> QED BY <1>1, ExpectedLists DEF ObsoletedLists

LEMMA NotBaseDone ==
    ASSUME IInv, result[NotBaseCh] \in Finished
    PROVE  /\ SeenKept = Reported("kept") /\ NotBaseLists /\ NotBaseExit
           /\ \A f \in KeptFiles : kick[f] = Expected[f]
<1>1. SeenKept = Reported("kept") /\ NotBaseLists /\ NotBaseExit
  BY Done DEF IInv, NotBaseInv, SeenKept, Checks
<1> QED BY <1>1, ExpectedLists, AwaySplits DEF NotBaseLists, KeptFiles

(* Lines name their packages.                                              *)
LEMMA LineNames ==
    \A p : /\ ReplacedLine(p).old = p /\ ObsoletedLine(p).old = p
           /\ KeptLine(p).old = p /\ RemovedLine(p).old = p
BY DEF ReplacedLine, ObsoletedLine, KeptLine, RemovedLine

LEMMA ListsFollow == IInv => ListsDescribeThisRun
<1> SUFFICES ASSUME IInv, NEW c \in {Replaced, Obsoleted, NotBaseCh}, result[c] \in Finished,
                    NEW f \in FilesOf(c)
             PROVE  /\ kick[f] = Expected[f]
                    /\ kick[f] # {} => f \in exists
                    /\ f \in exists => f \in sorted
  BY DEF ListsDescribeThisRun
<1>1. CASE c = Replaced
  BY <1>1, ReplacedDone DEF FilesOf, ReplacedLists, ReplacedExit
<1>2. CASE c = Obsoleted
  BY <1>2, ObsoletedDone DEF FilesOf, ObsoletedLists, ObsoletedExit
<1>3. CASE c = NotBaseCh
  BY <1>3, NotBaseDone DEF FilesOf, NotBaseLists, NotBaseExit
<1> QED BY <1>1, <1>2, <1>3

LEMMA ResultsFollow == IInv => ResultMatchesLists
<1> SUFFICES ASSUME IInv PROVE ResultMatchesLists
  OBVIOUS
<1>1. ASSUME result[Replaced] \in Finished
      PROVE  /\ result[Replaced] = "fail" <=> kick["replaced-notbase"] # {}
             /\ result[Replaced] = "pass" <=> \A f \in ReplacedFiles : kick[f] = {}
  <2>1. /\ kick["replaced-notbase"] # {} <=> Away(SeenReplaced) # {}
        /\ kick["replaced"] # {} <=> SeenReplaced \ Away(SeenReplaced) # {}
    BY <1>1, ReplacedDone DEF ReplacedLists
  <2> QED BY <1>1, <2>1, ReplacedDone DEF ReplacedExit, ReplacedFiles, Away
<1>2. ASSUME result[Obsoleted] \in Finished
      PROVE  result[Obsoleted] = "fail" <=> \E f \in ObsoletedFiles : kick[f] # {}
  <2>1. \A p : ObsoletedFile(p) \in ObsoletedFiles
    BY DEF ObsoletedFile, ObsoletedFiles
  <2>2. (\E f \in ObsoletedFiles : kick[f] # {}) <=> SeenObsoleted # {}
    BY <1>2, <2>1, ObsoletedDone DEF ObsoletedLists
  <2> QED BY <1>2, <2>2, ObsoletedDone DEF ObsoletedExit
<1>3. ASSUME result[NotBaseCh] \in Finished
      PROVE  result[NotBaseCh] = "fail" <=> kick["kept-notbase"] # {}
  BY <1>3, NotBaseDone DEF NotBaseLists, NotBaseExit
<1>4. result[Removed] = "fail" => \E f \in RemovedFiles : kick[f] # {}
  BY DEF IInv, RemovedInv, RemovedExit, Finished
<1> QED BY <1>1, <1>2, <1>3, <1>4 DEF ResultMatchesLists

LEMMA OldsOfLists ==
    ASSUME IInv
    PROVE  /\ result[Replaced] \in Finished =>
                /\ Olds("replaced") = SeenReplaced \ Away(SeenReplaced)
                /\ Olds("replaced-notbase") = Away(SeenReplaced)
           /\ result[Obsoleted] \in Finished =>
                \A f \in ObsoletedFiles : Olds(f) = {q \in SeenObsoleted : ObsoletedFile(q) = f}
           /\ result[NotBaseCh] \in Finished =>
                /\ Olds("kept") = SeenKept \ Away(SeenKept)
                /\ Olds("kept-notbase") = Away(SeenKept)
<1>1. ASSUME result[Replaced] \in Finished
      PROVE  /\ Olds("replaced") = SeenReplaced \ Away(SeenReplaced)
             /\ Olds("replaced-notbase") = Away(SeenReplaced)
  BY <1>1, ReplacedDone, LineNames DEF ReplacedLists, Olds
<1>2. ASSUME result[Obsoleted] \in Finished, NEW f \in ObsoletedFiles
      PROVE  Olds(f) = {q \in SeenObsoleted : ObsoletedFile(q) = f}
  BY <1>2, ObsoletedDone, LineNames DEF ObsoletedLists, Olds
<1>3. ASSUME result[NotBaseCh] \in Finished
      PROVE  /\ Olds("kept") = SeenKept \ Away(SeenKept)
             /\ Olds("kept-notbase") = Away(SeenKept)
  BY <1>3, NotBaseDone, LineNames DEF NotBaseLists, Olds
<1> QED BY <1>1, <1>2, <1>3

LEMMA AdviceFollows == IInv => AdviceFitsLists
<1> SUFFICES ASSUME IInv PROVE AdviceFitsLists
  OBVIOUS
<1>1. UnsupportedChannelsLogged
  BY OldsOfLists, NotBaseDone DEF UnsupportedChannelsLogged, NotBaseExit, OptionalOnly, Unsupported
<1>2. SubscriptionsCoverLists
  <2> SUFFICES ASSUME CanName, NEW c \in {Replaced, Obsoleted, NotBaseCh}, result[c] \in Finished,
                      NEW f \in FilesOf(c), NEW p \in Olds(f), NotBase(p)
               PROVE  Change[p].chan \in sol[c].subs
    BY DEF SubscriptionsCoverLists
  <2>1. CASE c = Replaced
    BY <2>1, OldsOfLists, ReplacedDone DEF FilesOf, ReplacedFiles, ReplacedExit, Chans, Away
  <2>2. CASE c = Obsoleted
    BY <2>2, OldsOfLists, ObsoletedDone DEF FilesOf, ObsoletedExit, Chans, Away
  <2>3. CASE c = NotBaseCh
    BY <2>3, OldsOfLists, NotBaseDone DEF FilesOf, KeptFiles, NotBaseExit, Chans, Away
  <2> QED BY <2>1, <2>2, <2>3
<1> QED BY <1>1, <1>2 DEF AdviceFitsLists

LEMMA PlanFollows == IInv => FixPlanMatchesLists
<1> SUFFICES ASSUME IInv, result[Replaced] \in Finished, upgrade
             PROVE  /\ fixplan.written
                    /\ fixplan.removeme = Olds("replaced") \cup Olds("replaced-notbase")
                    /\ \A p \in fixplan.removeme : NotBase(p) => <<Replaced, "high", p>> \in risks
  BY DEF FixPlanMatchesLists
<1>1. fixplan.written /\ fixplan.removeme = SeenReplaced
  BY ReplacedDone DEF ReplacedExit
<1>2. fixplan.removeme = Olds("replaced") \cup Olds("replaced-notbase")
  BY <1>1, OldsOfLists DEF Away
<1>3. \A p \in SeenReplaced : NotBase(p) => p \in Away(SeenReplaced)
  BY DEF Away
<1>4. \A p \in Away(SeenReplaced) : <<Replaced, "high", p>> \in risks
  BY ReplacedDone DEF ReplacedLists
<1> QED BY <1>1, <1>2, <1>3, <1>4

LEMMA NoneLost == IInv => NoPackageLost
<1> SUFFICES ASSUME IInv, \A c \in Checks : result[c] \in Finished,
                    NEW p \in NativeList, Change[p].kind # "unlisted", ~Ignored(p)
             PROVE  \E f \in exists : p \in Olds(f)
  BY DEF NoPackageLost
<1>1. result[Replaced] \in Finished /\ result[Obsoleted] \in Finished
      /\ result[Removed] \in Finished /\ result[NotBaseCh] \in Finished
  BY DEF Checks
<1>2. p \in Pkg /\ Change[p].kind \in {"kept", "replaced", "obsoleted", "removed"}
  BY TablesAssumption DEF IInv, TypeOK, NativeList, Entry, Kinds
<1>3. p \in Reported(Change[p].kind)
  BY DEF Reported
<1>4. CASE Change[p].kind = "replaced"
  <2>1. p \in Olds("replaced") \cup Olds("replaced-notbase")
    BY <1>1, <1>3, <1>4, ReplacedDone, OldsOfLists
  <2> QED BY <1>1, <2>1, ReplacedDone DEF ReplacedLists, ReplacedFiles
<1>5. CASE Change[p].kind = "obsoleted"
  <2>1. ObsoletedFile(p) \in ObsoletedFiles
    BY DEF ObsoletedFile, ObsoletedFiles
  <2>2. p \in Olds(ObsoletedFile(p))
    BY <1>1, <1>3, <1>5, <2>1, ObsoletedDone, OldsOfLists
  <2>3. kick[ObsoletedFile(p)] # {}
    BY <2>2 DEF Olds
  <2> QED BY <1>1, <2>1, <2>2, <2>3, ObsoletedDone DEF ObsoletedLists
<1>6. CASE Change[p].kind = "kept"
  <2>1. \E f \in KeptFiles : p \in Olds(f)
    BY <1>1, <1>3, <1>6, NotBaseDone, OldsOfLists DEF KeptFiles
  <2>2. \A f \in KeptFiles : p \in Olds(f) => f \in exists
    BY <1>1, NotBaseDone DEF NotBaseLists, Olds
  <2> QED BY <2>1, <2>2
<1>7. CASE Change[p].kind = "removed"
  <2>1. "commondir" \in readable
    BY <1>1, ReplacedDone DEF ReplacedLists, ReplacedInputs
  <2>2. p \in SeenRemoved
    BY <1>1, <1>3, <1>7, Done DEF SeenRemoved, Checks
  <2>3. PICK f \in RemovedFiles \cap exists : RemovedLine(p) \in kick[f]
    BY <1>1, <2>1, <2>2 DEF IInv, RemovedInv, RemovedExit
  <2>4. p \in Olds(f)
    BY <2>3, LineNames DEF Olds
  <2> QED BY <2>3, <2>4
<1> QED BY <1>2, <1>4, <1>5, <1>6, <1>7

(* Every variable keeps its type, for all tables and systems.              *)
THEOREM TypesCorrect == Spec => []TypeOK
<1>1. IInv => TypeOK
  BY DEF IInv
<1> QED BY <1>1, Invariance, PTL

(* The lists of a check that has exited describe the system of this run    *)
(* and nothing else, however many runs were killed before it.              *)
THEOREM ListsAlwaysDescribeThisRun == Spec => []ListsDescribeThisRun
BY ListsFollow, Invariance, PTL

(* The exit results and the lists agree.                                   *)
THEOREM ResultAlwaysMatchesLists == Spec => []ResultMatchesLists
BY ResultsFollow, Invariance, PTL

(* The advice about channels fits the listed packages, whatever channels   *)
(* there are and in whatever order a loop reads them.                      *)
THEOREM AdviceAlwaysFitsLists == Spec => []AdviceFitsLists
BY AdviceFollows, Invariance, PTL

(* The generated fixreplaced.sh removes the listed packages, all of them   *)
(* announced.                                                              *)
THEOREM FixPlanAlwaysMatchesLists == Spec => []FixPlanMatchesLists
BY PlanFollows, Invariance, PTL

(* The four scripts together report every package of the tables.           *)
THEOREM NoPackageEverLost == Spec => []NoPackageLost
BY NoneLost, Invariance, PTL
=============================================================================
