-------------------------- MODULE PkgPost_proofs --------------------------
(***************************************************************************)
(* The safety of the post-upgrade package scripts, for every package set,  *)
(* every table and any number of power losses: no entry of fixreplaced.sh  *)
(* is dropped silently, modified files are stored before their package     *)
(* goes, and the scripts implement ReplacementContract.                    *)
(***************************************************************************)
EXTENDS PkgPost, TLAPS

(* The loops work on one package at a time: cur is used at three positions *)
(* of fixreplaced.sh only.                                                 *)
CurIdle == script = NoScript \/ at \notin {"erase1", "install", "erase2"} => cur = {}

(* The old packages that may be a part of a replacement.                   *)
Reused == (Listed("kept") \cup Listed("unlisted")) \ Missing

(* The lists are those of the tables, and files were modified in packages  *)
(* that RHEL 7 does not have.                                              *)
FromTables ==
    /\ plan.missing \subseteq Missing
    /\ plan.removeme \subseteq Listed("replaced")
    /\ modified \subseteq Listed("replaced") \cup Listed("removed")

(* What is about to be erased has been stored.                             *)
StoredFirst == at \in {"erase1", "erase2"} => cur \cap modified \subseteq saved

(* When yum is called, the old package is gone, unless it was refused.     *)
OldGone == at = "install" => cur \cap Installed \subseteq Multilib

(* What FixSettles says of an entry holds of those that the first loop has *)
(* left behind.                                                            *)
Treated(p) ==
    /\ p \in Installed => p \in Multilib
    /\ p \in told \/ Change[p].by \ Installed \subseteq Cleaned

LoopSettled ==
    script = Fix => \A p \in plan.missing :
        \/ at \in {"loop1", "erase1", "install"} /\ p \in todo \cup cur
        \/ Treated(p)

(* fixreplaced.sh works on its own lists, and the loop at the end of the   *)
(* cleanup is reached with the consent of the user only.                   *)
Announced ==
    /\ script = Fix => todo \cup cur \subseteq plan.missing \cup plan.removeme
    /\ script = Cleanup /\ at = "erase" => Consent

IInv ==
    /\ TypeOK
    /\ Announced
    /\ CurIdle
    /\ FromTables
    /\ StoredFirst
    /\ OldGone
    /\ LoopSettled
    /\ FixSettles

USE DEF Fix, Cleanup, Scripts, NoScript

(* A replacement is not itself replaced.                                   *)
LEMMA Replacements ==
    ASSUME NEW p \in Pkg
    PROVE  /\ Change[p].by \subseteq Pkg \cup NewPkg
           /\ Change[p].chan \in Channels
           /\ Change[p].by \cap Pkg \subseteq Reused
BY TablesAssumption DEF Entry, Reused

LEMMA ReusedAreKept ==
    /\ Reused \cap (Missing \cup Listed("replaced") \cup Listed("removed")) = {}
    /\ Reused \subseteq Pkg
BY DEF Reused, Listed

(* The initial states satisfy the invariant.                               *)
LEMMA InitIInv == Init => IInv
<1> SUFFICES ASSUME Init PROVE IInv
  OBVIOUS
<1> USE DEF Init
<1>1. PICK before \in SUBSET Pkg :
        /\ signed = before \ {p \in Pkg : Change[p].kind = "unlisted"}
        /\ Upgraded(before)
        /\ Assessed(before, signed)
  OBVIOUS
<1>2. PICK up \in SUBSET Upgradable(before) :
        /\ el7 = UNION {NewNames(p) : p \in up}
        /\ el6 = before \ (up \cup el7)
  BY <1>1 DEF Upgraded
<1>3. up \subseteq before
  BY <1>2 DEF Upgradable
<1>4. ASSUME NEW p \in up PROVE NewNames(p) \subseteq Pkg \cup NewPkg
  <2>1. p \in Pkg
    BY <1>3
  <2> QED BY <2>1, Replacements DEF NewNames
<1>5. el6 \subseteq Pkg /\ el7 \subseteq Pkg \cup NewPkg /\ el6 \cap el7 = {}
  BY <1>2, <1>3, <1>4
<1>6. /\ plan \in [missing : SUBSET Pkg, removeme : SUBSET Pkg]
      /\ names \subseteq Pkg
      /\ plan.missing \subseteq Missing /\ plan.removeme \subseteq Listed("replaced")
  BY <1>1 DEF Assessed, Listed
<1>7. TypeOK
  <2>1. crashes \in 0..MaxCrashes
    BY PostAssumption
  <2>2. repos \subseteq Channels
    BY DEF Channels
  <2>3. modified \subseteq el6
    OBVIOUS
  <2> QED BY <1>1, <1>5, <1>6, <2>1, <2>2, <2>3 DEF TypeOK, Positions
<1>8. FromTables
  BY <1>5, <1>6 DEF FromTables, Listed
<1>9. Announced /\ CurIdle /\ StoredFirst /\ OldGone /\ LoopSettled /\ FixSettles
  BY DEF Announced, CurIdle, StoredFirst, OldGone, LoopSettled, FixSettles
<1> QED BY <1>7, <1>8, <1>9 DEF IInv

----------------------------------------------------------------------------
(* The packages that a step of the scripts can erase.                      *)
LEMMA ErasedBy ==
    ASSUME IInv, [Next]_vars, NEW p, p \in Installed \ Installed' \/ p \in modified \ modified'
    PROVE  /\ p \in Pkg
           /\ \/ /\ at \in {"erase1", "erase2"}
                 /\ script = Fix
                 /\ p \in cur
              \/ /\ script' = Cleanup
                 /\ p \in Own \cup DebugInfo \/ Consent
<1> USE DEF system, given, IInv
<1>0. cur \subseteq Pkg /\ Own \subseteq Pkg
  BY PostAssumption DEF TypeOK
<1>1. CASE UNCHANGED vars
  BY <1>1 DEF vars, Installed
<1>2. CASE FixStep
  <2>1. CASE FixErase1 \/ FixErase2
    BY <1>0, <2>1 DEF Remove, Erase, Installed, FixErase1, FixErase2
  <2>2. CASE FixStart \/ FixLoop2 \/ FixEnd
    BY <2>2 DEF FixStart, FixLoop2, FixEnd, Installed
  <2>3. ASSUME NEW q \in Pkg, FixSave1(q) \/ FixSave2(q) PROVE FALSE
    BY <2>3 DEF FixSave1, FixSave2, Installed
  <2>4. ASSUME NEW q \in Pkg, FixInstall(q) PROVE FALSE
    <3>1. /\ UNCHANGED modified
          /\ \E got : el7' = el7 \cup got /\ el6' = el6 \ got
      BY <2>4 DEF FixInstall, Yum
    <3> QED BY <3>1 DEF Installed
  <2> QED BY <1>2, <2>1, <2>2, <2>3, <2>4 DEF FixStep
<1>3. CASE CleanupStep
  <2>1. CASE CleanupStart
    BY <1>0, <2>1 DEF CleanupStart, Remove, Installed
  <2>2. CASE CleanupGates \/ CleanupEnd
    BY <2>2 DEF CleanupGates, CleanupEnd, Installed
  <2>3. ASSUME NEW q \in Pkg, CleanupDebuginfo(q)
        PROVE  script' = Cleanup /\ p = q /\ p \in DebugInfo
    <3>1. q \in DebugInfo /\ Erase({q})
      BY <2>3 DEF CleanupDebuginfo, Installed
    <3> QED BY <2>3, <3>1 DEF CleanupDebuginfo, Erase, Remove, Installed
  <2>4. ASSUME NEW q \in Pkg, CleanupErase(q)
        PROVE  script' = Cleanup /\ p = q /\ Consent
    <3>1. Erase({q})
      BY <2>4 DEF CleanupErase, Installed
    <3> QED BY <2>4, <3>1 DEF CleanupErase, Announced, Erase, Remove, Installed
  <2> QED BY <1>3, <2>1, <2>2, <2>3, <2>4 DEF CleanupStep
<1>4. CASE Crash
  BY <1>4 DEF Crash, Installed
<1> QED BY <1>1, <1>2, <1>3, <1>4 DEF Next, AllRan

(* What every step leaves alone: a RHEL 6 package never comes back but as  *)
(* a part of a replacement, only announced packages and those of the       *)
(* cleanup go, a warning is never taken back, and only a modified file in  *)
(* place becomes a stored one.                                             *)
Frame ==
    /\ plan' = plan
    /\ conf' = conf
    /\ Installed' \cap Pkg \subseteq Installed \cup Reused
    /\ Installed \ Installed' \subseteq plan.missing \cup plan.removeme \cup Cleaned
    /\ told \subseteq told'
    /\ modified' \subseteq modified
    /\ saved \subseteq saved'
    /\ saved' \subseteq saved \cup modified

(* What rpm -e does respects the frame.                                    *)
LEMMA RemoveFrame ==
    ASSUME NEW ps, Remove(ps)
    PROVE  Installed' \subseteq Installed /\ modified' \subseteq modified
BY DEF Remove, Installed

LEMMA StepFrame == IInv /\ [Next]_vars => Frame
<1> SUFFICES ASSUME IInv, [Next]_vars PROVE Frame
  OBVIOUS
<1> DEFINE Kept == /\ plan' = plan /\ conf' = conf
                   /\ told \subseteq told' /\ saved \subseteq saved'
                   /\ saved' \subseteq saved \cup modified
           Back == Installed' \cap Pkg \subseteq Installed \cup Reused /\ modified' \subseteq modified
<1>1. Installed \ Installed' \subseteq plan.missing \cup plan.removeme \cup Cleaned
  <2> SUFFICES ASSUME NEW p \in Installed \ Installed'
               PROVE  p \in plan.missing \cup plan.removeme \cup Cleaned
    OBVIOUS
  <2>1. p \in Pkg /\ ((script = Fix /\ p \in cur) \/ p \in Own \cup DebugInfo \/ Consent)
    BY ErasedBy
  <2> QED BY <2>1, PostAssumption DEF IInv, Announced, Cleaned
<1>2. CASE UNCHANGED vars
  BY <1>1, <1>2 DEF Frame, vars, Installed
<1>3. CASE FixStep
  <2> USE DEF system, given
  <2>1. ASSUME FixStart \/ FixLoop2 \/ FixEnd PROVE Kept /\ Back
    BY <2>1 DEF FixStart, FixLoop2, FixEnd, Installed
  <2>2. ASSUME NEW p \in Pkg, FixSave1(p) \/ FixSave2(p) PROVE Kept /\ Back
    BY <2>2 DEF FixSave1, FixSave2, Save, Installed
  <2>3. ASSUME FixErase1 \/ FixErase2 PROVE Kept /\ Back
    BY <2>3, RemoveFrame DEF FixErase1, FixErase2, Erase
  <2>4. ASSUME NEW p \in Pkg, FixInstall(p) PROVE Kept /\ Back
    <3>1. /\ UNCHANGED <<modified, saved, given>>
          /\ told \subseteq told'
          /\ \E got \in SUBSET Change[p].by : el7' = el7 \cup got /\ el6' = el6 \ got
      <4>1. CASE Change[p].by \subseteq Installed
        <5>1. UNCHANGED <<el6, el7, modified, saved, given, told>>
          BY <2>4, <4>1 DEF FixInstall
        <5>2. {} \in SUBSET Change[p].by
          OBVIOUS
        <5> QED BY <5>1, <5>2
      <4>2. CASE ~(Change[p].by \subseteq Installed)
        BY <2>4, <4>2 DEF FixInstall, Yum
      <4> QED BY <4>1, <4>2
    <3> QED BY <3>1, Replacements DEF Installed
  <2>5. Kept /\ Back
    BY <1>3, <2>1, <2>2, <2>3, <2>4 DEF FixStep
  <2> QED BY <2>5, <1>1 DEF Frame
<1>4. CASE CleanupStep
  <2> USE DEF system, given
  <2>1. ASSUME CleanupGates \/ CleanupEnd PROVE Kept /\ Back
    BY <2>1 DEF CleanupGates, CleanupEnd, Installed
  <2>2. ASSUME CleanupStart PROVE Kept /\ Back
    BY <2>2, RemoveFrame DEF CleanupStart
  <2>3. ASSUME NEW p \in Pkg, CleanupDebuginfo(p) \/ CleanupErase(p) PROVE Kept /\ Back
    <3>1. UNCHANGED <<saved, plan, conf, told>>
      BY <2>3 DEF CleanupDebuginfo, CleanupErase
    <3>2. Erase({p}) \/ UNCHANGED <<el6, el7, modified>>
      BY <2>3 DEF CleanupDebuginfo, CleanupErase
    <3>3. Back
      BY <3>2, RemoveFrame DEF Erase, Installed
    <3> QED BY <3>1, <3>3
  <2>4. Kept /\ Back
    BY <1>4, <2>1, <2>2, <2>3 DEF CleanupStep
  <2> QED BY <2>4, <1>1 DEF Frame
<1>5. CASE Crash
  BY <1>5, <1>1 DEF Crash, Frame, Installed, system, given
<1> QED BY <1>2, <1>3, <1>4, <1>5 DEF Next, AllRan

(* What a replacement needs is erased by the cleanup alone, of which the   *)
(* names of old packages among it may be.                                  *)
LEMMA ReplacementStays ==
    ASSUME IInv, [Next]_vars, NEW p \in Pkg, NEW x \in Change[p].by, x \in Installed \ Installed'
    PROVE  x \in Pkg /\ x \in Cleaned
<1>1. x \in Pkg
  BY ErasedBy
<1>2. x \in Reused
  BY <1>1, Replacements
<1>3. x \notin plan.missing \cup plan.removeme
  BY <1>2, ReusedAreKept DEF IInv, FromTables
<1> QED BY <1>1, <1>3, StepFrame DEF Frame

(* What holds of a treated entry stays true.                               *)
LEMMA TreatedStays ==
    ASSUME IInv, [Next]_vars, NEW p \in plan.missing, Treated(p)
    PROVE  Treated(p)'
<1>1. p \in Pkg /\ p \notin Reused
  BY ReusedAreKept DEF IInv, TypeOK, FromTables
<1>2. Frame
  BY StepFrame
<1>3. p \in Installed' => p \in Multilib
  BY <1>1, <1>2 DEF Frame, Treated
<1>4. p \in told => p \in told'
  BY <1>2 DEF Frame
<1>5. Change[p].by \ Installed \subseteq Cleaned => Change[p].by \ Installed' \subseteq Cleaned
  BY <1>1, ReplacementStays
<1>6. Cleaned' = Cleaned
  BY <1>2 DEF Frame, Cleaned, Consent
<1> QED BY <1>3, <1>4, <1>5, <1>6 DEF Treated

(* A settled replacement stays settled, unless it names an old package and *)
(* the user asked for the clean up.                                        *)
LEMMA SettledStays ==
    ASSUME IInv, [Next]_vars, NEW p \in ReplacedPkgs, Settled(p)
    PROVE  Settled(p)' \/ (Consent /\ Change[p].by \cap Pkg # {})
<1>1. p \in Pkg /\ p \notin Reused
  BY ReusedAreKept DEF ReplacedPkgs, Listed
<1>2. Frame
  BY StepFrame
<1>3. p \notin Installed'
  BY <1>1, <1>2 DEF Frame, Settled
<1>4. ASSUME NEW x \in Change[p].by, x \in Installed \ Installed'
      PROVE  Consent /\ x \in Pkg
  BY <1>1, <1>4, ReplacementStays DEF Cleaned, ReplacedPkgs
<1>5. p \in told => p \in told'
  BY <1>2 DEF Frame
<1> QED BY <1>3, <1>4, <1>5 DEF Settled

----------------------------------------------------------------------------
(* Types are kept by every step.                                           *)
LEMMA StepTypeOK == IInv /\ [Next]_vars => TypeOK'
<1> SUFFICES ASSUME IInv, [Next]_vars PROVE TypeOK'
  OBVIOUS
<1> USE DEF IInv, TypeOK, Positions, Goto, End, system, given
<1>0. /\ Own \subseteq Pkg
      /\ crashes + 1 \in 0..MaxCrashes \/ ~(crashes < MaxCrashes)
  BY PostAssumption
<1>1. CASE UNCHANGED vars
  BY <1>1 DEF vars
<1>2. CASE FixStep
  <2>1. CASE FixStart \/ FixLoop2 \/ FixEnd
    BY <2>1 DEF FixStart, FixLoop2, FixEnd
  <2>2. ASSUME NEW p \in Pkg, FixSave1(p) \/ FixSave2(p) PROVE TypeOK'
    BY <2>2 DEF FixSave1, FixSave2, Save
  <2>3. CASE FixErase1 \/ FixErase2
    BY <2>3 DEF FixErase1, FixErase2, Erase, Remove
  <2>4. ASSUME NEW p \in Pkg, FixInstall(p) PROVE TypeOK'
    <3>1. /\ UNCHANGED <<modified, saved, given, script, todo, ran, crashes>>
          /\ cur' = {} /\ at' = "loop1"
          /\ told' \in {told, told \cup {p}}
          /\ source' \in {source, "on"}
      BY <2>4 DEF FixInstall
    <3>2. CASE Change[p].by \subseteq Installed
      BY <2>4, <3>1, <3>2 DEF FixInstall
    <3>3. CASE ~(Change[p].by \subseteq Installed)
      <4>1. PICK got \in SUBSET Change[p].by : el7' = el7 \cup got /\ el6' = el6 \ got
        BY <2>4, <3>3 DEF FixInstall, Yum
      <4>2. got \subseteq Pkg \cup NewPkg /\ modified \cap got = {}
        BY Replacements, ReusedAreKept DEF FromTables
      <4>3. /\ el6' \subseteq Pkg /\ el7' \subseteq Pkg \cup NewPkg
            /\ el6' \cap el7' = {} /\ modified' \subseteq el6'
        BY <3>1, <4>1, <4>2
      <4> QED BY <3>1, <4>3
    <3> QED BY <3>2, <3>3
  <2> QED BY <1>2, <2>1, <2>2, <2>3, <2>4 DEF FixStep
<1>3. CASE CleanupStep
  <2>1. CASE CleanupGates \/ CleanupEnd
    BY <2>1 DEF CleanupGates, CleanupEnd
  <2>2. CASE CleanupStart
    BY <2>2, <1>0 DEF CleanupStart, Remove
  <2>3. ASSUME NEW p \in Pkg, CleanupDebuginfo(p) \/ CleanupErase(p) PROVE TypeOK'
    <3>1. /\ UNCHANGED <<saved, given, source, script, at, cur, ran, told, crashes>>
          /\ todo' = todo \ {p}
      BY <2>3 DEF CleanupDebuginfo, CleanupErase
    <3>2. Erase({p}) \/ UNCHANGED <<el6, el7, modified>>
      BY <2>3 DEF CleanupDebuginfo, CleanupErase
    <3> QED BY <3>1, <3>2 DEF Erase, Remove
  <2> QED BY <1>3, <2>1, <2>2, <2>3 DEF CleanupStep
<1>4. CASE Crash
  BY <1>4, <1>0, PostAssumption DEF Crash
<1> QED BY <1>1, <1>2, <1>3, <1>4 DEF Next, AllRan

(* The strengthened invariant is inductive.                                *)
LEMMA StepIInv == IInv /\ [Next]_vars => IInv'
<1> SUFFICES ASSUME IInv, [Next]_vars PROVE IInv'
  OBVIOUS
<1> DEFINE Loops == Announced /\ CurIdle /\ StoredFirst /\ OldGone /\ LoopSettled /\ FixSettles
<1>0. /\ TypeOK' /\ Frame
      /\ \A p \in plan.missing : Treated(p) => Treated(p)'
      /\ plan.missing \subseteq Pkg
      /\ FixSettles <=> (Fix \in ran => \A p \in plan.missing : Treated(p))
      /\ FixSettles' <=> (Fix \in ran' => \A p \in plan'.missing : Treated(p)')
  BY StepTypeOK, StepFrame, TreatedStays DEF IInv, TypeOK, FixSettles, Treated
<1>1. FromTables'
  BY <1>0 DEF IInv, FromTables, Frame
<1>2. Loops'
  <2> USE DEF Goto, End, system, given, Announced
  <2>0. plan' = plan /\ Consent' = Consent /\ modified' \subseteq modified /\ saved \subseteq saved'
    BY <1>0 DEF Frame, Consent
  <2>1. CASE UNCHANGED vars
    BY <2>1, <1>0 DEF vars, IInv, Announced, Consent, CurIdle, StoredFirst, OldGone, LoopSettled, Installed
  <2> USE DEF IInv, CurIdle, StoredFirst, OldGone, LoopSettled
  <2>2. CASE FixStep
    <3>1. CASE FixStart \/ FixLoop2 \/ FixEnd
      BY <3>1, <1>0, <2>0 DEF FixStart, FixLoop2, FixEnd
    <3>2. ASSUME NEW p \in Pkg, FixSave1(p) PROVE Loops'
      BY <3>2, <1>0, <2>0 DEF FixSave1, Save, Installed
    <3>3. CASE FixErase1
      BY <3>3, <1>0, <2>0 DEF FixErase1, Erase, Remove, Installed
    <3>4. ASSUME NEW p \in Pkg, FixInstall(p) PROVE Loops'
      <4>1. cur' = {} /\ at' = "loop1" /\ todo' = todo /\ script' = script /\ ran' = ran
        BY <3>4 DEF FixInstall
      <4>2. p \in plan.missing => Treated(p)'
        <5> SUFFICES ASSUME p \in plan.missing PROVE Treated(p)'
          OBVIOUS
        <5>1. p \in Installed => p \in Multilib
          BY <3>4 DEF FixInstall
        <5>2. p \notin Reused
          BY ReusedAreKept DEF FromTables
        <5>3. p \in Installed' => p \in Multilib
          BY <5>1, <5>2, <1>0 DEF Frame
        <5>4. Change[p].by \subseteq Installed' \/ p \in told'
          <6>1. CASE Change[p].by \subseteq Installed
            BY <3>4, <6>1 DEF FixInstall, Installed
          <6>2. CASE ~(Change[p].by \subseteq Installed)
            <7>1. PICK got : /\ el7' = el7 \cup got /\ el6' = el6 \ got
                             /\ told' = IF Change[p].by \subseteq Installed \cup got
                                          THEN told ELSE told \cup {p}
              BY <3>4, <6>2 DEF FixInstall, Yum
            <7> QED BY <7>1 DEF Installed
          <6> QED BY <6>1, <6>2
        <5> QED BY <5>3, <5>4 DEF Treated
      <4> QED BY <3>4, <4>1, <4>2, <1>0, <2>0 DEF FixInstall
    <3>5. ASSUME NEW p \in Pkg, FixSave2(p) PROVE Loops'
      BY <3>5, <1>0, <2>0 DEF FixSave2, Save
    <3>6. CASE FixErase2
      BY <3>6, <1>0, <2>0 DEF FixErase2, Erase, Remove
    <3> QED BY <2>2, <3>1, <3>2, <3>3, <3>4, <3>5, <3>6 DEF FixStep
  <2>3. CASE CleanupStep
    <3>1. CASE CleanupStart \/ CleanupGates \/ CleanupEnd
      BY <3>1, <1>0, <2>0 DEF CleanupStart, CleanupGates, CleanupEnd, MayClean, Consent
    <3>2. ASSUME NEW p \in Pkg, CleanupDebuginfo(p) \/ CleanupErase(p) PROVE Loops'
      BY <3>2, <1>0, <2>0 DEF CleanupDebuginfo, CleanupErase
    <3> QED BY <2>3, <3>1, <3>2 DEF CleanupStep
  <2>4. CASE Crash
    BY <2>4, <1>0, <2>0 DEF Crash
  <2> QED BY <2>1, <2>2, <2>3, <2>4 DEF Next, AllRan
<1> QED BY <1>0, <1>1, <1>2 DEF IInv

----------------------------------------------------------------------------
(* TypeOK and the invariants it is strengthened with hold in every state.  *)
THEOREM Invariance == Spec => []IInv
<1>1. Init => IInv
  BY InitIInv
<1>2. IInv /\ [Next]_vars => IInv'
  BY StepIInv
<1> QED BY <1>1, <1>2, PTL DEF Spec

(* The types of the variables along every behaviour: the entries the       *)
(* scripts still have to treat, and the package in work, are packages.     *)
THEOREM TypesCorrect == Spec => []TypeOK
<1>1. IInv => TypeOK
  BY DEF IInv
<1> QED BY <1>1, Invariance, PTL

(* fixreplaced.sh drops no entry of its list silently before it has run to *)
(* its end, and the cleanup undoes that for the packages it may erase only *)
(* - also when the replacement names packages of the old system, and when  *)
(* rpm -e refuses a name that is installed for two architectures.          *)
THEOREM FixSettlesAlways == Spec => []FixSettles
<1>1. IInv => FixSettles
  BY DEF IInv
<1> QED BY <1>1, Invariance, PTL

(* No modified file is lost that was not stored, unless the cleanup was    *)
(* entitled to erase its package.                                          *)
THEOREM ModifiedFilesAlwaysKept == Spec => ModifiedFilesKept
<1>1. ASSUME IInv, [Next]_vars
      PROVE  [\A p \in modified \ modified' :
                \/ p \in saved
                \/ script' = Cleanup /\ (Consent \/ p \in Own \cup DebugInfo)]_vars
  BY <1>1, ErasedBy DEF IInv, StoredFirst
<1> QED BY <1>1, Invariance, PTL DEF Spec, ModifiedFilesKept

(* Without consent only announced packages are erased.                     *)
THEOREM ErasuresAlwaysAnnounced == Spec => ErasuresAnnounced
<1>1. ASSUME IInv, [Next]_vars
      PROVE  [\A p \in Installed \ Installed' :
                Consent \/ p \in plan.missing \cup plan.removeme \cup Own \cup DebugInfo]_vars
  BY <1>1, ErasedBy DEF IInv, Announced
<1> QED BY <1>1, Invariance, PTL DEF Spec, ErasuresAnnounced

----------------------------------------------------------------------------
(* The scripts implement the contract on the replaced packages.            *)
THEOREM ContractRefined == Spec => ImplementsContract
<1>1. ASSUME IInv, NEW p \in ReplacedPkgs, Settled(p)
      PROVE  DataOf(p) # "inplace"
  BY <1>1 DEF IInv, TypeOK, Settled, Installed, DataOf
<1>2. Init => RC!Init
  <2> SUFFICES ASSUME Init PROVE RC!Init
    OBVIOUS
  <2>1. IInv
    BY InitIInv
  <2> QED BY <2>1, <1>1 DEF RC!Init, RC!Data, DataOf, Consent
<1>3. ASSUME IInv, [Next]_vars
      PROVE  RC!Next
  <2>1. IInv'
    BY <1>3, StepIInv
  <2>2. Frame
    BY <1>3, StepFrame
  <2>3. ReplacedPkgs \subseteq Pkg
    BY DEF ReplacedPkgs, Listed
  <2>4. ASSUME NEW p \in ReplacedPkgs
        PROVE  /\ Settled(p) => Settled(p)' \/ (Consent /\ Change[p].by \cap Pkg # {})
               /\ Settled(p)' => DataOf(p)' # "inplace"
               /\ \/ DataOf(p)' = DataOf(p)
                  \/ DataOf(p) = "inplace" /\ DataOf(p)' = "saved"
                  \/ Consent /\ DataOf(p) = "inplace" /\ DataOf(p)' = "none"
    <3>1. Settled(p) => Settled(p)' \/ (Consent /\ Change[p].by \cap Pkg # {})
      BY <1>3, SettledStays
    <3>2. Settled(p)' => DataOf(p)' # "inplace"
      BY <2>1 DEF IInv, TypeOK, Settled, Installed, DataOf
    <3>3. p \in modified \ modified' => p \in saved \/ Consent
      BY <1>3, ErasedBy DEF IInv, StoredFirst, ReplacedPkgs
    <3> QED BY <3>1, <3>2, <3>3, <2>2 DEF Frame, DataOf
  <2>5. Consent' = Consent
    BY <2>2 DEF Frame, Consent
  <2> QED BY <2>4, <2>5 DEF RC!Next, RC!Allowed, RC!Data, DataOf
<1>4. ASSUME IInv, [Next]_vars PROVE [RC!Next]_<<{p \in ReplacedPkgs : Settled(p)}, [p \in ReplacedPkgs |-> DataOf(p)], Consent>>
  BY <1>3, <1>4
<1> QED BY <1>2, <1>4, Invariance, PTL DEF Spec, ImplementsContract, RC!Spec
============================================================================
