----------------------- MODULE ServicesControl_proofs -----------------------
(***************************************************************************)
(* What check and services.py keep, for every set of services and units,   *)
(* every relation between their names and any number of power losses.      *)
(***************************************************************************)
EXTENDS ServicesControl, TLAPS

Looking == {"check", "on", "xinetd", "off"}

(* What each loop has still to read.                                       *)
Scope ==
    /\ phase = "on" => todo \subseteq on
    /\ phase = "xinetd" => todo \subseteq Xinetd
    /\ phase = "off" => todo \subseteq Sysv \ on
    /\ phase = "disabling" => todo \subseteq Determined(postdis)
    /\ phase = "enabling" => todo \subseteq Determined(posten)

(* The lists have nothing of the other state.                              *)
Apart == enlog \subseteq on \cup Xinetd /\ dislog \subseteq Sysv \ on

(* The services that a loop has read are on its list, or announced.        *)
OnRead(s) == phase # "check" /\ (phase = "on" => s \notin todo)
OffRead(s) == phase \notin {"check", "on", "xinetd"} /\ (phase = "off" => s \notin todo)

Accounted ==
    /\ \A s \in on : inputs /\ OnRead(s) =>
         IF s \in native THEN s \in enlog ELSE <<"will not be enabled", s>> \in risks
    /\ \A s \in Sysv \ on : inputs /\ OffRead(s) =>
         IF s \in native THEN s \in dislog ELSE <<"will be disabled", s>> \in risks

(* The copies of the lists, which are those of an earlier run where this   *)
(* one has no list.                                                        *)
Copies ==
    /\ phase \in Looking => posten \in OldLists /\ postdis \in OldLists
    /\ phase \notin Looking /\ inputs => enlog \in {{}, posten}
    /\ phase \notin Looking /\ inputs => dislog \in {{}, postdis}

(* The copies, and the units before the lists are applied.                 *)
Copied == Copies /\ (phase \in Looking \cup {"checked"} => enabled = upgraded)


(* What the loops of services.py have made of the units they have read.    *)
Disabled ==
    \A u \in Determined(postdis) : Handled(u) =>
        /\ (phase = "disabling" /\ u \notin todo) => u \notin enabled
        /\ phase = "enable" => u \notin enabled
        /\ (phase \in {"enabling", "done"} /\ u \notin Reached(posten)) => u \notin enabled

Enabled ==
    \A u \in Determined(posten) : Handled(u) /\ u \notin Static =>
        (phase = "done" \/ (phase = "enabling" /\ u \notin todo) => u \in enabled)

IInv ==
    /\ TypeOK /\ Scope /\ Apart /\ Accounted /\ Copied
    /\ Disabled /\ Enabled /\ OthersUntouched

----------------------------------------------------------------------------
(* What determine_services finds are units; among them the unit of every   *)
(* service that has one.                                                   *)
LEMMA DeterminedUnits ==
    ASSUME NEW S, S \subseteq Service
    PROVE  /\ Determined(S) \subseteq Unit
           /\ \A s \in S : OwnUnit[s] # NoUnit => OwnUnit[s] \in Determined(S)
BY ServicesAssumption DEF Determined, find_service_files

(* What systemctl is asked to handle along with a unit is reached.         *)
LEMMA WithReached ==
    ASSUME NEW S, NEW u \in Unit, u \in Determined(S), Handled(u)
    PROVE  With(u) \subseteq Reached(S) /\ With(u) \subseteq Unit /\ u \in With(u)
BY ServicesAssumption DEF Reached, With

(* The copies of the lists name services.                                  *)
LEMMA CopiesAreServices ==
    TypeOK => posten \subseteq Service /\ postdis \subseteq Service
BY ServicesAssumption DEF TypeOK, Service

(* Before services.py runs, no unit differs from what the upgrade left.    *)
LEMMA UnitsUntouched ==
    ASSUME phase' \in Looking \cup {"checked", "start", "failed"}, enabled' = upgraded'
    PROVE  Disabled' /\ Enabled' /\ OthersUntouched'
BY DEF Disabled, Enabled, OthersUntouched, Looking

(* After check has ended, the lists stay.                                  *)
LEMMA ListsUntouched ==
    ASSUME IInv, phase \notin Looking, phase' \notin Looking,
           UNCHANGED <<source, logs>>
    PROVE  Apart' /\ Accounted' /\ Copies'
BY DEF IInv, Apart, Accounted, OnRead, OffRead, Copied, Copies, Looking, source, logs

----------------------------------------------------------------------------
(* The steps of check.                                                     *)

LEMMA CheckBeginKeeps == IInv /\ CheckBegin => IInv'
<1> SUFFICES ASSUME IInv, CheckBegin PROVE IInv'
  OBVIOUS
<1> USE DEF CheckBegin, Enter, source, logs, target, Looking
<1>1. TypeOK'
  BY DEF IInv, TypeOK, Service, Phases
<1>2. Scope' /\ Apart'
  BY DEF IInv, Scope, Apart
<1>3. Accounted'
  BY DEF IInv, TypeOK, Accounted, OnRead, OffRead
<1>4. Copied' /\ enabled' = upgraded'
  BY DEF IInv, Copied, Copies
<1> QED BY <1>1, <1>2, <1>3, <1>4, UnitsUntouched DEF IInv

LEMMA CheckAbortKeeps == IInv /\ CheckAbort => IInv'
<1> SUFFICES ASSUME IInv, CheckAbort PROVE IInv'
  OBVIOUS
<1> USE DEF CheckAbort, Enter, source, logs, target, Looking
<1>1. TypeOK'
  BY DEF IInv, TypeOK, Service, Phases
<1>2. Scope' /\ Apart'
  BY DEF IInv, Scope, Apart
<1>3. Accounted'
  BY DEF Accounted
<1>4. Copied' /\ enabled' = upgraded'
  BY DEF IInv, Copied, Copies
<1> QED BY <1>1, <1>2, <1>3, <1>4, UnitsUntouched DEF IInv

(* The body shared by two loops records the name, or announces it.         *)
LEMMA CandidateRecorded ==
    ASSUME TypeOK, NEW s \in Service, EnableCandidate(s)
    PROVE  /\ enlog \subseteq enlog' /\ enlog' \subseteq (enlog \cup {s}) \cap native
           /\ risks \subseteq risks'
           /\ risks' \subseteq {"disabled by default", "will not be enabled", "will be disabled"} \X Service
           /\ IF s \in native THEN s \in enlog' ELSE <<"will not be enabled", s>> \in risks'
<1> DEFINE Risk == {"disabled by default", "will not be enabled", "will be disabled"} \X Service
<1>1. native \subseteq packaged /\ enlog \subseteq native /\ risks \subseteq Risk
  BY DEF TypeOK
<1>2. \A kind \in {"disabled by default", "will not be enabled"} : <<kind, s>> \in Risk
  OBVIOUS
<1>3. DefaultRisk(s) \subseteq Risk
  BY <1>2 DEF DefaultRisk
<1> HIDE DEF Risk
<1>4. CASE s \notin packaged \/ s \notin native
  BY <1>1, <1>2, <1>4 DEF EnableCandidate, Risk
<1>5. CASE ~(s \notin packaged \/ s \notin native)
  BY <1>1, <1>3, <1>5 DEF EnableCandidate, Risk
<1> QED BY <1>4, <1>5

LEMMA OnServiceKeeps ==
    ASSUME IInv, NEW s \in Service, OnService(s)
    PROVE  IInv'
<1> USE DEF OnService, source, target, Looking
<1>0. /\ enlog \subseteq enlog' /\ enlog' \subseteq (enlog \cup {s}) \cap native
      /\ risks \subseteq risks'
      /\ risks' \subseteq {"disabled by default", "will not be enabled", "will be disabled"} \X Service
      /\ IF s \in native THEN s \in enlog' ELSE <<"will not be enabled", s>> \in risks'
  BY CandidateRecorded DEF IInv
<1>1. TypeOK'
  BY <1>0 DEF IInv, TypeOK, Copied, Copies, Phases
<1>2. Scope' /\ Apart'
  BY <1>0 DEF IInv, Scope, Apart
<1>3. Accounted'
  BY <1>0 DEF IInv, TypeOK, Accounted, OnRead, OffRead
<1>4. Copied' /\ enabled' = upgraded'
  BY DEF IInv, Copied, Copies
<1> QED BY <1>1, <1>2, <1>3, <1>4, UnitsUntouched DEF IInv

LEMMA OnDoneKeeps == IInv /\ OnDone => IInv'
<1> SUFFICES ASSUME IInv, OnDone PROVE IInv'
  OBVIOUS
<1> USE DEF OnDone, Enter, source, logs, target, Looking
<1>1. TypeOK'
  BY DEF IInv, TypeOK, Service, Phases
<1>2. Scope' /\ Apart'
  BY DEF IInv, Scope, Apart
<1>3. Accounted'
  BY DEF IInv, TypeOK, Accounted, OnRead, OffRead
<1>4. Copied' /\ enabled' = upgraded'
  BY DEF IInv, Copied, Copies
<1> QED BY <1>1, <1>2, <1>3, <1>4, UnitsUntouched DEF IInv

LEMMA XinetdServiceKeeps ==
    ASSUME IInv, NEW s \in Service, XinetdService(s)
    PROVE  IInv'
<1> USE DEF XinetdService, source, target, Looking
<1>0. /\ enlog \subseteq enlog' /\ enlog' \subseteq (enlog \cup {s}) \cap native
      /\ risks \subseteq risks'
      /\ risks' \subseteq {"disabled by default", "will not be enabled", "will be disabled"} \X Service
  <2>1. CASE s \in xfiles
    BY <2>1, CandidateRecorded DEF IInv
  <2>2. CASE s \notin xfiles
    BY <2>2 DEF IInv, TypeOK
  <2> QED BY <2>1, <2>2
<1>1. TypeOK'
  BY <1>0 DEF IInv, TypeOK, Copied, Copies, Phases
<1>2. Scope' /\ Apart'
  BY <1>0 DEF IInv, Scope, Apart
<1>3. Accounted'
  BY <1>0 DEF IInv, TypeOK, Accounted, OnRead, OffRead
<1>4. Copied' /\ enabled' = upgraded'
  BY DEF IInv, Copied, Copies
<1> QED BY <1>1, <1>2, <1>3, <1>4, UnitsUntouched DEF IInv

LEMMA XinetdDoneKeeps == IInv /\ XinetdDone => IInv'
<1> SUFFICES ASSUME IInv, XinetdDone PROVE IInv'
  OBVIOUS
<1> USE DEF XinetdDone, Enter, source, logs, target, Looking
<1>1. TypeOK'
  BY DEF IInv, TypeOK, Service, Phases
<1>2. Scope' /\ Apart'
  BY DEF IInv, Scope, Apart
<1>3. Accounted'
  BY DEF IInv, TypeOK, Accounted, OnRead, OffRead
<1>4. Copied' /\ enabled' = upgraded'
  BY DEF IInv, Copied, Copies
<1> QED BY <1>1, <1>2, <1>3, <1>4, UnitsUntouched DEF IInv

LEMMA OffServiceKeeps ==
    ASSUME IInv, NEW s \in Service, OffService(s)
    PROVE  IInv'
<1> USE DEF OffService, source, target, Looking
<1>0. s \in Sysv \ on /\ native \subseteq packaged
  BY DEF IInv, Scope, TypeOK
<1>1. TypeOK'
  <2>1. dislog' \subseteq native \cap Sysv
    BY <1>0 DEF IInv, TypeOK
  <2>2. risks' \subseteq {"disabled by default", "will not be enabled", "will be disabled"} \X Service
    <3> DEFINE Risk == {"disabled by default", "will not be enabled", "will be disabled"} \X Service
    <3>1. risks \subseteq Risk /\ <<"will be disabled", s>> \in Risk
      BY DEF IInv, TypeOK
    <3> HIDE DEF Risk
    <3>2. risks' \subseteq Risk
      BY <3>1
    <3> QED BY <3>2 DEF Risk
  <2> QED BY <2>1, <2>2 DEF IInv, TypeOK, Copied, Copies, Phases
<1>2. Scope' /\ Apart'
  BY DEF IInv, Scope, Apart
<1>3. Accounted'
  BY DEF IInv, TypeOK, Accounted, OnRead, OffRead
<1>4. Copied' /\ enabled' = upgraded'
  BY DEF IInv, Copied, Copies
<1> QED BY <1>1, <1>2, <1>3, <1>4, UnitsUntouched DEF IInv

LEMMA CheckEndKeeps == IInv /\ CheckEnd => IInv'
<1> SUFFICES ASSUME IInv, CheckEnd PROVE IInv'
  OBVIOUS
<1> USE DEF CheckEnd, Copy, Enter, source, target, Looking
<1>1. TypeOK'
  BY DEF IInv, TypeOK, Copied, Copies, Service, Phases
<1>2. Scope' /\ Apart'
  BY DEF IInv, Scope, Apart
<1>3. Accounted'
  BY DEF IInv, TypeOK, Accounted, OnRead, OffRead
<1>4. Copied' /\ enabled' = upgraded'
  BY DEF IInv, Copied, Copies
<1> QED BY <1>1, <1>2, <1>3, <1>4, UnitsUntouched DEF IInv

LEMMA UpgradeKeeps == IInv /\ Upgrade => IInv'
<1> SUFFICES ASSUME IInv, Upgrade PROVE IInv'
  OBVIOUS
<1> USE DEF Upgrade, Enter, source, logs, Looking
<1>1. TypeOK'
  BY DEF IInv, TypeOK, Service, Phases
<1>2. Scope' /\ Apart'
  BY DEF IInv, Scope, Apart
<1>3. Accounted' /\ Copied'
  BY ListsUntouched DEF IInv, Copied
<1>4. enabled' = upgraded'
  OBVIOUS
<1> QED BY <1>1, <1>2, <1>3, <1>4, UnitsUntouched DEF IInv

----------------------------------------------------------------------------
(* The steps of services.py.                                               *)

LEMMA ParsePresetfileKeeps == IInv /\ ParsePresetfile => IInv'
<1> SUFFICES ASSUME IInv, ParsePresetfile PROVE IInv'
  OBVIOUS
<1> USE DEF ParsePresetfile, Enter, source, logs, target
<1>1. TypeOK'
  BY DEF IInv, TypeOK, Service, Phases
<1>2. Scope'
  BY DEF Scope
<1>3. Apart' /\ Accounted' /\ Copied'
  BY ListsUntouched DEF IInv, Copied, Looking
<1>4. Disabled' /\ Enabled'
  BY DEF Disabled, Enabled
<1>5. OthersUntouched'
  BY DEF IInv, OthersUntouched
<1> QED BY <1>1, <1>2, <1>3, <1>4, <1>5 DEF IInv

LEMMA DisableServicesKeeps == IInv /\ DisableServices => IInv'
<1> SUFFICES ASSUME IInv, DisableServices PROVE IInv'
  OBVIOUS
<1> USE DEF DisableServices, Enter, source, logs, target
<1>0. Determined(postdis) \subseteq Unit
  BY DeterminedUnits, CopiesAreServices DEF IInv
<1>1. TypeOK'
  BY <1>0 DEF IInv, TypeOK, Service, Phases
<1>2. Scope'
  BY DEF Scope
<1>3. Apart' /\ Accounted' /\ Copied'
  BY ListsUntouched DEF IInv, Copied, Looking
<1>4. Disabled' /\ Enabled'
  <2>1. CASE open_file(postdis)
    BY <2>1 DEF Disabled, Enabled
  <2>2. CASE ~open_file(postdis)
    BY <2>2 DEF Disabled, Enabled, Determined, open_file
  <2> QED BY <2>1, <2>2
<1>5. OthersUntouched'
  BY DEF IInv, OthersUntouched
<1> QED BY <1>1, <1>2, <1>3, <1>4, <1>5 DEF IInv

LEMMA DisableUnitKeeps ==
    ASSUME IInv, NEW u \in Unit, DisableUnit(u)
    PROVE  IInv'
<1> USE DEF DisableUnit, source, logs
<1>0. u \in Determined(postdis) /\ (Handled(u) => With(u) \subseteq Reached(postdis) /\ u \in With(u))
  BY WithReached DEF IInv, Scope
<1>a. enabled' = IF Handled(u) THEN enabled \ With(u) ELSE enabled
  BY DEF check_preset, control_service, Handled
<1>1. TypeOK'
  BY <1>a DEF IInv, TypeOK, Phases
<1>2. Scope'
  BY DEF IInv, Scope
<1>3. Apart' /\ Accounted' /\ Copied'
  BY ListsUntouched DEF IInv, Copied, Looking
<1>4. Disabled' /\ Enabled'
  <2>1. /\ \A v \in Determined(postdis) : Handled(v) /\ v \notin todo' => v \notin enabled'
    BY <1>0, <1>a DEF IInv, Disabled
  <2> QED BY <2>1 DEF Disabled, Enabled
<1>5. OthersUntouched'
  BY <1>0, <1>a DEF IInv, OthersUntouched, Reached, Determined
<1> QED BY <1>1, <1>2, <1>3, <1>4, <1>5 DEF IInv

LEMMA DisableDoneKeeps == IInv /\ DisableDone => IInv'
<1> SUFFICES ASSUME IInv, DisableDone PROVE IInv'
  OBVIOUS
<1> USE DEF DisableDone, Enter, source, logs, target
<1>1. TypeOK'
  BY DEF IInv, TypeOK, Service, Phases
<1>2. Scope'
  BY DEF Scope
<1>3. Apart' /\ Accounted' /\ Copied'
  BY ListsUntouched DEF IInv, Copied, Looking
<1>4. Disabled' /\ Enabled'
  BY DEF IInv, Disabled, Enabled
<1>5. OthersUntouched'
  BY DEF IInv, OthersUntouched
<1> QED BY <1>1, <1>2, <1>3, <1>4, <1>5 DEF IInv

LEMMA EnableServicesKeeps == IInv /\ EnableServices => IInv'
<1> SUFFICES ASSUME IInv, EnableServices PROVE IInv'
  OBVIOUS
<1> USE DEF EnableServices, Enter, source, logs, target
<1>0. Determined(posten) \subseteq Unit
  BY DeterminedUnits, CopiesAreServices DEF IInv
<1>1. TypeOK'
  BY <1>0 DEF IInv, TypeOK, Service, Phases
<1>2. Scope'
  BY DEF Scope
<1>3. Apart' /\ Accounted' /\ Copied'
  BY ListsUntouched DEF IInv, Copied, Looking
<1>4. Disabled' /\ Enabled'
  BY DEF IInv, Disabled, Enabled
<1>5. OthersUntouched'
  BY DEF IInv, OthersUntouched
<1> QED BY <1>1, <1>2, <1>3, <1>4, <1>5 DEF IInv

LEMMA EnableUnitKeeps ==
    ASSUME IInv, NEW u \in Unit, EnableUnit(u)
    PROVE  IInv'
<1> USE DEF EnableUnit, source, logs
<1>0. /\ u \in Determined(posten)
      /\ Handled(u) => With(u) \subseteq Reached(posten) /\ With(u) \subseteq Unit /\ u \in With(u)
  BY WithReached DEF IInv, Scope
<1>a. enabled' = IF Handled(u) THEN enabled \cup (With(u) \ Static) ELSE enabled
  BY DEF check_preset, control_service, Handled
<1>1. TypeOK'
  BY <1>0, <1>a DEF IInv, TypeOK, Phases
<1>2. Scope'
  BY DEF IInv, Scope
<1>3. Apart' /\ Accounted' /\ Copied'
  BY ListsUntouched DEF IInv, Copied, Looking
<1>b. Reached(posten)' = Reached(posten) /\ Determined(posten)' = Determined(posten)
      /\ Determined(postdis)' = Determined(postdis) /\ Reached(postdis)' = Reached(postdis)
  BY DEF Reached, Determined
<1>4. Disabled'
  BY <1>0, <1>a, <1>b DEF IInv, Disabled, Handled
<1>5. Enabled'
  BY <1>0, <1>a, <1>b DEF IInv, Enabled, Handled
<1>6. OthersUntouched'
  BY <1>0, <1>a, <1>b DEF IInv, OthersUntouched
<1> QED BY <1>1, <1>2, <1>3, <1>4, <1>5, <1>6 DEF IInv

LEMMA EnableDoneKeeps == IInv /\ EnableDone => IInv'
<1> SUFFICES ASSUME IInv, EnableDone PROVE IInv'
  OBVIOUS
<1> USE DEF EnableDone, Enter, source, logs, target
<1>1. TypeOK'
  BY DEF IInv, TypeOK, Service, Phases
<1>2. Scope'
  BY DEF Scope
<1>3. Apart' /\ Accounted' /\ Copied'
  BY ListsUntouched DEF IInv, Copied, Looking
<1>4. Disabled' /\ Enabled'
  BY DEF IInv, Disabled, Enabled
<1>5. OthersUntouched'
  BY DEF IInv, OthersUntouched
<1> QED BY <1>1, <1>2, <1>3, <1>4, <1>5 DEF IInv

(* A power loss: the units stay, and everything is read again.             *)
LEMMA CrashKeeps == IInv /\ Crash => IInv'
<1> SUFFICES ASSUME IInv, Crash PROVE IInv'
  OBVIOUS
<1> USE DEF Crash, Enter, source, logs, target
<1>1. TypeOK'
  <2>1. crashes' \in 0..MaxCrashes
    <3>1. crashes \in 0..MaxCrashes /\ MaxCrashes \in Nat
      BY ServicesAssumption DEF IInv, TypeOK
    <3>2. crashes < MaxCrashes /\ crashes' = crashes + 1
      OBVIOUS
    <3> QED BY <3>1, <3>2
  <2> QED BY <2>1 DEF IInv, TypeOK, Phases
<1>2. Scope'
  BY DEF Scope
<1>3. Apart' /\ Accounted' /\ Copied'
  BY ListsUntouched DEF IInv, Copied, Looking
<1>4. Disabled' /\ Enabled'
  BY DEF Disabled, Enabled
<1>5. OthersUntouched'
  BY DEF IInv, OthersUntouched
<1> QED BY <1>1, <1>2, <1>3, <1>4, <1>5 DEF IInv

LEMMA StutterKeeps == IInv /\ UNCHANGED vars => IInv'
<1> SUFFICES ASSUME IInv, UNCHANGED vars PROVE IInv'
  OBVIOUS
<1> USE DEF vars
<1>1. TypeOK'
  BY DEF IInv, TypeOK
<1>2. Scope' /\ Apart' /\ Copied'
  BY DEF IInv, Scope, Apart, Copied, Copies
<1>3. Accounted'
  BY DEF IInv, Accounted, OnRead, OffRead
<1>4. Disabled' /\ Enabled' /\ OthersUntouched'
  BY DEF IInv, Disabled, Enabled, OthersUntouched
<1> QED BY <1>1, <1>2, <1>3, <1>4 DEF IInv

----------------------------------------------------------------------------
(* The invariant that relates the loops of both scripts to the lists and   *)
(* the units holds in every state.                                         *)
THEOREM Invariance == Spec => []IInv
<1>1. Init => IInv
  <2> SUFFICES ASSUME Init PROVE IInv
    OBVIOUS
  <2>1. crashes \in 0..MaxCrashes
    BY ServicesAssumption DEF Init
  <2>2. TypeOK
    BY <2>1 DEF Init, TypeOK, Phases
  <2>3. Scope /\ Apart /\ Copied /\ OthersUntouched
    BY DEF Init, Scope, Apart, Copied, Copies, OthersUntouched, Looking
  <2>4. Accounted
    BY DEF Init, Accounted, OnRead, OffRead
  <2>5. Disabled /\ Enabled
    BY DEF Init, Disabled, Enabled
  <2> QED BY <2>2, <2>3, <2>4, <2>5 DEF IInv
<1>2. IInv /\ [Next]_vars => IInv'
  <2> SUFFICES ASSUME IInv, [Next]_vars PROVE IInv'
    OBVIOUS
  <2>1. CASE CheckAbort \/ CheckBegin \/ OnDone \/ XinetdDone \/ CheckEnd
    BY <2>1, CheckAbortKeeps, CheckBeginKeeps, OnDoneKeeps, XinetdDoneKeeps, CheckEndKeeps
  <2>2. ASSUME NEW s \in Service, OnService(s) \/ XinetdService(s) \/ OffService(s)
        PROVE  IInv'
    BY <2>2, OnServiceKeeps, XinetdServiceKeeps, OffServiceKeeps
  <2>3. CASE Upgrade
    BY <2>3, UpgradeKeeps
  <2>4. CASE ParsePresetfile \/ DisableServices \/ DisableDone \/ EnableServices \/ EnableDone
    BY <2>4, ParsePresetfileKeeps, DisableServicesKeeps, DisableDoneKeeps, EnableServicesKeeps,
       EnableDoneKeeps
  <2>5. ASSUME NEW u \in Unit, DisableUnit(u) \/ EnableUnit(u)
        PROVE  IInv'
    BY <2>5, DisableUnitKeeps, EnableUnitKeeps
  <2>6. CASE Crash
    BY <2>6, CrashKeeps
  <2>7. CASE Stopped \/ UNCHANGED vars
    BY <2>7, StutterKeeps DEF Stopped
  <2> QED BY <2>1, <2>2, <2>3, <2>4, <2>5, <2>6, <2>7 DEF Next, Check, Post
<1> QED BY <1>1, <1>2, PTL DEF Spec

(* Every variable keeps its type; the lists of check have packaged, signed *)
(* services only.                                                          *)
THEOREM TypesCorrect == Spec => []TypeOK
<1>1. IInv => TypeOK
  BY DEF IInv
<1> QED BY <1>1, Invariance, PTL

(* When check is over, every SysV service is on the list for its state or  *)
(* announced as one that Red Hat does not ship.                            *)
THEOREM EveryServiceAlwaysAccounted == Spec => []EveryServiceAccounted
<1>1. IInv => EveryServiceAccounted
  <2> SUFFICES ASSUME IInv, phase = "checked", inputs, NEW s \in Sysv \ Xinetd
               PROVE  IF s \notin native
                        THEN /\ s \notin enlog \cup dislog
                             /\ s \in on => <<"will not be enabled", s>> \in risks
                             /\ \E kind \in Announcements : <<kind, s>> \in risks
                        ELSE (s \in enlog <=> s \in on) /\ (s \in dislog <=> s \notin on)
    BY DEF EveryServiceAccounted
  <2>1. OnRead(s) /\ OffRead(s)
    BY DEF OnRead, OffRead
  <2>2. CASE s \in on
    BY <2>1, <2>2 DEF IInv, TypeOK, Apart, Accounted, Announcements
  <2>3. CASE s \notin on
    BY <2>1, <2>3 DEF IInv, TypeOK, Apart, Accounted, Announcements
  <2> QED BY <2>2, <2>3
<1> QED BY <1>1, Invariance, PTL

(* What was on and what was off, in the copies services.py reads.          *)
LEMMA CopiesComplete ==
    ASSUME IInv, phase = "done", inputs
    PROVE  on \cap native \subseteq posten /\ (Sysv \ on) \cap native \subseteq postdis
<1>1. on \cap native \subseteq enlog /\ (Sysv \ on) \cap native \subseteq dislog
  BY DEF IInv, Accounted, OnRead, OffRead
<1> QED BY <1>1 DEF IInv, Copied, Copies, Looking

(* services.py enables the unit of every signed service that was on, also  *)
(* one it has disabled before.                                             *)
THEOREM EnabledAlwaysSurvives == Spec => []EnabledSurvives
<1>1. IInv => EnabledSurvives
  <2> SUFFICES ASSUME IInv, phase = "done", inputs, NEW s \in on \cap native,
                      Applies(s), OwnUnit[s] \notin Static
               PROVE  OwnUnit[s] \in enabled
    BY DEF EnabledSurvives
  <2>1. OwnUnit[s] \in Determined(posten)
    BY CopiesComplete, CopiesAreServices, DeterminedUnits DEF IInv, Applies
  <2> QED BY <2>1 DEF IInv, Enabled, Applies
<1> QED BY <1>1, Invariance, PTL

(* services.py leaves the unit of a signed service that was off disabled,  *)
(* unless it reaches that unit for a service that was on.                  *)
THEOREM DisabledAlwaysStaysOff == Spec => []DisabledStaysOff
<1>1. IInv => DisabledStaysOff
  <2> SUFFICES ASSUME IInv, phase = "done", inputs, enlog # {}, NEW s \in (Sysv \ on) \cap native,
                      Applies(s), OwnUnit[s] \notin Reached(enlog)
               PROVE  OwnUnit[s] \notin enabled
    BY DEF DisabledStaysOff
  <2>1. OwnUnit[s] \in Determined(postdis)
    BY CopiesComplete, CopiesAreServices, DeterminedUnits DEF IInv, Applies
  <2>2. posten = enlog
    BY DEF IInv, Copied, Copies, Looking
  <2>3. OwnUnit[s] \notin Reached(posten)
    BY <2>2
  <2> QED BY <2>1, <2>3 DEF IInv, Disabled, Applies
<1> QED BY <1>1, Invariance, PTL

(* Units that services.py reaches for no listed service stay as the        *)
(* upgrade left them, however often power is lost.                         *)
THEOREM OthersAlwaysUntouched == Spec => []OthersUntouched
<1>1. IInv => OthersUntouched
  BY DEF IInv
<1> QED BY <1>1, Invariance, PTL
=============================================================================
