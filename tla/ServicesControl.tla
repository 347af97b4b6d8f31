--------------------------- MODULE ServicesControl --------------------------
(***************************************************************************)
(* system/initscripts/control: check sorts the services of the RHEL 6      *)
(* system into enabled.log and disabled.log, and postupgrade.d/services.py *)
(* applies the two lists to the systemd units of the upgraded system, as   *)
(* far as the preset file mentions them.  The machine may go down while    *)
(* services.py is executing, which then runs again from its beginning.     *)
(***************************************************************************)
EXTENDS Naturals, FiniteSets

CONSTANTS
    Sysv,       \* names of SysV services
    Xinetd,     \* names of xinetd services
    Unit,       \* entries of /lib/systemd/system after the upgrade
    OwnUnit,    \* OwnUnit[s]: s.service, or NoUnit when it does not exist
    Prefixed,   \* Prefixed[s]: entries whose name starts with s
    Dirs,       \* entries that are directories (s.service.wants)
    Static,     \* units that systemctl cannot enable
    Also,       \* Also[u]: units systemctl enables and disables along with u
    Preset,     \* units some "enable" line of 90-default.preset matches
    InPreset,   \* services for which the shipped preset has "enable s."
    NoSystemd,  \* services whose line in the matrix names no systemd unit
    NoUnit,     \* none of Unit
    OldLists,   \* lists an earlier run of check may have left for services.py
    MaxCrashes  \* bound: number of power losses

Service == Sysv \cup Xinetd

ASSUME ServicesAssumption ==
    /\ NoUnit \notin Unit
    /\ OwnUnit \in [Service -> Unit \cup {NoUnit}]
    /\ Prefixed \in [Service -> SUBSET Unit]
    /\ \A s \in Service : OwnUnit[s] # NoUnit => OwnUnit[s] \in Prefixed[s]
    /\ Dirs \subseteq Unit
    /\ Static \subseteq Unit
    /\ Also \in [Unit -> SUBSET (Unit \ Dirs)]
    /\ Preset \subseteq Unit
    /\ InPreset \subseteq Service
    /\ NoSystemd \subseteq Service
    /\ {} \in OldLists /\ OldLists \subseteq SUBSET Service
    /\ MaxCrashes \in Nat

VARIABLES
    on,         \* SysV services that are on in the current runlevel
    xfiles,     \* xinetd services with a file in /etc/xinetd.d
    packaged,   \* services whose script is owned by a package
    native,     \* services whose package is signed by Red Hat
    inputs,     \* the preset file of the module and the matrix are there
    phase,      \* what executes
    todo,       \* names or units its loop has still to read
    enlog,      \* enabled.log (absent when it has no line)
    dislog,     \* disabled.log (absent when it has no line)
    risks,      \* risks that were logged
    posten,     \* copy of enabled.log for services.py
    postdis,    \* copy of disabled.log for services.py
    presets,    \* the preset file of the upgraded system can be read
    upgraded,   \* units enabled by the upgrade itself
    enabled,    \* units that are enabled
    crashes     \* power losses so far

source == <<on, xfiles, packaged, native, inputs>>
target == <<presets, upgraded, enabled>>
logs == <<enlog, dislog, risks, posten, postdis>>
vars == <<on, xfiles, packaged, native, inputs, phase, todo, enlog, dislog,
          risks, posten, postdis, presets, upgraded, enabled, crashes>>

Phases == {"check", "on", "xinetd", "off", "checked", "start", "disable",
           "disabling", "enable", "enabling", "done", "failed"}

----------------------------------------------------------------------------
(* check                                                                   *)

Enter(p, work) == phase' = p /\ todo' = work

(* exit_error: nothing is copied for services.py.                          *)
CheckAbort ==
    /\ phase = "check" /\ ~inputs
    /\ Enter("checked", {})
    /\ UNCHANGED <<source, logs, target, crashes>>

CheckBegin ==
    /\ phase = "check" /\ inputs
    /\ Enter("on", on)
    /\ UNCHANGED <<source, logs, target, crashes>>

(* "disabled by default": only for a service with a systemd counterpart.   *)
DefaultRisk(s) ==
    IF s \notin NoSystemd /\ s \notin InPreset THEN {<<"disabled by default", s>>} ELSE {}

(* Fault: the name is not recorded once a risk was logged for it.          *)
EnableCandidateWarned(s) ==
    IF s \notin packaged \/ s \notin native
      THEN /\ risks' = risks \cup {<<"will not be enabled", s>>}
           /\ UNCHANGED enlog
      ELSE /\ risks' = risks \cup DefaultRisk(s)
           /\ enlog' = IF DefaultRisk(s) = {} THEN enlog \cup {s} ELSE enlog

(* The body shared by the first two loops: a service whose script belongs  *)
(* to no package, or to one not signed by Red Hat, is only announced.      *)
EnableCandidate(s) ==
    IF s \notin packaged \/ s \notin native
      THEN /\ risks' = risks \cup {<<"will not be enabled", s>>}
           /\ UNCHANGED enlog
      ELSE /\ risks' = risks \cup DefaultRisk(s)
           /\ enlog' = enlog \cup {s}

OnService(s) ==
    /\ phase = "on" /\ s \in todo
    /\ todo' = todo \ {s}
    /\ EnableCandidate(s)
    /\ UNCHANGED <<source, phase, dislog, posten, postdis, target, crashes>>

OnDone ==
    /\ phase = "on" /\ todo = {}
    /\ Enter("xinetd", Xinetd)
    /\ UNCHANGED <<source, logs, target, crashes>>

(* "chkconfig --list --type xinetd" lists the services that are off too,   *)
(* and the loop does not look at the state.                                *)
XinetdService(s) ==
    /\ phase = "xinetd" /\ s \in todo
    /\ todo' = todo \ {s}
    /\ IF s \in xfiles THEN EnableCandidate(s) ELSE UNCHANGED <<enlog, risks>>
    /\ UNCHANGED <<source, phase, dislog, posten, postdis, target, crashes>>

XinetdDone ==
    /\ phase = "xinetd" /\ todo = {}
    /\ Enter("off", Sysv \ on)
    /\ UNCHANGED <<source, logs, target, crashes>>

OffService(s) ==
    /\ phase = "off" /\ s \in todo
    /\ todo' = todo \ {s}
    /\ IF s \notin packaged \/ s \notin native
         THEN /\ risks' = risks \cup {<<"will be disabled", s>>}
              /\ UNCHANGED dislog
         ELSE /\ dislog' = dislog \cup {s}
              /\ UNCHANGED risks
    /\ UNCHANGED <<source, phase, enlog, posten, postdis, target, crashes>>

(* Fault: the two copies are interchanged.                                 *)
CheckEndSwapped ==
    /\ phase = "off" /\ todo = {}
    /\ Enter("checked", {})
    /\ posten' = dislog
    /\ postdis' = enlog
    /\ UNCHANGED <<source, enlog, dislog, risks, target, crashes>>

(* cp of a list that does not exist fails, and what an earlier run has     *)
(* copied stays.                                                           *)
Copy(log, old) == IF log = {} THEN old ELSE log

(* The copies of the lists and of services.py; both exits are exit_fail.   *)
CheckEnd ==
    /\ phase = "off" /\ todo = {}
    /\ Enter("checked", {})
    /\ posten' = Copy(enlog, posten)
    /\ postdis' = Copy(dislog, postdis)
    /\ UNCHANGED <<source, enlog, dislog, risks, target, crashes>>

(* The in-place upgrade enables units by its own presets.                  *)
Upgrade ==
    /\ phase = "checked"
    /\ Enter("start", {})
    /\ presets' \in BOOLEAN
    /\ upgraded' \in SUBSET (Unit \ (Dirs \cup Static))
    /\ enabled' = upgraded'
    /\ UNCHANGED <<source, logs, crashes>>

----------------------------------------------------------------------------
(* services.py                                                             *)

(* Every entry whose name starts with the name of the service.             *)
find_service_files(s) == Prefixed[s]

(* determine_services: the unit of the service, or, when there is none,    *)
(* what starts with its name.                                              *)
Determined(services) ==
    UNION {IF OwnUnit[s] = NoUnit THEN find_service_files(s) ELSE {OwnUnit[s]} : s \in services}

(* parse_presetfile exits when the file cannot be read.                    *)
ParsePresetfile ==
    /\ phase = "start"
    /\ Enter(IF presets THEN "disable" ELSE "failed", {})
    /\ UNCHANGED <<source, logs, target, crashes>>

(* open_file raises IOError for a list that does not exist.                *)
open_file(log) == log # {}

(* Fault: the list of enabled services is read.                            *)
DisableServicesWrongLog ==
    /\ phase = "disable"
    /\ IF open_file(posten) THEN Enter("disabling", Determined(posten)) ELSE Enter("enable", {})
    /\ UNCHANGED <<source, logs, target, crashes>>

(* disable_services returns when disabled.log cannot be opened.            *)
DisableServices ==
    /\ phase = "disable"
    /\ IF open_file(postdis) THEN Enter("disabling", Determined(postdis)) ELSE Enter("enable", {})
    /\ UNCHANGED <<source, logs, target, crashes>>

With(u) == {u} \cup Also[u]

(* What systemctl makes of the enabled units.  Nobody looks at its exit    *)
(* status.                                                                 *)
control_service(u, control) ==
    IF control = "disable" THEN enabled \ With(u) ELSE enabled \cup (With(u) \ Static)

(* Units that no preset matches are left alone.                            *)
check_preset(u, control) == IF u \in Preset THEN control_service(u, control) ELSE enabled

DisableUnit(u) ==
    /\ phase = "disabling" /\ u \in todo
    /\ todo' = todo \ {u}
    /\ enabled' = IF u \in Dirs THEN enabled ELSE check_preset(u, "disable")
    /\ UNCHANGED <<source, phase, logs, presets, upgraded, crashes>>

DisableDone ==
    /\ phase = "disabling" /\ todo = {}
    /\ Enter("enable", {})
    /\ UNCHANGED <<source, logs, target, crashes>>

(* Fault: units that were handled once are not looked at again.            *)
EnableServicesOnce ==
    /\ phase = "enable"
    /\ IF open_file(posten) THEN Enter("enabling", Determined(posten) \ Determined(postdis))
       ELSE Enter("failed", {})
    /\ UNCHANGED <<source, logs, target, crashes>>

(* enable_services exits with 1 when enabled.log cannot be opened.         *)
EnableServices ==
    /\ phase = "enable"
    /\ IF open_file(posten) THEN Enter("enabling", Determined(posten)) ELSE Enter("failed", {})
    /\ UNCHANGED <<source, logs, target, crashes>>

(* Fault: the preset is not looked up.                                     *)
EnableUnitAlways(u) ==
    /\ phase = "enabling" /\ u \in todo
    /\ todo' = todo \ {u}
    /\ enabled' = IF u \in Dirs THEN enabled ELSE control_service(u, "enable")
    /\ UNCHANGED <<source, phase, logs, presets, upgraded, crashes>>

EnableUnit(u) ==
    /\ phase = "enabling" /\ u \in todo
    /\ todo' = todo \ {u}
    /\ enabled' = IF u \in Dirs THEN enabled ELSE check_preset(u, "enable")
    /\ UNCHANGED <<source, phase, logs, presets, upgraded, crashes>>

EnableDone ==
    /\ phase = "enabling" /\ todo = {}
    /\ Enter("done", {})
    /\ UNCHANGED <<source, logs, target, crashes>>

Crash ==
    /\ phase \in {"disable", "disabling", "enable", "enabling"}
    /\ crashes < MaxCrashes
    /\ crashes' = crashes + 1
    /\ Enter("start", {})
    /\ UNCHANGED <<source, logs, target>>

Stopped == phase \in {"done", "failed"} /\ UNCHANGED vars

----------------------------------------------------------------------------
Init ==
    /\ on \in SUBSET Sysv
    /\ xfiles \in SUBSET Xinetd
    /\ packaged \in SUBSET Service
    /\ native \in SUBSET packaged
    /\ inputs \in BOOLEAN
    /\ phase = "check"
    /\ todo = {}
    /\ enlog = {} /\ dislog = {} /\ risks = {}
    /\ posten \in OldLists /\ postdis \in {list \in OldLists : list \subseteq Sysv}
    /\ presets = FALSE
    /\ upgraded = {} /\ enabled = {}
    /\ crashes = 0

Check ==
    \/ CheckAbort \/ CheckBegin \/ OnDone \/ XinetdDone \/ CheckEnd
    \/ \E s \in Service : OnService(s) \/ XinetdService(s) \/ OffService(s)

Post ==
    \/ ParsePresetfile \/ DisableServices \/ DisableDone \/ EnableServices \/ EnableDone
    \/ \E u \in Unit : DisableUnit(u) \/ EnableUnit(u)

Next == Check \/ Upgrade \/ Post \/ Crash \/ Stopped

Spec == Init /\ [][Next]_vars

----------------------------------------------------------------------------
(* Properties                                                              *)

(* Every variable keeps its type, and both lists name packaged, signed     *)
(* services only.                                                          *)
TypeOK ==
    /\ on \subseteq Sysv
    /\ xfiles \subseteq Xinetd
    /\ native \subseteq packaged
    /\ packaged \subseteq Service
    /\ inputs \in BOOLEAN
    /\ phase \in Phases
    /\ todo \subseteq IF phase \in {"disabling", "enabling"} THEN Unit ELSE Service
    /\ enlog \subseteq native
    /\ dislog \subseteq native \cap Sysv
    /\ posten \in OldLists \cup {enlog}
    /\ postdis \in OldLists \cup {dislog} /\ postdis \subseteq Sysv
    /\ risks \subseteq {"disabled by default", "will not be enabled", "will be disabled"} \X Service
    /\ presets \in BOOLEAN
    /\ upgraded \subseteq Unit
    /\ enabled \subseteq Unit
    /\ crashes \in 0..MaxCrashes

Announcements == {"will not be enabled", "will be disabled"}

(* When the check is over, every SysV service is in exactly one place: the *)
(* list for its state, or, when Red Hat does not ship it, a logged risk    *)
(* that names it.  What the risk says of such a service that is off is not *)
(* claimed.                                                                *)
EveryServiceAccounted ==
    phase = "checked" /\ inputs => \A s \in Sysv \ Xinetd :
        IF s \notin native
          THEN /\ s \notin enlog \cup dislog
               /\ s \in on => <<"will not be enabled", s>> \in risks
               /\ \E kind \in Announcements : <<kind, s>> \in risks
          ELSE (s \in enlog <=> s \in on) /\ (s \in dislog <=> s \notin on)

Handled(u) == u \notin Dirs /\ u \in Preset
Applies(s) == OwnUnit[s] # NoUnit /\ Handled(OwnUnit[s])

(* The units that systemctl reaches when services.py applies a list.       *)
Reached(services) == UNION {With(u) : u \in {v \in Determined(services) : Handled(v)}}

(* A signed service that was on and whose unit the presets mention is      *)
(* enabled when services.py is done, also when its unit was found by       *)
(* prefix, or with Also=, for a disabled service: the disabling comes      *)
(* first.                                                                  *)
EnabledSurvives ==
    phase = "done" /\ inputs => \A s \in on \cap native :
        Applies(s) /\ OwnUnit[s] \notin Static => OwnUnit[s] \in enabled

(* A signed service that was off is disabled when services.py is done,     *)
(* unless its unit is found for an enabled service, by prefix or with      *)
(* Also=, or no service was on, when the list of an earlier run is used.   *)
DisabledStaysOff ==
    phase = "done" /\ inputs /\ enlog # {} => \A s \in (Sysv \ on) \cap native :
        Applies(s) /\ OwnUnit[s] \notin Reached(enlog) => OwnUnit[s] \notin enabled

(* services.py enables no unit but those it reaches for its first list,    *)
(* and takes none from the upgrade but those it reaches for its second,    *)
(* however often it is broken off and run again.                           *)
OthersUntouched ==
    /\ enabled \ upgraded \subseteq Reached(posten)
    /\ upgraded \ enabled \subseteq Reached(postdis)
============================================================================
