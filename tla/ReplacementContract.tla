------------------------ MODULE ReplacementContract ------------------------
(***************************************************************************)
(* What the scripts that run after the upgrade promise about the packages  *)
(* replaced between the two releases: a package, once settled (the old one *)
(* is gone and its replacement is there, or the administrator was told to  *)
(* install it), stays settled, and its modified files are stored before it *)
(* is settled.  If the administrator asked for a clean up of the old       *)
(* packages, files may be dropped, and replacements that are packages of   *)
(* the old system may go again.                                            *)
(***************************************************************************)
CONSTANTS
    Pkg,
    OldNamed    \* those with a replacement the old system may have had

VARIABLES
    settled,    \* packages whose replacement is settled
    data,       \* the modified files of each package
    consent     \* the administrator asked for the clean up

Data == {"none", "inplace", "saved"}

Init ==
    /\ settled \subseteq Pkg
    /\ data \in [Pkg -> Data]
    /\ consent \in BOOLEAN
    /\ \A p \in settled : data[p] # "inplace"

(* A modified file is stored beside the original, or, when the user opted  *)
(* in to the clean up, is dropped with its package.                        *)
Allowed(p) ==
    \/ data'[p] = data[p]
    \/ data[p] = "inplace" /\ data'[p] = "saved"
    \/ consent /\ data[p] = "inplace" /\ data'[p] = "none"

Next ==
    /\ settled \ settled' \subseteq IF consent THEN OldNamed ELSE {}
    /\ settled' \subseteq Pkg
    /\ data' \in [Pkg -> Data]
    /\ consent' = consent
    /\ \A p \in Pkg : Allowed(p)
    /\ \A p \in settled' : data'[p] # "inplace"

Spec == Init /\ [][Next]_<<settled, data, consent>>
============================================================================
