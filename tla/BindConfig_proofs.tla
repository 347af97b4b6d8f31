-------------------------- MODULE BindConfig_proofs --------------------------
(***************************************************************************)
(* The safety of the BIND module for every set of files, every include     *)
(* graph and every content: exactly the files named would read are         *)
(* checked, and only complete repairs that need no review are applied.     *)
(***************************************************************************)
EXTENDS BindConfig, FiniteSetTheorems, WellFoundedInduction, TLAPS

(* The file with number i has been read: everything it includes is loaded. *)
ReadOut(i) == \A j \in 1..Len(include[files[i]]) : include[files[i]][j] \in Loaded

(* The loops of load_included_files: the files before idx and the include  *)
(* statements before pos are done with.                                    *)
Walk ==
    /\ pc = "load" => files = <<>> /\ idx = 1 /\ pos = 1
    /\ pc = "include" =>
          /\ idx <= Len(files) + 1
          /\ \A i \in 1..Len(files) : i < idx => ReadOut(i)
          /\ idx <= Len(files) =>
                \A j \in 1..Len(include[files[idx]]) : j < pos => include[files[idx]][j] \in Loaded

(* The verdict has been reached, and files may have been applied.          *)
Written == pc = "done" /\ out["clean"] # {}

(* Nothing is written before the end.                                      *)
Unwritten == pc # "done" => out["clean"] = {}

NoDuplicates == \A i, j \in 1..Len(files) : files[i] = files[j] => i = j

(* Nothing but reachable files, and with the end of loading all of them.   *)
Complete ==
    /\ NoDuplicates
    /\ Loaded \subseteq Reachable
    /\ pc \in {"include", "checks", "write"} \/ Written => Main \in Loaded
    /\ pc \in {"checks", "write"} \/ Written => Closed(Loaded)

LoadInv == TypeOK /\ Unwritten /\ Walk /\ Complete

(* There is a first element of OptionsAt, so ConfigFile is a loaded file.  *)
LEMMA ConfigFileLoaded ==
    ASSUME files \in Seq(File), OptionsAt # {}
    PROVE  ConfigFile \in Loaded /\ text[ConfigFile].options # "none"
<1>1. OptionsAt \in SUBSET Nat
  BY DEF OptionsAt
<1>2. \E i \in OptionsAt : \A j \in OptionsAt : i <= j
  <2> DEFINE R == OpToRel(<, Nat)
  <2>1. IsWellFoundedOn(R, Nat)
    BY NatLessThanWellFounded
  <2>2. \A i, j \in Nat : <<j, i>> \notin R => i <= j
    BY DEF OpToRel
  <2> HIDE DEF R
  <2>3. \E i \in OptionsAt : \A j \in OptionsAt : <<j, i>> \notin R
    BY <1>1, <2>1, WFMin
  <2> QED BY <1>1, <2>2, <2>3
<1>3. \E i \in OptionsAt : ConfigFile = files[i]
  BY <1>2 DEF ConfigFile
<1> QED BY <1>3 DEF OptionsAt, Loaded

(* What a reachable file includes is reachable.                            *)
LEMMA ReachableClosed ==
    ASSUME include \in [File -> Includes]
    PROVE  Main \in Reachable /\ Closed(Reachable)
<1>1. Main \in Reachable
  BY FilesAssumption DEF Reachable
<1>2. ASSUME NEW f \in Reachable, NEW i \in 1..Len(include[f])
      PROVE  include[f][i] \in Reachable
  <2>1. include[f] \in Seq(File)
    BY InputsAssumption DEF Reachable
  <2>2. include[f][i] \in File
    BY <2>1
  <2> QED BY <2>2 DEF Reachable, Closed
<1> QED BY <1>1, <1>2 DEF Closed

(* A closed set of loaded files with named.conf is all there is to load.   *)
LEMMA ClosedIsAll ==
    ASSUME files \in Seq(File), Loaded \subseteq Reachable, Main \in Loaded, Closed(Loaded)
    PROVE  Loaded = Reachable
<1>1. Loaded \in SUBSET File
  BY DEF Loaded
<1> QED BY <1>1 DEF Reachable

(* A repair keeps the form of the statements, and the first statement has  *)
(* the expected value unless it is one that no repair replaces.            *)
LEMMA RepairedStatements ==
    ASSUME NEW s \in Seq(Value)
    PROVE  /\ Repaired(s) \in Seq(Value)
           /\ ~ Stays(s) => AsExpected(Repaired(s))
<1>1. "new" \in Value
  BY DEF Value
<1>2. CASE Quoted(s) # {}
  <2> DEFINE r == [i \in DOMAIN s |-> IF i \in Quoted(s) THEN "new" ELSE s[i]]
  <2>1. Repaired(s) = r
    BY <1>2 DEF Repaired
  <2>2. DOMAIN s = 1..Len(s) /\ \A i \in 1..Len(s) : s[i] \in Value
    OBVIOUS
  <2>3. r \in [1..Len(s) -> Value]
    BY <1>1, <2>2
  <2>4. r \in Seq(Value) /\ Len(r) = Len(s)
    BY <2>2, <2>3
  <2>5. s # <<>> /\ Len(s) > 0
    BY <1>2 DEF Quoted, Found
  <2>6. ~ Stays(s) => 1 \in Quoted(s)
    BY <2>5 DEF Stays, Quoted, Found
  <2>7. ~ Stays(s) => r[1] = "new"
    BY <2>2, <2>5, <2>6
  <2>8. r # <<>>
    BY <2>4, <2>5
  <2> HIDE DEF r
  <2> QED BY <2>1, <2>4, <2>7, <2>8 DEF AsExpected
<1>3. CASE Quoted(s) = {}
  <2>1. Repaired(s) = Append(s, "new")
    BY <1>3 DEF Repaired
  <2>2. s # <<>> => Stays(s)
    <3> SUFFICES ASSUME s # <<>>, ~ Stays(s) PROVE FALSE
      OBVIOUS
    <3>1. 1 \in 1..Len(s) /\ s[1] # "bare" /\ s[1] # "glued"
      BY DEF Stays
    <3> QED BY <1>3, <3>1 DEF Quoted, Found
  <2>3. s = <<>> => Append(s, "new")[1] = "new" /\ Append(s, "new") # <<>>
    OBVIOUS
  <2> QED BY <1>1, <2>1, <2>2, <2>3 DEF AsExpected
<1> QED BY <1>2, <1>3

(* The initial states satisfy the invariant.                               *)
LEMMA LoadInit == Init => LoadInv
<1> SUFFICES ASSUME Init PROVE LoadInv
  OBVIOUS
<1> USE DEF Init
<1>1. Loaded = {} /\ Len(files) = 0 /\ files \in Seq(File)
  BY DEF Loaded
<1>2. DOMAIN fixed = {}
  OBVIOUS
<1>3. TypeOK
  BY <1>1, <1>2 DEF TypeOK, PASS, ERROR
<1> QED BY <1>1, <1>3 DEF LoadInv, Walk, Complete, NoDuplicates, Written, Unwritten

(* Appending a file to FILES_TO_CHECK keeps the others where they are.     *)
LEMMA AppendLoaded ==
    ASSUME files \in Seq(File), NEW f \in File, files' = Append(files, f)
    PROVE  /\ files' \in Seq(File)
           /\ Len(files') = Len(files) + 1
           /\ \A i \in 1..Len(files) : files'[i] = files[i]
           /\ files'[Len(files) + 1] = f
           /\ Loaded' = Loaded \cup {f}
<1>1. /\ files' \in Seq(File)
      /\ Len(files') = Len(files) + 1
      /\ \A i \in 1..Len(files) : files'[i] = files[i]
      /\ files'[Len(files) + 1] = f
  OBVIOUS
<1>2. Loaded' = Loaded \cup {f}
  BY <1>1 DEF Loaded
<1> QED BY <1>1, <1>2

(* Every step keeps the types.                                             *)
LEMMA TypeStep ==
    ASSUME TypeOK, Walk, [Next]_vars PROVE TypeOK'
<1> USE DEF TypeOK, PASS, INFORMATIONAL, FIXED, FAIL, ERROR
<1>1. CASE LoadMain
  <2>1. CASE root /\ Main \in readable
    <3>1. files' = <<Main>> /\ files = <<>> /\ out' = out /\ fixed' = fixed
      BY <1>1, <2>1 DEF LoadMain, Walk
    <3>2. Loaded = {}
      BY <3>1 DEF Loaded
    <3>3. DOMAIN fixed = {} /\ out \in [{"clean", "dirty"} -> SUBSET Loaded']
      BY <3>2
    <3>4. files' \in Seq(File)
      BY <3>1, FilesAssumption
    <3> QED BY <1>1, <2>1, <3>1, <3>3, <3>4 DEF LoadMain, env
  <2>2. CASE ~ (root /\ Main \in readable)
    BY <1>1, <2>2 DEF LoadMain, Exit, env, Loaded
  <2> QED BY <2>1, <2>2
<1>2. CASE LoadInclude
  <2> DEFINE f == include[files[idx]][pos]
  <2>1. files[idx] \in File /\ include[files[idx]] \in Seq(File) /\ f \in File
    BY <1>2, InputsAssumption DEF LoadInclude
  <2>2. CASE f \notin Loaded /\ f \in readable
    <3>1. files' = Append(files, f) /\ pos' = pos + 1
      BY <1>2, <2>2 DEF LoadInclude
    <3>2. files' \in Seq(File) /\ Loaded \subseteq Loaded'
      BY <2>1, <3>1, AppendLoaded
    <3> QED BY <1>2, <2>2, <3>1, <3>2 DEF LoadInclude, env
  <2>3. CASE ~ (f \notin Loaded /\ f \in readable)
    BY <1>2, <2>3 DEF LoadInclude, Exit, env, Loaded
  <2> QED BY <2>2, <2>3
<1>3. CASE NextFile
  BY <1>3 DEF NextFile, env, Loaded
<1>4. CASE CheckChanged
  BY <1>4 DEF CheckChanged, Exit, env, Loaded
<1>5. CASE FileCheck
  <2>1. result' \in 1..5
    BY <1>5 DEF FileCheck, Worse, RunCheck, check_tcp_listen_queue, check_zone_statistics,
                check_masterfile_format
  <2> QED BY <1>5, <2>1 DEF FileCheck, env, Loaded
<1>6. CASE NextCheck
  BY <1>6 DEF NextCheck, env, Loaded
<1>7. CASE EmptyZones
  <2>1. result' \in 1..5
    BY <1>7 DEF EmptyZones, Worse
  <2>2. UNCHANGED <<env, files, pc, idx, fixed, out, exit>> /\ pos' = 5
    BY <1>7 DEF EmptyZones
  <2> QED BY <2>1, <2>2 DEF env, Loaded
<1>8. CASE RuntimeDir
  <2> DEFINE f == ConfigFile
             k == KeyAt(pos)
  <2>1. f \in Loaded /\ f \in File /\ k \in Key
    BY <1>8, ConfigFileLoaded DEF RuntimeDir, KeyAt, Key, Loaded
  <2>2. result' \in 1..5
    BY <1>8 DEF RuntimeDir, Worse, StatementResult
  <2>3. DOMAIN Current(f) = Key /\ \A l \in Key : Current(f)[l] \in Seq(Value)
    BY <2>1, InputsAssumption DEF Current
  <2>4. Repaired(Current(f)[k]) \in Seq(Value)
    BY <2>1, <2>3, RepairedStatements
  <2>5. /\ DOMAIN fixed' \subseteq Loaded
        /\ \A g \in DOMAIN fixed' :
              DOMAIN fixed'[g] = Key /\ \A l \in Key : fixed'[g][l] \in Seq(Value)
    <3>1. CASE UNCHANGED fixed
      BY <3>1
    <3>2. CASE fixed' = [g \in DOMAIN fixed \cup {f} |->
                 IF g = f THEN [Current(f) EXCEPT ![k] = Repaired(@)] ELSE fixed[g]]
      BY <2>1, <2>3, <2>4, <3>2
    <3> QED BY <1>8, <3>1, <3>2 DEF RuntimeDir, FixStatement
  <2>6. Loaded' = Loaded
    BY <1>8 DEF RuntimeDir, Loaded
  <2> QED BY <1>8, <2>2, <2>5, <2>6 DEF RuntimeDir, env
<1>9. CASE NoOptions
  BY <1>9 DEF NoOptions, env, Loaded
<1>10. CASE WriteFixed
  <2>1. out' \in [{"clean", "dirty"} -> SUBSET Loaded]
    BY <1>10 DEF WriteFixed, OutputDir
  <2>2. exit' \in {"pass", "informational", "fixed", "fail", "error"}
    BY <1>10 DEF WriteFixed, Exit, ReturnWithCode
  <2> QED BY <1>10, <2>1, <2>2 DEF WriteFixed, Exit, env, Loaded
<1>11. CASE UNCHANGED vars
  BY <1>11 DEF vars, env, Loaded
<1> QED
  BY <1>1, <1>2, <1>3, <1>4, <1>5, <1>6, <1>7, <1>8, <1>9, <1>10, <1>11 DEF Next

(* The include graph does not change, nor do the sets defined by it.       *)
LEMMA EnvFixed ==
    ASSUME [Next]_vars
    PROVE  UNCHANGED env /\ Reachable' = Reachable
<1>1. UNCHANGED env
  BY DEF Next, vars, LoadMain, LoadInclude, NextFile, CheckChanged, FileCheck, NextCheck,
         EmptyZones, RuntimeDir, NoOptions, WriteFixed
<1> QED BY <1>1 DEF env, Reachable, Closed

(* The steps after loading leave the loaded files alone.                   *)
LEMMA LoadedFixed ==
    ASSUME UNCHANGED <<include, files>>
    PROVE  /\ Loaded' = Loaded
           /\ NoDuplicates' = NoDuplicates
           /\ Closed(Loaded)' = Closed(Loaded)
           /\ \A i : ReadOut(i)' = ReadOut(i)
BY DEF Loaded, NoDuplicates, Closed, ReadOut

(* When every file of the list is read out, the list is closed.            *)
LEMMA ReadOutIsClosed ==
    ASSUME files \in Seq(File), \A i \in 1..Len(files) : ReadOut(i)
    PROVE  Closed(Loaded)
<1> SUFFICES ASSUME NEW f \in Loaded, NEW j \in 1..Len(include[f])
             PROVE  include[f][j] \in Loaded
  BY DEF Closed
<1>1. PICK i \in 1..Len(files) : f = files[i]
  BY DEF Loaded
<1>2. ReadOut(i)
  OBVIOUS
<1> QED BY <1>1, <1>2 DEF ReadOut

(* One include statement: the file is in the list afterwards, and what was *)
(* read out stays read out.                                                *)
LEMMA IncludeStep ==
    ASSUME LoadInv, LoadInclude, pc' = "include"
    PROVE  Walk' /\ Complete'
<1> DEFINE f == include[files[idx]][pos]
<1> USE DEF LoadInv, TypeOK
<1>1. /\ pc = "include" /\ idx \in 1..Len(files) /\ pos \in 1..Len(include[files[idx]])
      /\ UNCHANGED <<include, idx, out>>
  BY DEF LoadInclude, env
<1>2. files[idx] \in File /\ include[files[idx]] \in Seq(File) /\ f \in File
  BY <1>1, InputsAssumption
<1>3. /\ pos' = pos + 1
      /\ \/ f \in Loaded /\ files' = files
         \/ f \notin Loaded /\ files' = Append(files, f)
  BY <1>1 DEF LoadInclude, Exit
<1>4. /\ files' \in Seq(File) /\ Len(files) <= Len(files')
      /\ \A i \in 1..Len(files) : files'[i] = files[i]
      /\ Loaded' = Loaded \cup {f}
      /\ files' # files => Len(files') = Len(files) + 1 /\ files'[Len(files) + 1] = f
  <2>1. CASE f \in Loaded /\ files' = files
    BY <2>1 DEF Loaded
  <2>2. CASE f \notin Loaded /\ files' = Append(files, f)
    BY <2>2, <1>2, AppendLoaded
  <2> QED BY <1>3, <2>1, <2>2
<1>5. f \in Reachable
  <2>1. files[idx] \in Reachable
    BY <1>1 DEF Complete, Loaded
  <2> QED BY <1>1, <2>1, ReachableClosed DEF Closed
<1>6. Reachable' = Reachable
  BY <1>1 DEF Reachable, Closed
<1>7. NoDuplicates'
  <2>1. CASE files' = files
    BY <2>1 DEF Complete, NoDuplicates
  <2>2. CASE files' # files
    <3>1. \A i \in 1..Len(files) : files[i] # f
      BY <1>3, <2>2 DEF Loaded
    <3> QED BY <1>4, <2>2, <3>1 DEF Complete, NoDuplicates
  <2> QED BY <2>1, <2>2
<1>8. Complete'
  BY <1>1, <1>4, <1>5, <1>6, <1>7 DEF Complete, Written
<1>9. ASSUME NEW i \in 1..Len(files'), i < idx'
      PROVE  ReadOut(i)'
  <2>1. i \in 1..Len(files) /\ i < idx /\ files'[i] = files[i] /\ ReadOut(i)
    BY <1>1, <1>4, <1>9 DEF Walk
  <2> QED BY <1>1, <1>4, <2>1 DEF ReadOut
<1>10. ASSUME NEW j \in 1..Len(include[files[idx]]), j < pos + 1
       PROVE  include[files[idx]][j] \in Loaded'
  <2>1. j < pos \/ j = pos
    BY <1>10, <1>1
  <2> QED BY <1>1, <1>4, <2>1 DEF Walk
<1>11. files'[idx] = files[idx] /\ idx <= Len(files') + 1
  BY <1>1, <1>4
<1>12. Walk'
  BY <1>1, <1>3, <1>9, <1>10, <1>11 DEF Walk
<1> QED BY <1>8, <1>12

(* Every step keeps the invariant of loading.                              *)
LEMMA LoadStep == LoadInv /\ [Next]_vars => LoadInv'
<1> SUFFICES ASSUME LoadInv, [Next]_vars PROVE LoadInv'
  OBVIOUS
<1>1. TypeOK'
  BY TypeStep DEF LoadInv
<1>2. UNCHANGED env /\ Reachable' = Reachable
  BY EnvFixed
<1>3. TypeOK /\ Unwritten /\ Walk /\ Complete
  BY DEF LoadInv
<1>10. Unwritten'
  BY <1>3 DEF Unwritten, Next, vars, LoadMain, LoadInclude, NextFile, CheckChanged, FileCheck,
              NextCheck, EmptyZones, RuntimeDir, NoOptions, WriteFixed, Exit
<1>4. CASE LoadMain
  <2>1. CASE root /\ Main \in readable
    <3>1. files' = <<Main>> /\ pc' = "include" /\ idx' = 1 /\ pos' = 1
      BY <1>3, <1>4, <2>1 DEF LoadMain, Walk
    <3>2. Len(files') = 1 /\ files'[1] = Main /\ Loaded' = {Main}
      BY <3>1 DEF Loaded
    <3>3. Main \in Reachable
      BY <1>3, ReachableClosed DEF TypeOK
    <3>4. Walk'
      BY <3>1, <3>2 DEF Walk
    <3>5. Complete'
      BY <1>2, <3>1, <3>2, <3>3 DEF Complete, NoDuplicates, Written
    <3> QED BY <1>1, <1>10, <3>4, <3>5 DEF LoadInv
  <2>2. CASE ~ (root /\ Main \in readable)
    <3>1. files' = files /\ files = <<>> /\ pc' = "done" /\ out' = out
      BY <1>3, <1>4, <2>2 DEF LoadMain, Exit, Walk
    <3>2. Loaded = {}
      BY <3>1 DEF Loaded
    <3>3. ~ Written'
      BY <1>3, <1>4, <3>1 DEF Written, Unwritten, LoadMain
    <3>4. Walk' /\ Complete'
      BY <1>2, <1>3, <3>1, <3>2, <3>3, LoadedFixed DEF Walk, Complete, env
    <3> QED BY <1>1, <1>10, <3>4 DEF LoadInv
  <2> QED BY <2>1, <2>2
<1>5. CASE LoadInclude
  <2>1. CASE pc' = "include"
    BY <1>1, <1>10, <1>5, <2>1, IncludeStep DEF LoadInv
  <2>2. CASE pc' # "include"
    <3>1. UNCHANGED <<files, out>> /\ pc = "include" /\ pc' = "done"
      BY <1>5, <2>2 DEF LoadInclude, Exit
    <3>2. ~ Written'
      BY <1>3, <1>5, <3>1 DEF Written, Unwritten
    <3>3. Walk' /\ Complete'
      BY <1>2, <1>3, <3>1, <3>2, LoadedFixed DEF Walk, Complete, env
    <3> QED BY <1>1, <1>10, <3>3 DEF LoadInv
  <2> QED BY <2>1, <2>2
<1>6. CASE NextFile
  <2>1. /\ pc = "include" /\ idx \in 1..Len(files) /\ pos > Len(include[files[idx]])
        /\ UNCHANGED <<include, files, pc, out>> /\ idx' = idx + 1 /\ pos' = 1
    BY <1>6 DEF NextFile, env
  <2>2. ReadOut(idx)
    <3>1. files[idx] \in File /\ include[files[idx]] \in Seq(File)
      BY <1>3, <2>1, InputsAssumption DEF TypeOK
    <3>2. \A j \in 1..Len(include[files[idx]]) : j < pos
      BY <1>3, <2>1, <3>1 DEF TypeOK
    <3> QED BY <1>3, <2>1, <3>2 DEF Walk, ReadOut, TypeOK
  <2>3. ASSUME NEW i \in 1..Len(files), i < idx + 1 PROVE ReadOut(i)
    <3>1. i < idx \/ i = idx
      BY <2>1, <2>3
    <3> QED BY <1>3, <2>1, <2>2, <3>1 DEF Walk
  <2>4. Loaded' = Loaded /\ \A i : ReadOut(i)' = ReadOut(i)
    BY <2>1, LoadedFixed
  <2>5. Walk'
    BY <1>3, <2>1, <2>3, <2>4 DEF Walk, TypeOK
  <2>6. Complete'
    BY <1>2, <1>3, <2>1, LoadedFixed DEF Complete, Written
  <2> QED BY <1>1, <1>10, <2>5, <2>6 DEF LoadInv
<1>7. CASE CheckChanged
  <2>1. /\ pc = "include" /\ idx > Len(files) /\ pc' \in {"checks", "done"}
        /\ UNCHANGED <<include, files, out>>
    BY <1>7 DEF CheckChanged, Exit, env
  <2>2. Closed(Loaded)
    <3>1. \A i \in 1..Len(files) : ReadOut(i)
      BY <1>3, <2>1 DEF Walk, TypeOK
    <3> QED BY <1>3, <3>1, ReadOutIsClosed DEF TypeOK
  <2>3. Complete'
    BY <1>2, <1>3, <2>1, <2>2, LoadedFixed DEF Complete
  <2>4. Walk'
    BY <2>1 DEF Walk
  <2> QED BY <1>1, <1>10, <2>3, <2>4 DEF LoadInv
<1>8. CASE FileCheck \/ NextCheck \/ EmptyZones \/ RuntimeDir \/ NoOptions \/ WriteFixed
  <2>1. /\ pc \in {"checks", "write"} /\ pc' \in {"checks", "write", "done"}
        /\ UNCHANGED <<include, files>>
    BY <1>8 DEF FileCheck, NextCheck, EmptyZones, RuntimeDir, NoOptions, WriteFixed, Exit, env
  <2>2. Complete'
    BY <1>2, <1>3, <2>1, LoadedFixed DEF Complete
  <2>3. Walk'
    BY <2>1 DEF Walk
  <2> QED BY <1>1, <1>10, <2>2, <2>3 DEF LoadInv
<1>9. CASE UNCHANGED vars
  <2>1. UNCHANGED <<include, files, pc, idx, pos, out>>
    BY <1>9 DEF vars, env
  <2>2. Walk' /\ Complete'
    BY <1>2, <1>3, <2>1, LoadedFixed DEF Walk, Complete, Written
  <2> QED BY <1>1, <1>10, <2>2 DEF LoadInv
<1> QED
  BY <1>4, <1>5, <1>6, <1>7, <1>8, <1>9 DEF Next

(***************************************************************************)
(* The invariant, in every state of every behaviour.                       *)
(***************************************************************************)
THEOREM Loading == Spec => []LoadInv
BY LoadInit, LoadStep, PTL DEF Spec

(* The types of the variables, along every behaviour: paths of loaded files *)
(* only get repaired and written, and an exit status exactly at the end.   *)
THEOREM TypesCorrect == Spec => []TypeOK
<1>1. LoadInv => TypeOK
  BY DEF LoadInv
<1> QED BY <1>1, Loading, PTL

(* load_included_files loads exactly what named would read, each file once,*)
(* for every include graph, cycles included.                               *)
THEOREM LoadedExactlyAlways == Spec => []LoadedExactly
<1>1. LoadInv => LoadedExactly
  <2> SUFFICES ASSUME LoadInv PROVE LoadedExactly
    OBVIOUS
  <2>1. pc \in {"checks", "write"} => Loaded = Reachable
    BY ClosedIsAll DEF LoadInv, Complete, TypeOK
  <2> QED BY <2>1 DEF LoadInv, Complete, NoDuplicates, LoadedExactly
<1> QED BY <1>1, Loading, PTL

(***************************************************************************)
(* What is applied without review.                                         *)
(***************************************************************************)
Over == pc = "write" \/ Written

(* run_checks: what must be reviewed in the files behind the loops is in   *)
(* the result.                                                             *)
Judged ==
    /\ pc = "checks" /\ pos = 3 =>
          \A i \in 1..Len(files) : i < idx /\ "plain" \in text[files[i]].slaves => result >= FAIL
    /\ (pc = "checks" /\ pos > 3) \/ Over =>
          \A f \in Loaded : "plain" \in text[f].slaves => result >= FAIL
    /\ (pc = "checks" /\ pos > 4) \/ Over => (Conflicts(Loaded) # {} => result >= FAIL)

(* The statements of a key are as they should be, or not repairable.       *)
Done(f, k) ==
    \/ AsExpected(fixed[f][k])
    \/ Stays(text[f].stmts[k])

(* FIXED_CONFIGS has the configuration file with the options only, and the *)
(* two keys are repaired one after the other.                              *)
Repairs ==
    /\ pc \in {"load", "include"} \/ (pc = "checks" /\ pos < 6) => DOMAIN fixed = {}
    /\ DOMAIN fixed # {} => DOMAIN fixed = {ConfigFile} /\ Fixable(ConfigFile) /\ result >= FIXED
    /\ pc = "checks" /\ pos = 6 /\ DOMAIN fixed = {} =>
          "pid-file" \notin Wrong(ConfigFile) \/ ~ Fixable(ConfigFile)
    /\ pc = "checks" /\ pos = 6 => \A f \in DOMAIN fixed :
          /\ Done(f, "pid-file")
          /\ fixed[f]["session-keyfile"] = text[f].stmts["session-keyfile"]
    /\ Over => \A f \in DOMAIN fixed, k \in Key : Done(f, k)

(* Only a result of FIXED or better puts files in cleanconf.               *)
Applied ==
    Written => /\ out["clean"] \subseteq DOMAIN fixed
               /\ result <= FIXED
               /\ exit = ReturnWithCode(result)

IInv == LoadInv /\ Judged /\ Repairs /\ Applied

LEMMA InitIInv == Init => IInv
<1> SUFFICES ASSUME Init PROVE IInv
  OBVIOUS
<1>1. LoadInv
  BY LoadInit
<1>2. DOMAIN fixed = {} /\ pc = "load"
  BY DEF Init
<1> QED BY <1>1, <1>2 DEF IInv, Judged, Repairs, Applied, Over, Written

(* Without a change of these variables the three parts are kept.           *)
LEMMA VerdictFrame ==
    ASSUME Judged, Repairs, Applied, Unwritten, Unwritten',
           UNCHANGED <<text, files, pc, idx, pos, result, fixed, out, exit>>
    PROVE  Judged' /\ Repairs' /\ Applied'
<1>1. /\ Loaded' = Loaded /\ OptionsAt' = OptionsAt /\ ConfigFile' = ConfigFile
      /\ Conflicts(Loaded)' = Conflicts(Loaded)
      /\ Written' = Written /\ Over' = Over
      /\ \A f : Wrong(f)' = Wrong(f) /\ Fixable(f)' = Fixable(f)
      /\ \A f, k : Done(f, k)' = Done(f, k)
  BY DEF Loaded, OptionsAt, ConfigFile, Conflicts, Written, Over, Wrong, Fixable, Done
<1> QED BY <1>1 DEF Judged, Repairs, Applied

(* The steps before the repairs: nothing is repaired, written or judged    *)
(* that the three parts speak of.                                          *)
LEMMA LoadingKeeps ==
    ASSUME IInv, Unwritten', LoadMain \/ LoadInclude \/ NextFile \/ CheckChanged
    PROVE  Judged' /\ Repairs' /\ Applied'
<1>1. /\ pc \in {"load", "include"}
      /\ \/ pc' \in {"load", "include", "done"}
         \/ pc' = "checks" /\ pos' = 1
      /\ UNCHANGED <<fixed, out>>
  BY DEF LoadMain, LoadInclude, NextFile, CheckChanged, Exit
<1>2. DOMAIN fixed' = {} /\ ~ Written'
  BY <1>1 DEF IInv, LoadInv, Repairs, Unwritten, Written
<1> QED BY <1>1, <1>2 DEF Judged, Repairs, Applied, Over

(* A result only gets worse.                                               *)
LEMMA WorseIsWorse ==
    ASSUME NEW r \in 1..5, NEW s \in 1..5
    PROVE  Worse(r, s) \in 1..5 /\ Worse(r, s) >= r /\ Worse(r, s) >= s
BY DEF Worse

LEMMA ChecksKeep ==
    ASSUME IInv, FileCheck \/ NextCheck \/ EmptyZones
    PROVE  Judged' /\ Repairs' /\ Applied'
<1> USE DEF FAIL, FIXED, PASS, INFORMATIONAL, ERROR
<1>1. /\ pc = "checks" /\ pc' = "checks" /\ UNCHANGED <<env, files, fixed, out>>
      /\ pos \in 1..4 /\ pos' \in 1..5 /\ files \in Seq(File) /\ result \in 1..5
      /\ idx \in Nat
  BY DEF FileCheck, NextCheck, EmptyZones, IInv, LoadInv, TypeOK
<1>2. /\ Loaded' = Loaded /\ Conflicts(Loaded)' = Conflicts(Loaded) /\ ~ Over'
  <2>1. UNCHANGED <<text, files>>
    BY <1>1 DEF env
  <2>2. Loaded' = Loaded
    BY <2>1 DEF Loaded
  <2>3. Conflicts(Loaded)' = Conflicts(Loaded)
    BY <2>1, <2>2 DEF Conflicts
  <2>4. ~ Over'
    BY <1>1 DEF Over, Written
  <2> QED BY <2>2, <2>3, <2>4
<1>3. Repairs' /\ Applied'
  BY <1>1, <1>2 DEF IInv, Repairs, Applied, Over
<1>4. CASE FileCheck
  <2>1. RunCheck(pos, files[idx]) \in 1..5
    BY <1>4 DEF FileCheck, RunCheck, check_tcp_listen_queue, check_zone_statistics,
                check_masterfile_format
  <2>2. result' >= result /\ result' >= RunCheck(pos, files[idx]) /\ result' \in 1..5
    BY <1>1, <1>4, <2>1, WorseIsWorse DEF FileCheck
  <2>3. pos = 3 /\ "plain" \in text[files[idx]].slaves => result' >= 4
    BY <2>2 DEF RunCheck, check_masterfile_format
  <2>4. ASSUME pos = 3, NEW i \in 1..Len(files), i < idx + 1,
               "plain" \in text[files[i]].slaves
        PROVE  result' >= 4
    <3>1. i < idx \/ i = idx
      BY <1>1, <2>4
    <3> QED BY <1>1, <2>2, <2>3, <2>4, <3>1 DEF IInv, Judged
  <2>5. pos' = pos /\ pos \in 1..3 /\ idx' = idx + 1
    BY <1>4 DEF FileCheck
  <2> QED BY <1>1, <1>2, <1>3, <2>4, <2>5 DEF Judged, env
<1>5. CASE NextCheck
  <2>1. pos' = pos + 1 /\ idx' = 1 /\ idx > Len(files) /\ result' = result /\ pos \in 1..3
    BY <1>5 DEF NextCheck
  <2>2. pos = 3 => \A f \in Loaded : "plain" \in text[f].slaves => result >= 4
    <3> SUFFICES ASSUME pos = 3, NEW f \in Loaded, "plain" \in text[f].slaves
                 PROVE  result >= 4
      OBVIOUS
    <3>1. PICK i \in 1..Len(files) : f = files[i]
      BY DEF Loaded
    <3>2. i < idx
      BY <1>1, <2>1
    <3> QED BY <1>1, <3>1, <3>2 DEF IInv, Judged
  <2> QED BY <1>1, <1>2, <1>3, <2>1, <2>2 DEF Judged, env
<1>6. CASE EmptyZones
  <2>1. pos = 4 /\ pos' = 5 /\ result' = Worse(result, IF Conflicts(Loaded) = {} THEN 1 ELSE 4)
    BY <1>6 DEF EmptyZones
  <2>2. result' >= result /\ result' \in 1..5 /\ (Conflicts(Loaded) # {} => result' >= 4)
    BY <1>1, <2>1, WorseIsWorse
  <2>3. \A f \in Loaded : "plain" \in text[f].slaves => result' >= 4
    BY <1>1, <2>1, <2>2 DEF IInv, Judged
  <2> QED BY <1>1, <1>2, <1>3, <2>1, <2>2, <2>3 DEF Judged, env
<1> QED BY <1>4, <1>5, <1>6

(* One of the two statements: it is right afterwards, or not repairable.   *)
LEMMA RepairKeeps ==
    ASSUME IInv, RuntimeDir, Unwritten'
    PROVE  Judged' /\ Repairs' /\ Applied'
<1> USE DEF FAIL, FIXED, PASS, INFORMATIONAL, ERROR
<1>a. PICK f : f = ConfigFile
  OBVIOUS
<1>b. PICK k : k = KeyAt(pos)
  OBVIOUS
<1>c. PICK old : old = Current(f)
  OBVIOUS
<1> USE <1>a, <1>b, <1>c
<1>1. /\ pc = "checks" /\ pos \in {5, 6} /\ OptionsAt # {} /\ UNCHANGED <<text, files, out>>
      /\ pos' = pos + 1 /\ pc' = (IF pos = 6 THEN "write" ELSE "checks")
      /\ FixStatement(f, k) /\ result' = Worse(result, StatementResult(f, k))
      /\ files \in Seq(File) /\ result \in 1..5 /\ text \in Texts
  BY DEF RuntimeDir, IInv, LoadInv, TypeOK, env
<1>2. f \in Loaded /\ f \in File
  BY <1>1, ConfigFileLoaded DEF Loaded
<1>3. /\ Loaded' = Loaded /\ ConfigFile' = f /\ Wrong(f)' = Wrong(f) /\ Fixable(f)' = Fixable(f)
  BY <1>1 DEF Loaded, ConfigFile, OptionsAt, Wrong, Fixable
<1>4. Conflicts(Loaded)' = Conflicts(Loaded)
  BY <1>1, <1>3 DEF Conflicts
<1>5. /\ result' >= result /\ result' \in 1..5
      /\ k \in Wrong(f) => result' >= FIXED
  <2>1. StatementResult(f, k) \in 1..5 /\ (k \in Wrong(f) => StatementResult(f, k) >= FIXED)
    BY DEF StatementResult
  <2> QED BY <1>1, <2>1, WorseIsWorse
<1>6. ~ Written' /\ Applied'
  BY <1>1 DEF Written, Applied
<1>7. Judged'
  BY <1>1, <1>3, <1>4, <1>5 DEF IInv, Judged, Over
<1>8. DOMAIN fixed = {} \/ DOMAIN fixed = {f}
  BY DEF IInv, Repairs
<1>9. DOMAIN old = Key /\ (\A l \in Key : old[l] \in Seq(Value)) /\ old[k] = text[f].stmts[k]
  <2>1. DOMAIN text[f].stmts = Key /\ \A l \in Key : text[f].stmts[l] \in Seq(Value)
    BY <1>1, <1>2, InputsAssumption
  <2>2. CASE f \notin DOMAIN fixed
    BY <2>1, <2>2 DEF Current
  <2>3. CASE f \in DOMAIN fixed
    <3>1. pos = 6 /\ k = "session-keyfile"
      BY <1>1, <2>3 DEF IInv, Repairs, KeyAt
    <3>2. fixed[f]["session-keyfile"] = text[f].stmts["session-keyfile"]
      BY <1>1, <2>3, <3>1 DEF IInv, Repairs
    <3>3. DOMAIN fixed[f] = Key /\ \A l \in Key : fixed[f][l] \in Seq(Value)
      BY <2>3 DEF IInv, LoadInv, TypeOK
    <3> QED BY <2>3, <3>1, <3>2, <3>3 DEF Current
  <2> QED BY <2>2, <2>3
<1>10. k \in Key /\ (pos = 5 => k = "pid-file") /\ (pos = 6 => k = "session-keyfile")
  BY <1>1 DEF KeyAt, Key
<1>11. CASE k \in Wrong(f) /\ Fixable(f)
  <2>1. /\ DOMAIN fixed' = {f}
        /\ fixed'[f] = [old EXCEPT ![k] = Repaired(old[k])]
    BY <1>1, <1>8, <1>11 DEF FixStatement
  <2>2. fixed'[f][k] = Repaired(old[k]) /\ \A l \in Key \ {k} : fixed'[f][l] = old[l]
    BY <1>9, <1>10, <2>1
  <2>3. Done(f, k)'
    BY <1>1, <1>9, <1>10, <2>2, RepairedStatements DEF Done
  <2>4. pos = 5 => fixed'[f]["session-keyfile"] = text[f].stmts["session-keyfile"]
    <3> SUFFICES ASSUME pos = 5
                 PROVE  old["session-keyfile"] = text[f].stmts["session-keyfile"]
      BY <1>10, <2>2 DEF Key
    <3> QED BY <1>1 DEF IInv, Repairs, Current
  <2>5. pos = 6 => Done(f, "pid-file")'
    <3> SUFFICES ASSUME pos = 6 PROVE Done(f, "pid-file")'
      OBVIOUS
    <3>1. fixed'[f]["pid-file"] = old["pid-file"]
      BY <1>10, <2>2 DEF Key
    <3>2. CASE f \in DOMAIN fixed
      BY <1>1, <3>1, <3>2 DEF IInv, Repairs, Done, Current
    <3>3. CASE f \notin DOMAIN fixed
      <4>1. "pid-file" \notin Wrong(f)
        BY <1>1, <1>8, <1>11, <3>3 DEF IInv, Repairs
      <4>2. AsExpected(text[f].stmts["pid-file"])
        BY <4>1 DEF Wrong, Key
      <4> QED BY <1>1, <3>1, <3>3, <4>2 DEF Done, Current
    <3> QED BY <3>2, <3>3
  <2>6. pos = 6 => \A l \in Key : Done(f, l)'
    BY <1>10, <2>3, <2>5 DEF Key
  <2>7. ConfigFile' = f /\ Fixable(ConfigFile)' /\ result' >= FIXED
    BY <1>1, <1>3, <1>5, <1>11 DEF Fixable
  <2>8. ASSUME pos = 5 PROVE Repairs'
    <3>1. pc' = "checks" /\ pos' = 6 /\ ~ Over' /\ Done(f, "pid-file")'
      BY <1>1, <1>6, <1>10, <2>3, <2>8 DEF Over
    <3>2. text'[f].stmts["session-keyfile"] = text[f].stmts["session-keyfile"]
      BY <1>1
    <3>3. ASSUME NEW g \in DOMAIN fixed'
          PROVE  /\ Done(g, "pid-file")'
                 /\ fixed'[g]["session-keyfile"] = text'[g].stmts["session-keyfile"]
      <4>1. g = f
        BY <2>1, <3>3
      <4> QED BY <2>4, <2>8, <3>1, <3>2, <4>1 DEF Done
    <3>4. DOMAIN fixed' = {ConfigFile'}
      BY <2>1, <2>7
    <3> QED BY <2>7, <3>1, <3>3, <3>4 DEF Repairs
  <2>9. ASSUME pos = 6 PROVE Repairs'
    <3>1. pc' = "write"
      BY <1>1, <2>9
    <3>2. ASSUME NEW g \in DOMAIN fixed', NEW l \in Key
          PROVE  Done(g, l)'
      <4>1. g = f
        BY <2>1, <3>2
      <4> QED BY <2>6, <2>9, <3>2, <4>1 DEF Done
    <3>3. DOMAIN fixed' = {ConfigFile'}
      BY <2>1, <2>7
    <3> QED BY <2>7, <3>1, <3>2, <3>3 DEF Repairs
  <2>10. Repairs'
    BY <1>1, <2>8, <2>9
  <2> QED BY <1>6, <1>7, <2>10
<1>12. CASE ~ (k \in Wrong(f) /\ Fixable(f))
  <2>1. fixed' = fixed
    BY <1>1, <1>12 DEF FixStatement
  <2>2. f \in DOMAIN fixed => pos = 6 /\ Done(f, "pid-file")' /\ Done(f, "session-keyfile")'
    <3> SUFFICES ASSUME f \in DOMAIN fixed
                 PROVE  pos = 6 /\ Done(f, "pid-file")' /\ Done(f, "session-keyfile")'
      OBVIOUS
    <3>1. /\ pos = 6 /\ Done(f, "pid-file")
          /\ fixed[f]["session-keyfile"] = text[f].stmts["session-keyfile"]
      BY <1>1 DEF IInv, Repairs
    <3>2. k \notin Wrong(f)
      BY <1>12 DEF IInv, Repairs
    <3>3. AsExpected(text[f].stmts["session-keyfile"])
      BY <1>10, <3>1, <3>2 DEF Wrong
    <3> QED BY <1>1, <2>1, <3>1, <3>3 DEF Done
  <2>3. Repairs'
    BY <1>1, <1>3, <1>5, <1>6, <1>8, <1>10, <1>12, <2>1, <2>2 DEF Repairs, Over, IInv, Key
  <2> QED BY <1>6, <1>7, <2>3
<1> QED BY <1>11, <1>12

(* The end: a result worse than FIXED sends everything to dirtyconf.       *)
LEMMA WriteKeeps ==
    ASSUME IInv, WriteFixed \/ NoOptions
    PROVE  Judged' /\ Repairs' /\ Applied'
<1> USE DEF FAIL, FIXED, PASS, INFORMATIONAL, ERROR
<1>1. /\ UNCHANGED <<text, files, fixed>> /\ pc \in {"checks", "write"}
      /\ pc' \in {"write", "done"} /\ result \in 1..5 /\ DOMAIN fixed' = DOMAIN fixed
  BY DEF WriteFixed, NoOptions, IInv, LoadInv, TypeOK, env, Exit
<1>2. /\ Loaded' = Loaded /\ ConfigFile' = ConfigFile
      /\ \A f : Fixable(f)' = Fixable(f)
      /\ \A f, k : Done(f, k)' = Done(f, k)
  BY <1>1 DEF Loaded, ConfigFile, OptionsAt, Fixable, Done
<1>3. Conflicts(Loaded)' = Conflicts(Loaded)
  BY <1>1, <1>2 DEF Conflicts
<1>4. CASE WriteFixed
  <2>1. /\ pc = "write" /\ result' = result /\ exit' = ReturnWithCode(result)
        /\ out' = [out EXCEPT ![OutputDir(result)] = @ \cup DOMAIN fixed]
        /\ out["clean"] = {} /\ out \in [{"clean", "dirty"} -> SUBSET Loaded]
        /\ pc' = "done"
    BY <1>4 DEF WriteFixed, Exit, IInv, LoadInv, Unwritten, TypeOK
  <2>2. Over
    BY <2>1 DEF Over
  <2>3. Judged'
    BY <1>1, <1>2, <1>3, <2>1, <2>2 DEF IInv, Judged
  <2>4. Repairs'
    BY <1>1, <1>2, <2>1, <2>2 DEF IInv, Repairs
  <2>5. out'["clean"] \subseteq DOMAIN fixed /\ (result > 3 => out'["clean"] = {})
    BY <2>1 DEF OutputDir
  <2>6. Applied'
    BY <1>1, <2>1, <2>5 DEF Applied, Written, ReturnWithCode
  <2> QED BY <2>3, <2>4, <2>6
<1>5. CASE NoOptions
  <2>1. /\ pc = "checks" /\ pos = 5 /\ pc' = "write" /\ result' = 5
    BY <1>5 DEF NoOptions
  <2>2. DOMAIN fixed = {}
    BY <2>1 DEF IInv, Repairs
  <2>3. Judged'
    BY <2>1 DEF Judged
  <2>4. Repairs'
    BY <1>1, <2>1, <2>2 DEF Repairs
  <2>5. Applied'
    BY <2>1 DEF Applied, Written
  <2> QED BY <2>3, <2>4, <2>5
<1> QED BY <1>4, <1>5

LEMMA StepIInv == IInv /\ [Next]_vars => IInv'
<1> SUFFICES ASSUME IInv, [Next]_vars PROVE IInv'
  OBVIOUS
<1>1. LoadInv' /\ Unwritten /\ Unwritten'
  BY LoadStep DEF IInv, LoadInv
<1>2. CASE LoadMain \/ LoadInclude \/ NextFile \/ CheckChanged
  BY <1>1, <1>2, LoadingKeeps DEF IInv
<1>3. CASE FileCheck \/ NextCheck \/ EmptyZones
  BY <1>1, <1>3, ChecksKeep DEF IInv
<1>4. CASE RuntimeDir
  BY <1>1, <1>4, RepairKeeps DEF IInv
<1>5. CASE NoOptions \/ WriteFixed
  BY <1>1, <1>5, WriteKeeps DEF IInv
<1>6. CASE UNCHANGED vars
  <2>1. UNCHANGED <<text, files, pc, idx, pos, result, fixed, out, exit>>
    BY <1>6 DEF vars, env
  <2> QED BY <1>1, <2>1, VerdictFrame DEF IInv
<1> QED BY <1>2, <1>3, <1>4, <1>5, <1>6 DEF Next

(***************************************************************************)
(* What a user finds in cleanconf needs no review: no reachable file has   *)
(* anything to be looked at, and the check would find the statements of    *)
(* the options right (or what it reads first is one no repair replaces).   *)
(***************************************************************************)
THEOREM CleanIsCompleteAlways == Spec => []CleanIsComplete
<1> USE DEF FAIL, FIXED, PASS, INFORMATIONAL, ERROR
<1>1. IInv => CleanIsComplete
  <2> SUFFICES ASSUME IInv, out["clean"] # {} PROVE CleanIsComplete
    BY DEF CleanIsComplete
  <2>1. Written
    BY DEF IInv, LoadInv, Unwritten, Written
  <2>2. Over /\ Loaded = Reachable
    BY <2>1, ClosedIsAll DEF IInv, LoadInv, Complete, TypeOK, Over
  <2>3. DOMAIN fixed # {} /\ out["clean"] \subseteq DOMAIN fixed
    BY <2>1 DEF IInv, Applied
  <2>4. result = 3 /\ exit = "fixed"
    <3>1. result >= 3 /\ result <= 3 /\ result \in 1..5
      BY <2>1, <2>3 DEF IInv, Repairs, Applied, LoadInv, TypeOK
    <3> QED BY <2>1, <3>1 DEF IInv, Applied, ReturnWithCode
  <2>5. ~ MustReview
    <3>1. ~ \E f \in Reachable : "plain" \in text[f].slaves
      BY <2>2, <2>4 DEF IInv, Judged
    <3>2. Conflicts(Reachable) = {}
      BY <2>2, <2>4 DEF IInv, Judged
    <3> QED BY <3>1, <3>2 DEF MustReview, Conflicts
  <2>6. \A f \in out["clean"], k \in Key : Done(f, k)
    BY <2>2, <2>3 DEF IInv, Repairs
  <2> QED BY <2>4, <2>5, <2>6 DEF CleanIsComplete, Done
<1> QED BY <1>1, InitIInv, StepIInv, PTL DEF Spec

(***************************************************************************)
(* The verdict.                                                            *)
(***************************************************************************)
(* Nothing can have stopped the module before the checks.                  *)
Heard == root /\ Reachable \subseteq readable /\ \E f \in Reachable : Occurs[f] \cap changed # {}

(* All checks have been made.                                              *)
Through == pc = "write" \/ (pc = "done" /\ Heard)

(* The check with number c has looked at the file f.                       *)
Seen(c, f) ==
    \/ Through
    \/ pc = "checks" /\ pos > c
    \/ pc = "checks" /\ pos = c /\ \E i \in 1..Len(files) : i < idx /\ files[i] = f

(* What a check has seen is in the result ...                              *)
Noticed ==
    /\ \A f \in Loaded :
          /\ Seen(1, f) /\ text[f].tcpqueue => result >= INFORMATIONAL
          /\ Seen(2, f) /\ text[f].zonestat => result >= INFORMATIONAL
          /\ Seen(3, f) /\ "plain" \in text[f].slaves => result >= FAIL
    /\ (pc = "checks" /\ pos > 4) \/ Through => (Conflicts(Loaded) # {} => result >= FAIL)

(* ... and the result has a cause.                                         *)
Caused ==
    /\ pc \in {"load", "include"} => result = PASS
    /\ pc = "checks" => result # ERROR /\ (pos = 6 => OptionsAt # {})
    /\ Through => (result = ERROR <=> OptionsAt = {})
    /\ pc = "checks" \/ Through =>
          /\ result = FAIL => \/ \E f \in Loaded : "plain" \in text[f].slaves
                              \/ Conflicts(Loaded) # {}
                              \/ \E f \in Loaded : ~ Fixable(f) /\ Wrong(f) # {}
          /\ result = FIXED => DOMAIN fixed # {}
          /\ result = INFORMATIONAL => \E f \in Loaded : text[f].tcpqueue \/ text[f].zonestat

(* The module ends early only when something stopped it.                   *)
Reported ==
    pc = "done" /\ Heard => Main \in Loaded /\ Closed(Loaded) /\ exit = ReturnWithCode(result)

Grounds == Noticed /\ Caused /\ Reported

LEMMA InitGrounds == Init => Grounds
<1> SUFFICES ASSUME Init PROVE Grounds
  OBVIOUS
<1>1. pc = "load" /\ result = PASS /\ ~ Through
  BY DEF Init, Through
<1> QED BY <1>1 DEF Grounds, Noticed, Caused, Reported, Seen

(* The operators of the three parts read these variables only.             *)
LEMMA GroundsFrame ==
    ASSUME UNCHANGED <<text, files>>
    PROVE  /\ Loaded' = Loaded /\ Conflicts(Loaded)' = Conflicts(Loaded)
           /\ OptionsAt' = OptionsAt /\ ConfigFile' = ConfigFile
           /\ \A f : Wrong(f)' = Wrong(f) /\ Fixable(f)' = Fixable(f)
<1>1. Loaded' = Loaded
  BY DEF Loaded
<1>2. OptionsAt' = OptionsAt
  BY DEF OptionsAt
<1> QED BY <1>1, <1>2 DEF Conflicts, ConfigFile, Wrong, Fixable

LEMMA HeardFixed ==
    ASSUME LoadInv, [Next]_vars
    PROVE  Heard' = Heard
BY EnvFixed DEF Heard, env

(* Loading gives up only on a file that cannot be read, or when nothing of *)
(* the configuration has changed.                                          *)
LEMMA LoadingGrounds ==
    ASSUME IInv, Grounds, Heard' = Heard, LoadMain \/ LoadInclude \/ NextFile \/ CheckChanged
    PROVE  Grounds'
<1> USE DEF FAIL, FIXED, PASS, INFORMATIONAL, ERROR
<1>1. TypeOK /\ Walk /\ Complete
  BY DEF IInv, LoadInv
<1>2. /\ pc \in {"load", "include"} /\ result = 1 /\ result' = 1 /\ UNCHANGED env
      /\ \/ pc' = "include"
         \/ pc' = "checks" /\ idx' = 1 /\ pos' = 1
         \/ pc' = "done"
  BY DEF LoadMain, LoadInclude, NextFile, CheckChanged, Exit, Grounds, Caused
<1>3. pc' = "done" => ~ Heard
  <2>1. ASSUME LoadMain, pc' = "done" PROVE ~ Heard
    <3>1. ~ (root /\ Main \in readable)
      BY <2>1 DEF LoadMain
    <3>2. Main \in Reachable
      BY <1>1, ReachableClosed DEF TypeOK
    <3> QED BY <3>1, <3>2 DEF Heard
  <2>2. ASSUME LoadInclude, pc' = "done" PROVE ~ Heard
    <3> DEFINE f == include[files[idx]][pos]
    <3>1. /\ pc = "include" /\ idx \in 1..Len(files) /\ pos \in 1..Len(include[files[idx]])
          /\ f \notin readable
      BY <2>2 DEF LoadInclude
    <3>2. files[idx] \in Reachable
      BY <1>1, <3>1 DEF Complete, Loaded
    <3>3. f \in Reachable
      BY <1>1, <3>1, <3>2, ReachableClosed DEF Closed, TypeOK
    <3> QED BY <3>1, <3>3 DEF Heard
  <2>3. ASSUME CheckChanged, pc' = "done" PROVE ~ Heard
    <3>1. pc = "include" /\ idx > Len(files) /\ ~ ConfigChanged
      BY <2>3 DEF CheckChanged
    <3>2. \A i \in 1..Len(files) : ReadOut(i)
      BY <1>1, <3>1 DEF Walk, TypeOK
    <3>3. Closed(Loaded)
      BY <1>1, <3>2, ReadOutIsClosed DEF TypeOK
    <3>4. Loaded = Reachable
      BY <1>1, <3>1, <3>3, ClosedIsAll DEF Complete, TypeOK
    <3> QED BY <3>1, <3>4 DEF Heard, ConfigChanged
  <2>4. ASSUME NextFile PROVE pc' # "done"
    BY <2>4 DEF NextFile
  <2> QED BY <2>1, <2>2, <2>3, <2>4
<1>4. ~ Through'
  BY <1>2, <1>3 DEF Through
<1>5. \A c \in {1, 2, 3} : \A f : ~ Seen(c, f)'
  BY <1>2, <1>4 DEF Seen
<1>6. Noticed'
  BY <1>2, <1>4, <1>5 DEF Noticed
<1>7. Caused'
  BY <1>2, <1>4 DEF Caused
<1>8. Reported'
  BY <1>2, <1>3 DEF Reported
<1> QED BY <1>6, <1>7, <1>8 DEF Grounds

(* run_checks and check_empty_zones_complex.                               *)
LEMMA ChecksGrounds ==
    ASSUME IInv, Grounds, Heard' = Heard, FileCheck \/ NextCheck \/ EmptyZones
    PROVE  Grounds'
<1> USE DEF FAIL, FIXED, PASS, INFORMATIONAL, ERROR
<1>1. /\ pc = "checks" /\ pc' = "checks" /\ UNCHANGED <<text, files, fixed>>
      /\ pos \in 1..4 /\ files \in Seq(File) /\ result \in 1..5 /\ result # 5 /\ idx \in Nat
  BY DEF FileCheck, NextCheck, EmptyZones, IInv, LoadInv, TypeOK, env, Grounds, Caused
<1>2. /\ Loaded' = Loaded /\ Conflicts(Loaded)' = Conflicts(Loaded)
      /\ \A f : Wrong(f)' = Wrong(f) /\ Fixable(f)' = Fixable(f)
  BY <1>1, GroundsFrame
<1>3. ~ Through /\ ~ Through' /\ Reported'
  BY <1>1 DEF Through, Reported
<1>4. Noticed /\ Caused
  BY DEF Grounds
<1>5. CASE FileCheck
  <2> DEFINE here == files[idx]
  <2>1. /\ pos \in 1..3 /\ idx \in 1..Len(files) /\ here \in Loaded
        /\ pos' = pos /\ idx' = idx + 1
        /\ result' = Worse(result, RunCheck(pos, here))
    BY <1>5 DEF FileCheck, Loaded
  <2>2. /\ pos \in {1, 2} => RunCheck(pos, here) \in {1, 2}
        /\ pos = 1 /\ text[here].tcpqueue => RunCheck(pos, here) = 2
        /\ pos = 2 /\ text[here].zonestat => RunCheck(pos, here) = 2
        /\ RunCheck(pos, here) = 2 => text[here].tcpqueue \/ text[here].zonestat
        /\ pos = 3 => RunCheck(pos, here) \in {1, 4}
        /\ RunCheck(pos, here) = 4 => "plain" \in text[here].slaves
        /\ pos = 3 /\ "plain" \in text[here].slaves => RunCheck(pos, here) = 4
    BY <2>1 DEF RunCheck, check_tcp_listen_queue, check_zone_statistics, check_masterfile_format
  <2>3. RunCheck(pos, here) \in {1, 2, 4}
    BY <2>1, <2>2
  <2>4. /\ result' \in 1..5 /\ result' >= result /\ result' >= RunCheck(pos, here)
        /\ result' \in {result, RunCheck(pos, here)}
    BY <1>1, <2>1, <2>3 DEF Worse
  <2>5. ASSUME NEW c \in {1, 2, 3}, NEW f \in Loaded, Seen(c, f)'
        PROVE  Seen(c, f) \/ (c = pos /\ f = here)
    <3>1. CASE pos > c
      BY <1>1, <3>1 DEF Seen
    <3>2. CASE ~ (pos > c)
      <4>1. pos = c /\ \E i \in 1..Len(files) : i < idx + 1 /\ files[i] = f
        BY <1>1, <1>3, <2>1, <2>5, <3>2 DEF Seen
      <4>2. PICK i \in 1..Len(files) : i < idx + 1 /\ files[i] = f
        BY <4>1
      <4>3. i < idx \/ i = idx
        BY <1>1, <4>2
      <4> QED BY <1>1, <4>1, <4>2, <4>3 DEF Seen
    <3> QED BY <3>1, <3>2
  <2>6. ASSUME NEW f \in Loaded
        PROVE  /\ Seen(1, f)' /\ text[f].tcpqueue => result' >= 2
               /\ Seen(2, f)' /\ text[f].zonestat => result' >= 2
               /\ Seen(3, f)' /\ "plain" \in text[f].slaves => result' >= 4
    <3> HIDE DEF here
    <3>1. /\ Seen(1, f)' => Seen(1, f) \/ (pos = 1 /\ f = here)
          /\ Seen(2, f)' => Seen(2, f) \/ (pos = 2 /\ f = here)
          /\ Seen(3, f)' => Seen(3, f) \/ (pos = 3 /\ f = here)
      BY <2>5
    <3>2. /\ Seen(1, f) /\ text[f].tcpqueue => result >= 2
          /\ Seen(2, f) /\ text[f].zonestat => result >= 2
          /\ Seen(3, f) /\ "plain" \in text[f].slaves => result >= 4
      BY <1>4 DEF Noticed
    <3> QED BY <1>1, <2>2, <2>4, <3>1, <3>2
  <2>7. Noticed'
    BY <1>1, <1>2, <1>3, <2>1, <2>6 DEF Noticed
  <2>8. Caused'
    <3>1. /\ result' = 4 => result = 4 \/ \E f \in Loaded : "plain" \in text[f].slaves
          /\ result' = 3 => result = 3
          /\ result' = 2 => result = 2 \/ \E f \in Loaded : text[f].tcpqueue \/ text[f].zonestat
          /\ result' # 5
      BY <1>1, <2>1, <2>2, <2>3, <2>4
    <3> QED BY <1>1, <1>2, <1>3, <1>4, <2>1, <3>1 DEF Caused
  <2> QED BY <1>3, <2>7, <2>8 DEF Grounds
<1>6. CASE NextCheck
  <2>1. pos' = pos + 1 /\ idx' = 1 /\ idx > Len(files) /\ result' = result /\ pos \in 1..3
    BY <1>6 DEF NextCheck
  <2>2. ASSUME NEW c \in {1, 2, 3}, NEW f \in Loaded, Seen(c, f)' PROVE Seen(c, f)
    <3>1. PICK i \in 1..Len(files) : files[i] = f
      BY DEF Loaded
    <3>2. i < idx
      BY <1>1, <2>1
    <3>3. pos >= c
      BY <1>1, <1>3, <2>1, <2>2 DEF Seen
    <3> QED BY <1>1, <3>1, <3>2, <3>3 DEF Seen
  <2>3. Noticed'
    BY <1>1, <1>2, <1>3, <1>4, <2>1, <2>2 DEF Noticed
  <2>4. Caused'
    BY <1>1, <1>2, <1>3, <1>4, <2>1 DEF Caused
  <2> QED BY <1>3, <2>3, <2>4 DEF Grounds
<1>7. CASE EmptyZones
  <2>1. pos = 4 /\ pos' = 5 /\ result' = Worse(result, IF Conflicts(Loaded) = {} THEN 1 ELSE 4)
    BY <1>7 DEF EmptyZones
  <2>2. /\ result' \in 1..5 /\ result' >= result /\ (Conflicts(Loaded) # {} => result' >= 4)
        /\ result' = result \/ (Conflicts(Loaded) # {} /\ result' = 4)
    BY <1>1, <2>1 DEF Worse
  <2>3. \A c \in {1, 2, 3}, f \in Loaded : Seen(c, f)
    BY <1>1, <2>1 DEF Seen
  <2>4. ASSUME NEW f \in Loaded
        PROVE  /\ text[f].tcpqueue => result' >= 2
               /\ text[f].zonestat => result' >= 2
               /\ "plain" \in text[f].slaves => result' >= 4
    <3>1. Seen(1, f) /\ Seen(2, f) /\ Seen(3, f)
      BY <2>3
    <3> QED BY <1>1, <1>4, <2>2, <3>1 DEF Noticed
  <2>5. Noticed'
    BY <1>1, <1>2, <1>3, <2>2, <2>4 DEF Noticed
  <2>6. Caused'
    BY <1>1, <1>2, <1>3, <1>4, <2>1, <2>2 DEF Caused
  <2> QED BY <1>3, <2>5, <2>6 DEF Grounds
<1> QED BY <1>5, <1>6, <1>7

(* The two statements, and the end.                                        *)
LEMMA RepairGrounds ==
    ASSUME IInv, Grounds, Heard' = Heard, RuntimeDir
    PROVE  Grounds'
<1> USE DEF FAIL, FIXED, PASS, INFORMATIONAL, ERROR
<1>a. PICK f : f = ConfigFile
  OBVIOUS
<1>b. PICK k : k = KeyAt(pos)
  OBVIOUS
<1>1. /\ pc = "checks" /\ pos \in {5, 6} /\ OptionsAt # {} /\ UNCHANGED <<text, files>>
      /\ pos' = pos + 1 /\ pc' = (IF pos = 6 THEN "write" ELSE "checks")
      /\ FixStatement(f, k) /\ result' = Worse(result, StatementResult(f, k))
      /\ files \in Seq(File) /\ result \in 1..5 /\ result # 5
  BY <1>a, <1>b DEF RuntimeDir, IInv, LoadInv, TypeOK, env, Grounds, Caused
<1>2. f \in Loaded /\ k \in Key
  BY <1>1, <1>a, <1>b, ConfigFileLoaded DEF KeyAt, Key
<1>3. /\ Loaded' = Loaded /\ Conflicts(Loaded)' = Conflicts(Loaded) /\ OptionsAt' = OptionsAt
      /\ \A g : Wrong(g)' = Wrong(g) /\ Fixable(g)' = Fixable(g)
  BY <1>1, GroundsFrame
<1>4. Noticed /\ Caused /\ ~ Through
  BY <1>1 DEF Grounds, Through
<1>5. /\ StatementResult(f, k) \in {1, 3, 4}
      /\ StatementResult(f, k) = 4 => ~ Fixable(f) /\ Wrong(f) # {}
      /\ StatementResult(f, k) = 3 => k \in Wrong(f) /\ Fixable(f)
  BY DEF StatementResult
<1>6. /\ result' \in 1..4 /\ result' >= result
      /\ result' \in {result, StatementResult(f, k)}
  BY <1>1, <1>5 DEF Worse
<1>7. DOMAIN fixed \subseteq DOMAIN fixed' /\ (k \in Wrong(f) /\ Fixable(f) => DOMAIN fixed' # {})
  BY <1>1 DEF FixStatement
<1>8. ASSUME NEW g \in Loaded
      PROVE  /\ text[g].tcpqueue => result' >= 2
             /\ text[g].zonestat => result' >= 2
             /\ "plain" \in text[g].slaves => result' >= 4
  <2>1. Seen(1, g) /\ Seen(2, g) /\ Seen(3, g)
    BY <1>1 DEF Seen
  <2> QED BY <1>1, <1>4, <1>6, <2>1 DEF Noticed
<1>9. Noticed'
  <2>1. Conflicts(Loaded) # {} => result' >= 4
    BY <1>1, <1>4, <1>6 DEF Noticed
  <2> QED BY <1>1, <1>3, <1>8, <2>1 DEF Noticed
<1>10. Caused'
  <2>1. /\ result' = 4 => result = 4 \/ (~ Fixable(f) /\ Wrong(f) # {})
        /\ result' = 3 => DOMAIN fixed' # {}
        /\ result' = 2 => result = 2
        /\ result' # 5
    BY <1>1, <1>4, <1>5, <1>6, <1>7 DEF Caused
  <2> QED BY <1>1, <1>2, <1>3, <1>4, <2>1 DEF Caused
<1>11. Reported'
  BY <1>1 DEF Reported
<1> QED BY <1>9, <1>10, <1>11 DEF Grounds

LEMMA WriteGrounds ==
    ASSUME IInv, Grounds, Heard' = Heard, WriteFixed \/ NoOptions
    PROVE  Grounds'
<1> USE DEF FAIL, FIXED, PASS, INFORMATIONAL, ERROR
<1>1. UNCHANGED <<text, files, include, fixed>>
  BY DEF WriteFixed, NoOptions, env, Exit
<1>2. /\ Loaded' = Loaded /\ Conflicts(Loaded)' = Conflicts(Loaded) /\ OptionsAt' = OptionsAt
      /\ Closed(Loaded)' = Closed(Loaded)
      /\ \A g : Wrong(g)' = Wrong(g) /\ Fixable(g)' = Fixable(g)
  BY <1>1, GroundsFrame, LoadedFixed
<1>3. Noticed /\ Caused /\ result \in 1..5 /\ Complete
  BY DEF Grounds, IInv, LoadInv, TypeOK
<1>4. CASE WriteFixed
  <2>1. pc = "write" /\ pc' = "done" /\ result' = result /\ exit' = ReturnWithCode(result)
    BY <1>4 DEF WriteFixed, Exit
  <2>2. Through /\ (Through' <=> Heard)
    BY <2>1 DEF Through
  <2>3. \A c, f : Seen(c, f)
    BY <2>2 DEF Seen
  <2>4. Noticed'
    BY <1>1, <1>2, <1>3, <2>1, <2>2, <2>3 DEF Noticed
  <2>5. Caused'
    BY <1>1, <1>2, <1>3, <2>1, <2>2 DEF Caused
  <2>6. Reported'
    BY <1>2, <1>3, <2>1 DEF Reported, Complete
  <2> QED BY <2>4, <2>5, <2>6 DEF Grounds
<1>5. CASE NoOptions
  <2>1. pc = "checks" /\ pos = 5 /\ pc' = "write" /\ result' = 5 /\ OptionsAt = {}
    BY <1>5 DEF NoOptions
  <2>2. Noticed' /\ Caused' /\ Reported'
    BY <1>2, <2>1 DEF Noticed, Caused, Reported
  <2> QED BY <2>2 DEF Grounds
<1> QED BY <1>4, <1>5

(* The verdict is right wherever in the include tree a problem is: the     *)
(* result tells of everything the checks have seen, nothing else made it,  *)
(* and what they have seen is the whole tree.                              *)
THEOREM VerdictAlwaysRight == Spec => []Verdict
<1> USE DEF FAIL, FIXED, PASS, INFORMATIONAL, ERROR
<1>1. IInv /\ Grounds /\ [Next]_vars => Grounds'
  <2> SUFFICES ASSUME IInv, Grounds, [Next]_vars PROVE Grounds'
    OBVIOUS
  <2>1. Heard' = Heard
    BY HeardFixed DEF IInv
  <2>2. CASE LoadMain \/ LoadInclude \/ NextFile \/ CheckChanged
    BY <2>1, <2>2, LoadingGrounds
  <2>3. CASE FileCheck \/ NextCheck \/ EmptyZones
    BY <2>1, <2>3, ChecksGrounds
  <2>4. CASE RuntimeDir
    BY <2>1, <2>4, RepairGrounds
  <2>5. CASE NoOptions \/ WriteFixed
    BY <2>1, <2>5, WriteGrounds
  <2>6. CASE UNCHANGED vars
    <3>1. UNCHANGED <<text, files, include, pc, idx, pos, result, fixed, exit>>
      BY <2>6 DEF vars, env
    <3>2. Through' = Through /\ \A c, f : Seen(c, f)' = Seen(c, f)
      BY <2>1, <3>1 DEF Through, Seen
    <3>3. Noticed' /\ Caused' /\ Reported'
      BY <2>1, <3>1, <3>2, GroundsFrame, LoadedFixed DEF Noticed, Caused, Reported, Grounds
    <3> QED BY <3>3 DEF Grounds
  <2> QED BY <2>2, <2>3, <2>4, <2>5, <2>6 DEF Next
<1>2. IInv /\ Grounds => Verdict
  <2> SUFFICES ASSUME IInv, Grounds, pc = "done", Heard PROVE Verdict
    BY DEF Verdict, Heard
  <2>1. Through /\ Noticed /\ Caused /\ exit = ReturnWithCode(result) /\ result \in 1..5
    BY DEF Through, Grounds, Reported, IInv, LoadInv, TypeOK
  <2>2. Loaded = Reachable
    BY ClosedIsAll DEF Grounds, Reported, IInv, LoadInv, Complete, TypeOK
  <2>3. MustReview <=> \/ \E f \in Loaded : "plain" \in text[f].slaves
                       \/ Conflicts(Loaded) # {}
    BY <2>2 DEF MustReview, Conflicts
  <2>4. OptionsAt = {} <=> \A f \in Loaded : text[f].options = "none"
    BY DEF OptionsAt, Loaded
  <2>5. \A f \in Loaded : Seen(1, f) /\ Seen(2, f) /\ Seen(3, f)
    BY <2>1 DEF Seen
  <2>6. /\ MustReview => result >= 4
        /\ (\E f \in Loaded : text[f].tcpqueue \/ text[f].zonestat) => result >= 2
    BY <2>1, <2>3, <2>5 DEF Noticed
  <2>7. /\ exit = "error" <=> result = 5
        /\ exit = "fail" <=> result = 4
        /\ exit = "fixed" <=> result = 3
        /\ exit = "informational" <=> result = 2
        /\ exit = "pass" <=> result = 1
    BY <2>1 DEF ReturnWithCode
  <2>8. /\ exit = "error" <=> \A f \in Reachable : text[f].options = "none"
        /\ exit = "fail" => MustReview \/ \E f \in Reachable : ~ Fixable(f) /\ Wrong(f) # {}
        /\ exit = "fixed" => DOMAIN fixed # {}
        /\ exit = "informational" => \E f \in Reachable : text[f].tcpqueue \/ text[f].zonestat
    BY <2>1, <2>2, <2>3, <2>4, <2>7 DEF Caused
  <2>9. /\ MustReview => exit \in {"fail", "error"}
        /\ exit = "fixed" => ~ MustReview
        /\ exit = "pass" =>
             ~ MustReview /\ \A f \in Reachable : ~ text[f].tcpqueue /\ ~ text[f].zonestat
    BY <2>1, <2>2, <2>6, <2>7
  <2> QED BY <2>8, <2>9 DEF Verdict
<1> QED BY <1>1, <1>2, InitIInv, StepIInv, InitGrounds, PTL DEF Spec

(***************************************************************************)
(* The end of the loops.                                                   *)
(***************************************************************************)
Loops ==
    /\ pc = "include" => idx <= Len(files) + 1
    /\ pc = "include" /\ idx <= Len(files) => pos <= Len(include[files[idx]]) + 1
    /\ pc = "checks" => idx <= Len(files) + 1 /\ pos <= 6

(* The loops stay in their bounds: FILES_TO_CHECK, which grows while it is *)
(* read, has no more entries than there are files.                         *)
InBounds == Len(files) <= Cardinality(File) /\ Loops

Advances(i, i2, j, j2) == i2 > i \/ (i2 = i /\ j2 > j)

(* A step goes on to a later part of main(), or, in the loading loop, to a *)
(* later file or include statement, or, in run_checks, to a later check or *)
(* file.                                                                   *)
Onward ==
    \/ pc = "load" /\ pc' \in {"include", "done"}
    \/ pc = "include" /\ pc' \in {"checks", "done"}
    \/ pc = "checks" /\ pc' = "write"
    \/ pc = "write" /\ pc' = "done"
    \/ pc = "include" /\ pc' = "include" /\ Advances(idx, idx', pos, pos')
    \/ pc = "checks" /\ pc' = "checks" /\ Advances(pos, pos', idx, idx')

LEMMA ListFits ==
    ASSUME IsFiniteSet(File), files \in Seq(File), NoDuplicates
    PROVE  Len(files) <= Cardinality(File)
<1> DEFINE n == Len(files)
           f == [i \in 1..n |-> files[i]]
<1>1. f \in Injection(1..n, File)
  BY DEF Injection, IsInjective, NoDuplicates
<1>2. Cardinality(1..n) <= Cardinality(File)
  <2> HIDE DEF f, n
  <2> QED BY <1>1, FS_Injection
<1>3. Cardinality(1..n) = n
  <2>1. n \in Int /\ 1 \in Int /\ n >= 0
    OBVIOUS
  <2> HIDE DEF n
  <2> QED BY <2>1, FS_Interval
<1> QED BY <1>2, <1>3

(* The file the loading loop has reached has a list of include statements. *)
LEMMA IncludeList ==
    ASSUME TypeOK, idx \in 1..Len(files)
    PROVE  Len(include[files[idx]]) \in Nat
<1>1. files[idx] \in File
  BY DEF TypeOK
<1>2. include[files[idx]] \in Seq(File)
  BY <1>1, InputsAssumption DEF TypeOK
<1> QED BY <1>2

LEMMA LoopsStep ==
    ASSUME LoadInv, Loops, [Next]_vars
    PROVE  Loops'
<1> USE DEF Loops
<1>1. TypeOK /\ Walk /\ files \in Seq(File) /\ idx \in Nat \ {0} /\ pos \in Nat \ {0}
  BY DEF LoadInv, TypeOK
<1>2. CASE LoadMain
  <2>1. pc' = "include" => files' = <<Main>> /\ idx' = 1 /\ pos' = 1
    BY <1>1, <1>2 DEF LoadMain, Walk, Exit
  <2>2. pc' # "checks" /\ UNCHANGED include
    BY <1>2 DEF LoadMain, Exit, env
  <2>3. pc' = "include" => files'[idx'] = Main /\ Len(files') = 1
    BY <2>1
  <2>4. Len(include[Main]) \in Nat
    <3>1. include[Main] \in Seq(File)
      BY <1>1, FilesAssumption, InputsAssumption DEF TypeOK
    <3> QED BY <3>1
  <2> QED BY <2>1, <2>2, <2>3, <2>4
<1>3. CASE LoadInclude
  <2> DEFINE f == include[files[idx]][pos]
  <2>1. f \in File /\ pos \in 1..Len(include[files[idx]]) /\ idx \in 1..Len(files)
    <3>1. files[idx] \in File /\ idx \in 1..Len(files)
      BY <1>1, <1>3 DEF LoadInclude
    <3>2. include[files[idx]] \in Seq(File)
      BY <1>1, <3>1, InputsAssumption DEF TypeOK
    <3> QED BY <1>3, <3>1, <3>2 DEF LoadInclude
  <2>2. pc' # "include" => pc' = "done"
    BY <1>3 DEF LoadInclude, Exit
  <2>3. UNCHANGED <<include, idx>>
    BY <1>3 DEF LoadInclude, env
  <2>4. pc' = "include" => pos' = pos + 1 /\ (files' = files \/ files' = Append(files, f))
    BY <1>3 DEF LoadInclude, Exit
  <2>5. files' = files \/ files' = Append(files, f) =>
           files'[idx] = files[idx] /\ Len(files') >= Len(files)
    BY <1>1, <2>1
  <2>6. Len(include[files[idx]]) \in Nat
    BY <1>1, <2>1, IncludeList
  <2> HIDE DEF f
  <2> QED BY <1>1, <2>1, <2>2, <2>3, <2>4, <2>5, <2>6
<1>4. CASE NextFile
  <2>1. /\ pc = "include" /\ idx \in 1..Len(files)
        /\ UNCHANGED <<include, files, pc>> /\ idx' = idx + 1 /\ pos' = 1
    BY <1>4 DEF NextFile, env
  <2>2. idx' <= Len(files) => Len(include[files[idx']]) \in Nat
    <3>1. idx' <= Len(files) => files[idx'] \in File
      BY <1>1, <2>1
    <3>2. idx' <= Len(files) => include[files[idx']] \in Seq(File)
      BY <1>1, <3>1, InputsAssumption DEF TypeOK
    <3> QED BY <3>2
  <2> QED BY <2>1, <2>2
<1>5. CASE CheckChanged
  BY <1>1, <1>5 DEF CheckChanged, Exit
<1>6. CASE FileCheck
  BY <1>1, <1>6 DEF FileCheck
<1>7. CASE NextCheck
  BY <1>1, <1>7 DEF NextCheck
<1>8. CASE EmptyZones
  BY <1>1, <1>8 DEF EmptyZones
<1>9. CASE RuntimeDir
  BY <1>1, <1>9 DEF RuntimeDir
<1>10. CASE NoOptions \/ WriteFixed
  BY <1>10 DEF NoOptions, WriteFixed, Exit
<1>11. CASE UNCHANGED vars
  BY <1>11 DEF vars, env
<1> QED BY <1>2, <1>3, <1>4, <1>5, <1>6, <1>7, <1>8, <1>9, <1>10, <1>11 DEF Next

LEMMA StepOnward ==
    ASSUME TypeOK, Next
    PROVE  Onward
<1>1. idx \in Nat /\ pos \in Nat
  BY DEF TypeOK
<1> USE <1>1 DEF Onward, Advances, Exit
<1>2. CASE LoadMain \/ CheckChanged
  BY <1>2 DEF LoadMain, CheckChanged
<1>3. CASE LoadInclude
  BY <1>3 DEF LoadInclude
<1>4. CASE NextFile
  BY <1>4 DEF NextFile
<1>5. CASE FileCheck
  BY <1>5 DEF FileCheck
<1>6. CASE NextCheck \/ EmptyZones
  BY <1>6 DEF NextCheck, EmptyZones
<1>7. CASE RuntimeDir
  BY <1>7 DEF RuntimeDir
<1>8. CASE NoOptions \/ WriteFixed
  BY <1>8 DEF NoOptions, WriteFixed
<1> QED BY <1>2, <1>3, <1>4, <1>5, <1>6, <1>7, <1>8 DEF Next

(* The loops of load_included_files and run_checks end for every finite    *)
(* set of files, whatever includes what: each step moves on, to a later    *)
(* stage, file, include statement or check, and these stay in bounds that  *)
(* no step changes, as no file enters FILES_TO_CHECK twice.                *)
THEOREM EveryLoopEnds ==
    ASSUME IsFiniteSet(File)
    PROVE  Spec => []InBounds /\ [][Onward]_vars
<1>1. Init => Loops
  BY DEF Init, Loops
<1>2. LoadInv /\ Loops /\ [Next]_vars => Loops'
  BY LoopsStep
<1>3. LoadInv /\ Loops => InBounds
  BY ListFits DEF InBounds, LoadInv, TypeOK, Complete
<1>4. LoadInv /\ [Next]_vars => [Onward]_vars
  BY StepOnward DEF LoadInv
<1> QED BY <1>1, <1>2, <1>3, <1>4, Loading, PTL DEF Spec
=============================================================================
