----------------------- MODULE EnforceDowngraded_proofs -----------------------
(***************************************************************************)
(* What the hook for downgraded packages keeps, for all repositories and   *)
(* systems and any number of broken off runs: the directory of the upgrade *)
(* tool and its list agree, and a run that ended well has listed what it   *)
(* should.                                                                 *)
(***************************************************************************)
EXTENDS EnforceDowngraded, FiniteSetTheorems, SequenceTheorems, TLAPS

Entries == [alt : BOOLEAN, pkg : AnyPkg]

(* package.list with the lines that are not on the disk yet.               *)
Written == list \o buffer
On(lines, p) == \E i \in 1..Len(lines) : lines[i].pkg = p

(* Lines say where the package lies; a file in the directory has one line. *)
Right(lines) ==
    \A i \in 1..Len(lines) :
        /\ lines[i].alt = (lines[i].pkg \in medium)
        /\ lines[i].alt \/ lines[i].pkg \in rhelup
Once(lines) == \A i, j \in 1..Len(lines) : ~ lines[i].alt /\ lines[i] = lines[j] => i = j

Places ==
    /\ repo \in Repos /\ medium \subseteq AnyPkg
    /\ rhelup \cap (medium \cup todo) = {}
    /\ list \in Seq(Entries) /\ buffer \in Seq(Entries)

Phases ==
    /\ step # "install" => todo = {} /\ buffer = <<>>
    /\ step = "download" => links = rhelup
    /\ status = "done" => step = "idle"

(* A file without a line is one that was left behind.                      *)
Present == ~ torn => \A p \in rhelup : On(Written, p)

(* No member of the transaction is forgotten.                              *)
Handled == step = "install" => \A m \in Members : m \in todo \cup rhelup \/ On(Written, m)
Ended == status = "done" /\ ~ torn => \A m \in Members : On(list, m)

IInv ==
    /\ TypeOK /\ Places /\ Phases
    /\ Right(Written) /\ Once(Written)
    /\ Present /\ Handled /\ Ended

----------------------------------------------------------------------------
(* The repository and the packages chosen from it.                         *)

LEMMA RepoIsSeq ==
    ASSUME repo \in Repos
    PROVE  /\ repo \in Seq(AnyPkg) /\ Len(repo) \in Nat /\ DOMAIN repo = 1..Len(repo)
           /\ AnyPkg = {repo[i] : i \in DOMAIN repo} /\ IsFiniteSet(AnyPkg)
           /\ \A q \in AnyPkg : Requires(q, repo) \subseteq AnyPkg
<1> DEFINE S == {repo[i] : i \in DOMAIN repo}
<1>1. repo \in Seq(S)
  BY DowngradeAssumption
<1> HIDE DEF S
<1>2. Len(repo) \in Nat /\ DOMAIN repo = 1..Len(repo) /\ repo \in [1..Len(repo) -> S]
  BY <1>1, LenProperties, EmptySeq
<1>3. AnyPkg = S
  BY <1>2 DEF AnyPkg, S
<1>4. repo \in Surjection(1..Len(repo), S)
  BY <1>2 DEF Surjection, S
<1>5. IsFiniteSet(1..Len(repo))
  BY <1>2, FS_Interval
<1>6. IsFiniteSet(S)
  BY <1>4, <1>5, FS_Surjection
<1>7. \A q \in AnyPkg : Requires(q, repo) \subseteq AnyPkg
  BY <1>3, DowngradeAssumption DEF S
<1> QED BY <1>1, <1>2, <1>3, <1>6, <1>7 DEF S

LEMMA LeastIndex ==
    ASSUME NEW I \in SUBSET Nat, I # {}
    PROVE  Min(I) \in I /\ \A i \in I : Min(I) <= i
<1> DEFINE R == OpToRel(<, Nat)
<1>1. IsWellFoundedOn(R, Nat)
  BY NatLessThanWellFounded
<1>2. \A i, j \in Nat : <<j, i>> \notin R => i <= j
  BY DEF OpToRel
<1> HIDE DEF R
<1>3. \E i \in I : \A j \in I : <<j, i>> \notin R
  BY <1>1, WFMin
<1>4. \E i \in I : \A j \in I : i <= j
  BY <1>2, <1>3
<1> QED BY <1>4 DEF Min

(* What a package is compared with is in the repository: one of those that *)
(* take its place, if there are any.                                       *)
LEMMA CandidateFromRepo ==
    ASSUME repo \in Repos, NEW p
    PROVE  /\ Candidate(p) \subseteq AnyPkg
           /\ Successors(p) # {} => \E i \in Successors(p) : Candidate(p) = {repo[i]}
<1> DEFINE named == {i \in DOMAIN repo : repo[i].name = p.name}
           exact == {i \in named : repo[i].arch = p.arch}
           Least(I) == I # {} => Min(I) \in I
<1>1. /\ named \in SUBSET Nat /\ exact \in SUBSET Nat
      /\ named \subseteq DOMAIN repo /\ exact \subseteq DOMAIN repo
      /\ AnyPkg = {repo[i] : i \in DOMAIN repo}
  BY RepoIsSeq
<1>2. Least(named) /\ Least(exact)
  <2> HIDE DEF named, exact
  <2> QED BY <1>1, LeastIndex
<1>3. \/ Candidate(p) = {}
      \/ exact # {} /\ Candidate(p) = {repo[Min(exact)]}
      \/ named # {} /\ Candidate(p) = {repo[Min(named)]}
  BY DEF Candidate
<1>4. Candidate(p) \subseteq AnyPkg
  <2> HIDE DEF named, exact
  <2> QED BY <1>1, <1>2, <1>3
<1>5. ASSUME exact # {}
      PROVE  Successors(p) = exact /\ Candidate(p) = {repo[Min(exact)]}
  BY <1>5 DEF Candidate, Successors
<1>6. ASSUME exact = {}, Successors(p) # {}
      PROVE  Successors(p) = named /\ Candidate(p) = {repo[Min(named)]}
  <2>1. Successors(p) = named /\ named # {}
    BY <1>6 DEF Successors
  <2>2. \/ p.arch = "noarch"
        \/ Cardinality(named) = 1 /\ \E i \in named : repo[i].arch = "noarch"
        \/ Cardinality(named) = 1 /\ p.arch = BaseArch
    BY <1>6 DEF Successors
  <2>3. Cardinality(named) = 1 => \A i, j \in named : i = j
    <3> HIDE DEF named
    <3>1. IsFiniteSet(1..Len(repo)) /\ named \subseteq 1..Len(repo)
      BY <1>1, RepoIsSeq, FS_Interval
    <3>2. IsFiniteSet(named)
      BY <3>1, FS_Subset
    <3>3. Cardinality(named) = 1 => \E x : named = {x}
      BY <3>2, FS_Singleton
    <3> QED BY <3>3
  <2>4. \/ p.arch = "noarch"
        \/ Cardinality(named) = 1 /\ repo[Min(named)].arch = "noarch"
        \/ Cardinality(named) = 1 /\ p.arch = BaseArch
    <3> HIDE DEF named
    <3> QED BY <1>2, <2>1, <2>2, <2>3
  <2>5. Candidate(p) = {repo[Min(named)]}
    BY <1>6, <2>1, <2>4 DEF Candidate
  <2> QED BY <2>1, <2>5
<1> HIDE DEF named, exact
<1> QED BY <1>2, <1>4, <1>5, <1>6

LEMMA MembersFromRepo ==
    ASSUME repo \in Repos
    PROVE  Downgraded \subseteq Members /\ Members \subseteq AnyPkg
<1>1. Downgraded \subseteq AnyPkg
  BY CandidateFromRepo DEF Downgraded
<1>2. \A q \in AnyPkg : Requires(q, repo) \subseteq AnyPkg
  BY RepoIsSeq
<1> QED BY <1>1, <1>2 DEF Members

(* The packages to consider do not change while the hook works.            *)
LEMMA SameEnv ==
    ASSUME UNCHANGED env
    PROVE  /\ repo' = repo /\ medium' = medium /\ AnyPkg' = AnyPkg /\ Entries' = Entries
           /\ Members' = Members
<1> USE DEF env
<1>1. AnyPkg' = AnyPkg
  BY DEF AnyPkg
<1>2. \A p : Candidate(p)' = Candidate(p)
  BY DEF Candidate
<1>3. Downgraded' = Downgraded
  BY <1>2 DEF Downgraded
<1> QED BY <1>1, <1>3 DEF Entries, Members

----------------------------------------------------------------------------
(* Lines.                                                                  *)

LEMMA LinesWritten ==
    ASSUME Places
    PROVE  /\ Written \in Seq(Entries) /\ Len(Written) = Len(list) + Len(buffer)
           /\ Len(list) \in Nat /\ Len(buffer) \in Nat
           /\ \A i \in 1..Len(list) : Written[i] = list[i]
           /\ \A i \in 1..Len(buffer) : Written[Len(list) + i] = buffer[i]
<1>1. list \in Seq(Entries) /\ buffer \in Seq(Entries)
  BY DEF Places
<1>2. Len(list) \in Nat /\ Len(buffer) \in Nat
  BY <1>1, LenProperties
<1>3. /\ Written \in Seq(Entries) /\ Len(Written) = Len(list) + Len(buffer)
      /\ \A i \in 1..Len(list) + Len(buffer) :
            Written[i] = IF i <= Len(list) THEN list[i] ELSE buffer[i - Len(list)]
  BY <1>1, ConcatProperties DEF Written
<1>4. \A i \in 1..Len(list) : Written[i] = list[i]
  BY <1>2, <1>3
<1>5. ASSUME NEW i \in 1..Len(buffer)
      PROVE  Written[Len(list) + i] = buffer[i]
  <2>1. /\ Len(list) + i \in 1..Len(list) + Len(buffer)
        /\ ~(Len(list) + i <= Len(list)) /\ (Len(list) + i) - Len(list) = i
    BY <1>2
  <2> QED BY <1>3, <2>1
<1> QED BY <1>2, <1>3, <1>4, <1>5

LEMMA RightTyped ==
    ASSUME Places, Right(Written)
    PROVE  \A i \in 1..Len(Written) :
              Written[i].pkg \in AnyPkg /\ Written[i].alt = (Written[i].pkg \in medium)
<1>1. \A i \in 1..Len(Written) : Written[i] \in Entries
  BY LinesWritten, ElementOfSeq
<1> QED BY <1>1 DEF Right, Entries

(* The open file is closed: its lines are on the disk.                     *)
LEMMA Flushed ==
    ASSUME Places, list' = list \o buffer, buffer' = <<>>, UNCHANGED env
    PROVE  Written' = Written /\ list' = Written /\ list' \in Seq(Entries') /\ buffer' \in Seq(Entries')
<1>1. Written \in Seq(Entries) /\ Entries' = Entries /\ list' = Written
  BY LinesWritten, SameEnv DEF Written
<1>2. Written' = Written
  BY <1>1, ConcatEmptySeq DEF Written
<1>3. buffer' \in Seq(Entries')
  BY EmptySeq
<1> QED BY <1>1, <1>2, <1>3

(* A line more.                                                            *)
LEMMA OneMore ==
    ASSUME Places, NEW line \in Entries, buffer' = Append(buffer, line), list' = list, UNCHANGED env
    PROVE  /\ Written' = Append(Written, line) /\ buffer' \in Seq(Entries')
           /\ Len(Written) \in Nat /\ Len(Written') = Len(Written) + 1
           /\ \A i \in 1..Len(Written) : Written'[i] = Written[i]
           /\ Written'[Len(Written) + 1] = line
<1>1. list \in Seq(Entries) /\ buffer \in Seq(Entries) /\ Entries' = Entries /\ Written \in Seq(Entries)
  BY SameEnv, LinesWritten DEF Places
<1>2. Append(buffer, line) = buffer \o <<line>> /\ Append(Written, line) = Written \o <<line>>
      /\ <<line>> \in Seq(Entries)
  BY <1>1, AppendIsConcat
<1>3. Written' = Append(Written, line)
  BY <1>1, <1>2, ConcatAssociative DEF Written
<1>4. buffer' \in Seq(Entries)
  BY <1>1, AppendProperties
<1>5. Len(Written) \in Nat
  BY <1>1, LenProperties
<1> QED BY <1>1, <1>3, <1>4, <1>5, AppendProperties

----------------------------------------------------------------------------
(* The steps of the hook.                                                  *)

LEMMA StartKeeps == IInv /\ Start => IInv'
<1> SUFFICES ASSUME IInv, Start PROVE IInv'
  OBVIOUS
<1>1. /\ TypeOK /\ Places /\ Phases /\ step = "idle"
      /\ UNCHANGED <<env, rhelup, list, todo, buffer, losses, torn>>
      /\ runs' = runs + 1 /\ runs < MaxRuns /\ status' # "done"
      /\ \/ step' = "idle" /\ status' = "failed" /\ UNCHANGED <<links, fetched>>
         \/ step' = "download" /\ status' = "none" /\ links' = rhelup /\ fetched' = {}
  BY DEF IInv, Start, Exit
<1>2. /\ repo' = repo /\ medium' = medium /\ AnyPkg' = AnyPkg /\ Entries' = Entries
      /\ Members' = Members /\ Written' = Written
  BY <1>1, SameEnv DEF Written
<1>3. TypeOK'
  BY <1>1, <1>2, DowngradeAssumption DEF TypeOK
<1>4. Places' /\ Phases'
  BY <1>1, <1>2 DEF Places, Phases
<1>5. Right(Written)' /\ Once(Written)' /\ Present'
  BY <1>1, <1>2 DEF IInv, Right, Once, Present, On
<1>6. Handled' /\ Ended'
  BY <1>1 DEF Handled, Ended
<1> QED BY <1>3, <1>4, <1>5, <1>6 DEF IInv

LEMMA DownloadKeeps == IInv /\ Download => IInv'
<1> SUFFICES ASSUME IInv, Download PROVE IInv'
  OBVIOUS
<1>1. /\ TypeOK /\ Places /\ Phases /\ step = "download" /\ links = rhelup /\ todo = {}
      /\ UNCHANGED <<env, rhelup, list, links, buffer, runs, losses, torn>>
      /\ fetched' \subseteq Missing /\ status' # "done" /\ status' \in {"none", "failed", status}
      /\ \/ step' = "install" /\ todo' = Downloaded(Missing) /\ status' = status
         \/ step' = "idle" /\ todo' = {} /\ status' = "failed"
  BY DEF IInv, Download, Exit, Phases
<1>2. /\ repo' = repo /\ medium' = medium /\ AnyPkg' = AnyPkg /\ Entries' = Entries
      /\ Members' = Members /\ Written' = Written
  BY <1>1, SameEnv DEF Written
<1>3. /\ Members \subseteq AnyPkg /\ Missing = Members \ (rhelup \cup medium)
      /\ Downloaded(Missing) = Members \cap (Missing \cup medium)
  BY <1>1, MembersFromRepo DEF Places, Missing, Downloaded
<1>4. TypeOK'
  BY <1>1, <1>2, <1>3 DEF TypeOK
<1>5. Places' /\ Phases'
  BY <1>1, <1>2, <1>3 DEF Places, Phases
<1>6. Right(Written)' /\ Once(Written)' /\ Present'
  BY <1>1, <1>2 DEF IInv, Right, Once, Present, On
<1>7. Handled' /\ Ended'
  BY <1>1, <1>2, <1>3 DEF Handled, Ended
<1> QED BY <1>4, <1>5, <1>6, <1>7 DEF IInv

LEMMA InstallKeeps ==
    ASSUME IInv, NEW p \in AnyPkg, Install(p)
    PROVE  IInv'
<1> DEFINE line == Line(p \in medium, p)
<1>1. /\ TypeOK /\ Places /\ Phases /\ step = "install" /\ p \in todo /\ todo' = todo \ {p}
      /\ UNCHANGED <<env, list, links, step, status, runs, losses, torn>>
      /\ buffer' = Append(buffer, line) /\ status # "done"
      /\ IF p \in medium
           THEN UNCHANGED <<rhelup, fetched>>
           ELSE rhelup' = rhelup \cup {p} /\ fetched' = fetched \ {p}
  BY DEF IInv, Install, Phases
<1>2. /\ repo' = repo /\ medium' = medium /\ AnyPkg' = AnyPkg /\ Entries' = Entries
      /\ Members' = Members
  BY <1>1, SameEnv
<1>3. line \in Entries /\ line.pkg = p /\ line.alt = (p \in medium)
  BY DEF Line, Entries
<1> HIDE DEF line
<1>4. /\ buffer' \in Seq(Entries')
      /\ Len(Written) \in Nat /\ Len(Written') = Len(Written) + 1
      /\ \A i \in 1..Len(Written) : Written'[i] = Written[i]
      /\ Written'[Len(Written) + 1] = line
  BY <1>1, <1>3, OneMore
<1>5. /\ rhelup \subseteq rhelup' /\ rhelup' \subseteq rhelup \cup {p} /\ p \notin rhelup
      /\ p \notin medium => p \in rhelup' 
      /\ rhelup' \cap medium = {} /\ fetched' \subseteq fetched
  BY <1>1 DEF Places
<1>6. TypeOK'
  BY <1>1, <1>2, <1>5 DEF TypeOK
<1>7. Places' /\ Phases'
  BY <1>1, <1>2, <1>4, <1>5 DEF Places, Phases
<1>8. Right(Written)'
  <2> SUFFICES ASSUME NEW i \in 1..Len(Written) + 1
               PROVE  /\ Written'[i].alt = (Written'[i].pkg \in medium)
                      /\ Written'[i].alt \/ Written'[i].pkg \in rhelup'
    BY <1>2, <1>4 DEF Right
  <2>1. CASE i \in 1..Len(Written)
    BY <2>1, <1>4, <1>5 DEF IInv, Right
  <2>2. CASE i = Len(Written) + 1
    BY <2>2, <1>3, <1>4, <1>5
  <2> QED BY <2>1, <2>2, <1>4
<1>9. Once(Written)'
  <2>1. \A i \in 1..Len(Written) : Written[i] = line => line.alt
    BY <1>3, <1>5 DEF IInv, Right
  <2> QED BY <1>4, <2>1 DEF IInv, Once
<1>10. \A q : On(Written, q) => On(Written', q)
  BY <1>4 DEF On
<1>11. On(Written', p)
  BY <1>3, <1>4 DEF On
<1>12. Present' /\ Handled' /\ Ended'
  BY <1>1, <1>2, <1>5, <1>10, <1>11 DEF IInv, Present, Handled, Ended
<1> QED BY <1>6, <1>7, <1>8, <1>9, <1>12 DEF IInv

(* The list is closed by the end of the hook, good or bad.                 *)
LEMMA MoveFailsKeeps ==
    ASSUME IInv, NEW p \in AnyPkg, MoveFails(p)
    PROVE  IInv'
<1>1. /\ TypeOK /\ Places /\ Phases /\ p \in todo \ medium
      /\ UNCHANGED <<env, links, fetched, runs, losses>>
      /\ list' = list \o buffer /\ buffer' = <<>> /\ todo' = {}
      /\ step' = "idle" /\ status' = "failed"
      /\ \/ rhelup' = rhelup \cup {p} /\ torn' = TRUE
         \/ rhelup' = rhelup /\ torn' = torn
  BY DEF IInv, MoveFails, Exit, TypeOK
<1>2. /\ repo' = repo /\ medium' = medium /\ AnyPkg' = AnyPkg /\ Entries' = Entries
      /\ Members' = Members
  BY <1>1, SameEnv
<1>3. Written' = Written /\ list' = Written /\ list' \in Seq(Entries') /\ buffer' \in Seq(Entries')
  BY <1>1, Flushed
<1>4. rhelup \subseteq rhelup' /\ rhelup' \subseteq AnyPkg \ medium
  BY <1>1 DEF Places, TypeOK
<1>5. TypeOK'
  <2>1. \A i \in 1..Len(Written) : Written[i].pkg \in AnyPkg /\ Written[i].alt = (Written[i].pkg \in medium)
    BY <1>1, RightTyped DEF IInv
  <2> QED BY <1>1, <1>2, <1>3, <1>4, <2>1 DEF TypeOK
<1>6. Places' /\ Phases'
  BY <1>1, <1>2, <1>3, <1>4 DEF Places, Phases
<1>7. Right(Written)' /\ Once(Written)' /\ Present'
  BY <1>1, <1>2, <1>3, <1>4 DEF IInv, Right, Once, Present, On
<1>8. Handled' /\ Ended'
  BY <1>1 DEF Handled, Ended
<1> QED BY <1>5, <1>6, <1>7, <1>8 DEF IInv

LEMMA FinishKeeps == IInv /\ Finish => IInv'
<1> SUFFICES ASSUME IInv, Finish PROVE IInv'
  OBVIOUS
<1>1. /\ TypeOK /\ Places /\ Phases /\ step = "install" /\ todo = {}
      /\ UNCHANGED <<env, rhelup, links, fetched, todo, runs, losses, torn>>
      /\ list' = list \o buffer /\ buffer' = <<>>
      /\ step' = "idle" /\ status' = "done"
  BY DEF IInv, Finish, Exit
<1>2. /\ repo' = repo /\ medium' = medium /\ AnyPkg' = AnyPkg /\ Entries' = Entries
      /\ Members' = Members
  BY <1>1, SameEnv
<1>3. Written' = Written /\ list' = Written /\ list' \in Seq(Entries') /\ buffer' \in Seq(Entries')
  BY <1>1, Flushed
<1>4. TypeOK'
  <2>1. \A i \in 1..Len(Written) : Written[i].pkg \in AnyPkg /\ Written[i].alt = (Written[i].pkg \in medium)
    BY <1>1, RightTyped DEF IInv
  <2> QED BY <1>1, <1>2, <1>3, <2>1 DEF TypeOK
<1>5. Places' /\ Phases'
  BY <1>1, <1>2, <1>3 DEF Places, Phases
<1>6. Right(Written)' /\ Once(Written)' /\ Present'
  BY <1>1, <1>2, <1>3 DEF IInv, Right, Once, Present, On
<1>7. Handled'
  BY <1>1 DEF Handled
<1>8. Ended'
  BY <1>1, <1>2, <1>3 DEF IInv, Handled, Present, Ended, On
<1> QED BY <1>4, <1>5, <1>6, <1>7, <1>8 DEF IInv

(* A lost line of a file leaves the file without one, and says so: torn.   *)
LEMMA PowerLossKeeps == IInv /\ PowerLoss => IInv'
<1> SUFFICES ASSUME IInv, PowerLoss PROVE IInv'
  OBVIOUS
<1>1. PICK n \in 0..Len(buffer) :
          /\ list' = list \o SubSeq(buffer, 1, n)
          /\ torn' = (torn \/ \E i \in n + 1..Len(buffer) : ~ buffer[i].alt)
  BY DEF PowerLoss
<1>2. /\ TypeOK /\ Places /\ Phases /\ losses' = losses + 1 /\ losses < MaxLosses
      /\ todo' = {} /\ buffer' = <<>> /\ step' = "idle" /\ status' = "none"
      /\ UNCHANGED <<env, rhelup, links, fetched, runs>>
  BY DEF IInv, PowerLoss, Exit
<1>3. /\ repo' = repo /\ medium' = medium /\ AnyPkg' = AnyPkg /\ Entries' = Entries
      /\ Members' = Members
  BY <1>2, SameEnv
<1> DEFINE kept == SubSeq(buffer, 1, n)
<1>4. /\ list \in Seq(Entries) /\ buffer \in Seq(Entries) /\ Len(list) \in Nat /\ Len(buffer) \in Nat
      /\ Len(Written) = Len(list) + Len(buffer)
      /\ \A i \in 1..Len(list) : Written[i] = list[i]
      /\ \A i \in 1..Len(buffer) : Written[Len(list) + i] = buffer[i]
  BY <1>2, LinesWritten DEF Places
<1>5. /\ kept \in Seq(Entries) /\ Len(kept) = n
      /\ \A i \in 1..n : kept[i] = buffer[i]
  <2>1. \A i \in 1..n : buffer[i] \in Entries
    BY <1>4, ElementOfSeq
  <2>2. /\ kept \in Seq(Entries) /\ Len(kept) = IF 1 <= n THEN n - 1 + 1 ELSE 0
        /\ \A i \in 1..n - 1 + 1 : kept[i] = buffer[1 + i - 1]
    BY <1>4, <2>1, SubSeqProperties
  <2> QED BY <1>4, <2>2
<1> HIDE DEF kept
<1>6. /\ list' \in Seq(Entries) /\ Len(list') = Len(list) + n
      /\ \A i \in 1..Len(list') : list'[i] = Written[i]
  <2>1. list' = list \o kept
    BY <1>1 DEF kept
  <2>2. /\ list' \in Seq(Entries) /\ Len(list') = Len(list) + n
        /\ \A i \in 1..Len(list) + n : list'[i] = IF i <= Len(list) THEN list[i] ELSE kept[i - Len(list)]
    <3>0. list \in Seq(Entries) /\ kept \in Seq(Entries)
      BY <1>4, <1>5
    <3>1. /\ list \o kept \in Seq(Entries) /\ Len(list \o kept) = Len(list) + Len(kept)
          /\ \A i \in 1..Len(list) + Len(kept) :
                (list \o kept)[i] = IF i <= Len(list) THEN list[i] ELSE kept[i - Len(list)]
      BY <3>0, ConcatProperties
    <3> QED BY <3>1, <1>5, <2>1
  <2>3. ASSUME NEW i \in 1..Len(list) + n
        PROVE  list'[i] = Written[i]
    <3>1. CASE i <= Len(list)
      BY <1>4, <2>2, <3>1
    <3>2. CASE ~(i <= Len(list))
      <4>1. i - Len(list) \in 1..n /\ Len(list) + (i - Len(list)) = i
        BY <1>4, <3>2
      <4>2. list'[i] = buffer[i - Len(list)] /\ Written[i] = buffer[i - Len(list)]
        BY <1>4, <1>5, <2>2, <3>2, <4>1
      <4> QED BY <4>2
    <3> QED BY <3>1, <3>2
  <2> QED BY <2>2, <2>3
<1>7. /\ Written' = list' /\ buffer' \in Seq(Entries')
      /\ 1..Len(list') \subseteq 1..Len(Written)
  BY <1>2, <1>4, <1>6, ConcatEmptySeq, EmptySeq DEF Written
<1>8. TypeOK'
  <2>1. \A i \in 1..Len(list') : list'[i].pkg \in AnyPkg /\ list'[i].alt = (list'[i].pkg \in medium)
    BY <1>2, <1>6, <1>7, RightTyped DEF IInv
  <2>2. torn' \in BOOLEAN
    BY <1>1, <1>2 DEF TypeOK
  <2> QED BY <1>2, <1>3, <2>1, <2>2, DowngradeAssumption DEF TypeOK
<1>9. Places' /\ Phases'
  BY <1>2, <1>3, <1>6, <1>7 DEF Places, Phases
<1>10. Right(Written)' /\ Once(Written)'
  <2>1. rhelup' = rhelup /\ medium' = medium
    BY <1>2, <1>3
  <2>2. Right(Written)'
    BY <1>6, <1>7, <2>1 DEF IInv, Right
  <2>3. Once(Written)'
    BY <1>6, <1>7 DEF IInv, Once
  <2> QED BY <2>2, <2>3
<1>11. Present'
  <2> SUFFICES ASSUME ~ torn', NEW p \in rhelup
               PROVE  On(list', p)
    BY <1>2, <1>7 DEF Present
  <2>1. PICK i \in 1..Len(Written) : Written[i].pkg = p
    BY <1>1 DEF IInv, Present, On
  <2>2. ~ Written[i].alt
    BY <1>2, <2>1 DEF IInv, Right, Places
  <2>3. i \in 1..Len(list) + n
    <3> SUFFICES ASSUME i > Len(list) + n PROVE FALSE
      BY <1>4
    <3>1. i - Len(list) \in n + 1..Len(buffer) /\ i - Len(list) \in 1..Len(buffer)
          /\ Len(list) + (i - Len(list)) = i
      BY <1>4
    <3>2. buffer[i - Len(list)] = Written[i]
      BY <1>4, <3>1
    <3> QED BY <1>1, <2>2, <3>1, <3>2
  <2> QED BY <1>6, <2>1, <2>3 DEF On
<1>12. Handled' /\ Ended'
  BY <1>2 DEF Handled, Ended
<1> QED BY <1>8, <1>9, <1>10, <1>11, <1>12 DEF IInv

LEMMA StutterKeeps == IInv /\ UNCHANGED vars => IInv'
<1> SUFFICES ASSUME IInv, UNCHANGED vars PROVE IInv'
  OBVIOUS
<1> USE DEF vars, env
<1>1. /\ AnyPkg' = AnyPkg /\ Entries' = Entries /\ Members' = Members /\ Written' = Written
  BY SameEnv DEF Written
<1>2. TypeOK' /\ Places' /\ Phases'
  BY <1>1 DEF IInv, TypeOK, Places, Phases
<1>3. Right(Written)' /\ Once(Written)' /\ Present' /\ Handled' /\ Ended'
  BY <1>1 DEF IInv, Right, Once, Present, Handled, Ended, On
<1> QED BY <1>2, <1>3 DEF IInv

(* The list of the upgrade tool: a line for each file, in some order.      *)
LEMMA FirstList ==
    ASSUME Init
    PROVE  /\ repo \in Repos /\ rhelup \subseteq AnyPkg \ medium /\ medium \subseteq AnyPkg
           /\ list \in Seq(Entries) /\ Right(list) /\ Once(list)
           /\ \A p \in rhelup : On(list, p)
<1> DEFINE S == {Line(FALSE, p) : p \in rhelup}
           f == [p \in rhelup |-> Line(FALSE, p)]
           n == Cardinality(S)
<1>1. /\ repo \in Repos /\ medium \in SUBSET AnyPkg /\ rhelup \subseteq AnyPkg \ medium
      /\ list = SetToSeq(S)
  BY DEF Init, AnyPkg
<1>2. IsFiniteSet(AnyPkg)
  BY <1>1, RepoIsSeq DEF AnyPkg
<1>3. IsFiniteSet(rhelup)
  BY <1>1, <1>2, FS_Subset
<1>4. f \in Surjection(rhelup, S)
  BY DEF Surjection
<1> HIDE DEF f
<1>5. IsFiniteSet(S)
  BY <1>3, <1>4, FS_Surjection
<1> HIDE DEF S
<1>6. n \in Nat /\ ExistsBijection(1..n, S)
  BY <1>5, FS_CardinalityType
<1> HIDE DEF n
<1>7. \E s \in [1..n -> S] : IsInjective(s)
  BY <1>6 DEF ExistsBijection, Bijection, Injection
<1>8. list \in [1..n -> S] /\ IsInjective(list)
  BY <1>1, <1>7 DEF SetToSeq, n
<1>9. list \in Seq(S) /\ Len(list) = n
  BY <1>6, <1>8
<1>10. S \subseteq Entries /\ \A x \in S : x.alt = FALSE /\ x.pkg \in rhelup
  <2>1. \A p \in rhelup : /\ Line(FALSE, p) \in Entries
                         /\ Line(FALSE, p).alt = FALSE /\ Line(FALSE, p).pkg = p
    BY <1>1 DEF Line, Entries
  <2>2. \A x \in S : \E p \in rhelup : x = Line(FALSE, p)
    BY DEF S
  <2> QED BY <2>1, <2>2
<1>11. list \in Seq(Entries)
  BY <1>9, <1>10, SeqMonotonic
<1>12. Right(list)
  <2>1. \A i \in 1..Len(list) : list[i] \in S
    BY <1>8, <1>9
  <2>2. \A q \in rhelup : q \notin medium
    BY <1>1
  <2>3. \A x \in S : x.alt = FALSE /\ x.pkg \in rhelup /\ x.pkg \notin medium
    BY <1>10, <2>2
  <2>4. \A x \in S : x.alt = (x.pkg \in medium) /\ (x.alt \/ x.pkg \in rhelup)
    <3> SUFFICES ASSUME NEW x \in S PROVE x.alt = (x.pkg \in medium) /\ (x.alt \/ x.pkg \in rhelup)
      OBVIOUS
    <3>1. (x.pkg \in medium) = FALSE
      BY <2>3
    <3>2. x.alt = (x.pkg \in medium)
      BY <2>3, <3>1, Zenon
    <3> QED BY <2>3, <3>2
  <2> QED BY <2>1, <2>4 DEF Right
<1>13. Once(list)
  BY <1>8, <1>9 DEF Once, IsInjective
<1>14. \A p \in rhelup : On(list, p)
  <2>1. IsFiniteSet(1..n) /\ Cardinality(1..n) = n
    BY <1>6, FS_Interval
  <2>2. list \in Injection(1..n, S)
    BY <1>8 DEF Injection
  <2>3. list \in Surjection(1..n, S)
    BY <1>5, <2>1, <2>2, FS_Injection DEF n
  <2>4. \A p \in rhelup : Line(FALSE, p) \in S /\ Line(FALSE, p).pkg = p
    BY DEF S, Line
  <2>5. \A x \in S : \E i \in 1..n : list[i] = x
    BY <2>3 DEF Surjection
  <2> SUFFICES ASSUME NEW p \in rhelup PROVE On(list, p)
    OBVIOUS
  <2>6. PICK i \in 1..n : list[i] = Line(FALSE, p)
    BY <2>4, <2>5
  <2>7. list[i].pkg = p
    BY <2>4, <2>6
  <2> QED BY <1>9, <2>7 DEF On
<1> QED BY <1>1, <1>2, <1>11, <1>12, <1>13, <1>14

LEMMA InitHolds == Init => IInv
<1> SUFFICES ASSUME Init PROVE IInv
  OBVIOUS
<1>1. /\ repo \in Repos /\ rhelup \subseteq AnyPkg \ medium /\ medium \subseteq AnyPkg
      /\ list \in Seq(Entries) /\ Right(list) /\ Once(list)
      /\ \A p \in rhelup : On(list, p)
  BY FirstList
<1>2. /\ links = {} /\ fetched = {} /\ todo = {} /\ buffer = <<>>
      /\ step = "idle" /\ status = "none" /\ runs = 0 /\ losses = 0 /\ torn = FALSE
  BY DEF Init
<1>3. Places /\ Phases
  BY <1>1, <1>2, EmptySeq DEF Places, Phases
<1>4. Written = list
  BY <1>1, <1>2, ConcatEmptySeq DEF Written
<1>5. TypeOK
  <2>1. \A i \in 1..Len(list) : list[i].pkg \in AnyPkg /\ list[i].alt = (list[i].pkg \in medium)
    BY <1>1, <1>3, <1>4, RightTyped
  <2>2. runs \in 0..MaxRuns /\ losses \in 0..MaxLosses
    BY <1>2, DowngradeAssumption
  <2>3. fetched \subseteq AnyPkg \ medium /\ links \subseteq rhelup /\ todo \subseteq Members
    BY <1>2
  <2> QED BY <1>1, <1>2, <2>1, <2>2, <2>3 DEF TypeOK
<1>6. Present /\ Handled /\ Ended
  BY <1>1, <1>2, <1>4 DEF Present, Handled, Ended
<1> QED BY <1>1, <1>3, <1>4, <1>5, <1>6 DEF IInv

(* The invariant holds through all runs, failed, broken off or completed.  *)
THEOREM Invariance == Spec => []IInv
<1>1. IInv /\ [Next]_vars => IInv'
  BY StartKeeps, DownloadKeeps, InstallKeeps, MoveFailsKeeps, FinishKeeps, PowerLossKeeps,
     StutterKeeps DEF Next, Hook, AnyPkg
<1> QED BY <1>1, InitHolds, PTL DEF Spec

----------------------------------------------------------------------------
(* Every variable keeps its type: the paths of the list say where a        *)
(* package lies, and the links are links to something.                     *)
THEOREM TypesCorrect == Spec => []TypeOK
<1>1. IInv => TypeOK
  BY DEF IInv
<1> QED BY <1>1, Invariance, PTL

(* The directory and the list of the upgrade tool agree.                   *)
THEOREM ListIsAlwaysDirectory == Spec => []ListIsDirectory
<1>1. IInv => ListIsDirectory
  <2> SUFFICES ASSUME IInv PROVE ListIsDirectory
    OBVIOUS
  <2>1. /\ Len(list) \in Nat /\ Len(buffer) \in Nat /\ Len(Written) = Len(list) + Len(buffer)
        /\ \A i \in 1..Len(list) : i \in 1..Len(Written) /\ Written[i] = list[i]
    BY LinesWritten DEF IInv
  <2>2. step = "idle" => Written = list
    BY ConcatEmptySeq DEF IInv, Places, Phases, Written
  <2>3. PresentIsListed
    BY <2>2 DEF IInv, Present, PresentIsListed, On, Listed
  <2>4. ListedIsPresent
    BY <2>1 DEF IInv, Right, Once, ListedIsPresent
  <2> QED BY <2>3, <2>4 DEF ListIsDirectory
<1> QED BY <1>1, Invariance, PTL

(* A run that ended well has put a successor of every package with a       *)
(* broken upgrade path on the list, whatever broke off before it without   *)
(* leaving a file.                                                         *)
THEOREM AlwaysEnforced == Spec => []Enforced
<1>1. IInv => Enforced
  <2> SUFFICES ASSUME IInv, status = "done", ~ torn, NEW p \in installed, PathBroken(p)
               PROVE  \E i \in Successors(p) : Listed(repo[i])
    BY DEF Enforced
  <2>1. repo \in Repos
    BY DEF IInv, Places
  <2>2. PICK i \in Successors(p) : Candidate(p) = {repo[i]}
    BY <2>1, CandidateFromRepo DEF PathBroken
  <2>3. p.evr > repo[i].evr
    BY DEF PathBroken
  <2>4. repo[i] \in Downgraded
    BY <2>2, <2>3 DEF Downgraded
  <2>5. repo[i] \in Members
    BY <2>1, <2>4, MembersFromRepo
  <2> QED BY <2>5 DEF IInv, Ended, On, Listed
<1> QED BY <1>1, Invariance, PTL
=============================================================================
