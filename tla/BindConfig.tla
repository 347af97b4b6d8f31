----------------------------- MODULE BindConfig -----------------------------
(***************************************************************************)
(* networking/bind/configuration/check: the module that loads named.conf   *)
(* with everything it includes, looks for statements that BIND of the new  *)
(* release treats differently, and repairs the two statements about the    *)
(* runtime directory.                                                      *)
(*                                                                         *)
(* What the regular expressions of the checks find in a file is data       *)
(* (Content); which file is loaded, read, repaired and where it is         *)
(* written is the control that is modelled.                                *)
(***************************************************************************)
EXTENDS Integers, Sequences, FiniteSets

CONSTANTS
    File,       \* paths that occur in include statements, and Main
    Main,       \* CONFIG_FILE, /etc/named.conf
    EmptyZone,  \* new_ez, the zones that become built-in empty zones
    Occurs,     \* [File -> set of paths]: re.findall(path, line) finds the file in the line
    Includes,   \* the include lists a file may have, a set of sequences of files
    Texts,      \* the contents of the files, a set of functions [File -> Content]
    Readable,   \* the sets of files that open() may succeed on
    AllChanged  \* the sets of lines $VALUE_ALLCHANGED may have

Key == {"pid-file", "session-keyfile"}

\* How the check sees the value of a statement, in the text without comments:
\* the expected one, another quoted string, or a word without quotes (pid-file
\* none). A key with a comment next to it (pid-file#...) is seen by the check
\* but not found by the repair, which searches the text of the file: "glued",
\* with any value, or not the expected one if it is the first statement.
Value == {"new", "old", "bare", "glued"}

\* options: no section, a section, or one that is found only after comments
\* are removed from the text. slaves: slave zones by what the part of the zone
\* before its first closing brace shows (type and masterfile-format, the type only,
\* neither).
Content ==
    [ options  : {"none", "section", "commented"},
      stmts    : [Key -> Seq(Value)],
      tcpqueue : BOOLEAN,                       \* tcp-listen-queue 1..9
      zonestat : BOOLEAN,                       \* zone-statistics yes or no
      slaves   : SUBSET {"format", "plain", "hidden"},
      zones    : SUBSET EmptyZone,
      disabled : SUBSET EmptyZone,              \* disable-empty-zone
      ezoff    : BOOLEAN ]                      \* empty-zones-enable no

ASSUME FilesAssumption == Main \in File
ASSUME InputsAssumption ==
    /\ Includes \subseteq Seq(File)
    /\ \A t \in Texts : DOMAIN t = File
    /\ \A t \in Texts, f \in File :
          /\ DOMAIN t[f].stmts = Key
          /\ \A k \in Key : t[f].stmts[k] \in Seq(Value)
    /\ Readable \subseteq SUBSET File

PASS == 1
INFORMATIONAL == 2
FIXED == 3
FAIL == 4
ERROR == 5

VARIABLES
    root,       \* geteuid() = 0
    include,    \* what each file includes, in order
    text,       \* the contents of the files
    readable,   \* the files open() succeeds on
    changed,    \* the lines of VALUE_ALLCHANGED
    files,      \* FILES_TO_CHECK
    pc,         \* what main() does next
    idx, pos,   \* loop counters: file of FILES_TO_CHECK, include or check
    result,     \* gl_result
    fixed,      \* FIXED_CONFIGS: path -> statements of the options section
    out,        \* the files written to cleanconf and dirtyconf
    exit        \* how the script ended

env == <<root, include, text, readable, changed>>
vars == <<env, files, pc, idx, pos, result, fixed, out, exit>>

Loaded == {files[i] : i \in 1..Len(files)}

Init ==
    /\ root \in BOOLEAN
    /\ include \in [File -> Includes]
    /\ text \in Texts
    /\ readable \in Readable
    /\ changed \in AllChanged
    /\ files = <<>>
    /\ pc = "load" /\ idx = 1 /\ pos = 1
    /\ result = PASS
    /\ fixed = <<>>
    /\ out = [clean |-> {}, dirty |-> {}]
    /\ exit = "none"

(***************************************************************************)
(* Loading.                                                                *)
(***************************************************************************)
Exit(status) == pc' = "done" /\ exit' = status

\* check_user and load_main_config.
LoadMain ==
    /\ pc = "load"
    /\ IF root /\ Main \in readable
         THEN files' = <<Main>> /\ pc' = "include" /\ UNCHANGED exit
         ELSE Exit("error") /\ UNCHANGED files
    /\ UNCHANGED <<env, idx, pos, result, fixed, out>>

\* One include statement of the file load_included_files has reached.
\* A file that is loaded is not loaded again. 
LoadInclude ==
    /\ pc = "include" /\ idx \in 1..Len(files)
    /\ pos \in 1..Len(include[files[idx]])
    /\ LET f == include[files[idx]][pos]
       IN  \/ f \in Loaded /\ pos' = pos + 1 /\ UNCHANGED <<files, pc, exit>>
           \/ /\ f \notin Loaded /\ f \in readable
              /\ files' = Append(files, f) /\ pos' = pos + 1
              /\ UNCHANGED <<pc, exit>>
           \/ f \notin Loaded /\ f \notin readable /\ Exit("error") /\ UNCHANGED <<files, pos>>
    /\ UNCHANGED <<env, idx, result, fixed, out>>

\* Fault: the loop runs over the list as it was when it began.
NextFileSnapshot ==
    /\ pc = "include" /\ idx \in 1..Len(files)
    /\ pos > Len(include[files[idx]])
    /\ idx' = Len(files) + 1 /\ pos' = 1
    /\ UNCHANGED <<env, files, pc, result, fixed, out, exit>>

\* Fault: the loop goes back to a file that is included again.
NextFileAgain ==
    /\ pc = "include" /\ idx \in 1..Len(files)
    /\ pos > Len(include[files[idx]])
    /\ idx' = IF files[1] \in {include[files[idx]][i] : i \in 1..Len(include[files[idx]])} THEN 1 ELSE idx + 1
    /\ pos' = 1
    /\ UNCHANGED <<env, files, pc, result, fixed, out, exit>>

\* The next file of the list, which LoadInclude may have made longer.
NextFile ==
    /\ pc = "include" /\ idx \in 1..Len(files)
    /\ pos > Len(include[files[idx]])
    /\ idx' = idx + 1 /\ pos' = 1
    /\ UNCHANGED <<env, files, pc, result, fixed, out, exit>>

\* is_config_changed: a path is searched as a pattern in the whole list.
ConfigChanged == \E f \in Loaded : Occurs[f] \cap changed # {}

CheckChanged ==
    /\ pc = "include" /\ idx > Len(files)
    /\ IF ConfigChanged
         THEN pc' = "checks" /\ idx' = 1 /\ pos' = 1 /\ UNCHANGED exit
         ELSE Exit("pass") /\ UNCHANGED <<idx, pos>>
    /\ UNCHANGED <<env, files, result, fixed, out>>

(***************************************************************************)
(* Checks.                                                                 *)
(***************************************************************************)
check_tcp_listen_queue(f) == IF text[f].tcpqueue THEN INFORMATIONAL ELSE PASS
check_zone_statistics(f) == IF text[f].zonestat THEN INFORMATIONAL ELSE PASS
check_masterfile_format(f) == IF "plain" \in text[f].slaves THEN FAIL ELSE PASS

RunCheck(c, f) ==
    CASE c = 1 -> check_tcp_listen_queue(f)
      [] c = 2 -> check_zone_statistics(f)
      [] c = 3 -> check_masterfile_format(f)

Worse(r, s) == IF s > r THEN s ELSE r

\* run_checks: check number pos on file number idx.
FileCheck ==
    /\ pc = "checks" /\ pos \in 1..3 /\ idx \in 1..Len(files)
    /\ result' = Worse(result, RunCheck(pos, files[idx]))
    /\ idx' = idx + 1
    /\ UNCHANGED <<env, files, pc, pos, fixed, out, exit>>

NextCheck ==
    /\ pc = "checks" /\ pos \in 1..3 /\ idx > Len(files)
    /\ idx' = 1 /\ pos' = pos + 1
    /\ UNCHANGED <<env, files, pc, result, fixed, out, exit>>

\* Fault: a zone is looked up in the file that defines it only.
ConflictsPerFile(fs) ==
    UNION {IF text[f].ezoff THEN {} ELSE text[f].zones \ text[f].disabled : f \in fs}

\* check_empty_zones_complex searches the concatenation of all files.
Conflicts(fs) ==
    LET all(field) == UNION {text[f][field] : f \in fs}
    IN  IF \E f \in fs : text[f].ezoff THEN {} ELSE all("zones") \ all("disabled")

EmptyZones ==
    /\ pc = "checks" /\ pos = 4
    /\ result' = Worse(result, IF Conflicts(Loaded) = {} THEN PASS ELSE FAIL)
    /\ pos' = 5
    /\ UNCHANGED <<env, files, pc, idx, fixed, out, exit>>

(***************************************************************************)
(* The statements about the runtime directory.                             *)
(***************************************************************************)
\* The files with an options section that the search finds, in loading order;
\* the first is config_file.
OptionsAt == {i \in 1..Len(files) : text[files[i]].options # "none"}
ConfigFile == files[CHOOSE i \in OptionsAt : \A j \in OptionsAt : i <= j]

\* find_key takes the first statement of the text without comments.
AsExpected(s) == s # <<>> /\ Head(s) = "new"

\* The statement change_val finds in the text of the file, if there is one;
\* find_val_bounds_of_key fails without a quoted value.
Found(s) == {i \in 1..Len(s) : s[i] # "glued" /\ \A j \in 1..i - 1 : s[j] = "glued"}
Quoted(s) == {i \in Found(s) : s[i] # "bare"}

\* change_val, or add_keyval at the end of the section.
Repaired(s) ==
    IF Quoted(s) # {} THEN [i \in DOMAIN s |-> IF i \in Quoted(s) THEN "new" ELSE s[i]]
                      ELSE Append(s, "new")

\* No repair replaces what the check reads first.
Stays(s) == s # <<>> /\ Head(s) \in {"bare", "glued"}

\* Fault: every repair starts from the file.
CurrentOnDisk(f) == text[f].stmts

\* The text fix_statement starts from: the one repaired before, or the file.
Current(f) == IF f \in DOMAIN fixed THEN fixed[f] ELSE text[f].stmts

\* The keys check_default_runtime_dir hands to fix_statement, which cannot
\* find a section that a comment hides.
Wrong(f) == {k \in Key : ~ AsExpected(text[f].stmts[k])}
Fixable(f) == text[f].options # "commented"

\* The statement number pos - 4 of ["pid-file", "session-keyfile"].
KeyAt(p) == IF p = 5 THEN "pid-file" ELSE "session-keyfile"

FixStatement(f, k) ==
    IF k \in Wrong(f) /\ Fixable(f)
      THEN fixed' = [g \in DOMAIN fixed \cup {f} |->
                        IF g = f THEN [Current(f) EXCEPT ![k] = Repaired(@)] ELSE fixed[g]]
      ELSE UNCHANGED fixed

StatementResult(f, k) ==
    IF k \notin Wrong(f) THEN PASS ELSE IF Fixable(f) THEN FIXED ELSE FAIL

RuntimeDir ==
    /\ pc = "checks" /\ pos \in {5, 6} /\ OptionsAt # {}
    /\ FixStatement(ConfigFile, KeyAt(pos))
    /\ result' = Worse(result, StatementResult(ConfigFile, KeyAt(pos)))
    /\ pos' = pos + 1
    /\ pc' = IF pos = 6 THEN "write" ELSE pc
    /\ UNCHANGED <<env, files, idx, out, exit>>

NoOptions ==
    /\ pc = "checks" /\ pos = 5 /\ OptionsAt = {}
    /\ result' = ERROR
    /\ pc' = "write"
    /\ UNCHANGED <<env, files, idx, pos, fixed, out, exit>>

(***************************************************************************)
(* Output.                                                                 *)
(***************************************************************************)
OutputDir(r) == IF r > FIXED THEN "dirty" ELSE "clean"

\* Fault: a branch of the chain is missing.
ReturnWithCodeDefault(r) == IF r = INFORMATIONAL THEN "not_applicable" ELSE "pass"

ReturnWithCode(r) ==
    CASE r = FAIL -> "fail"
      [] r = FIXED -> "fixed"
      [] r = PASS -> "pass"
      [] r = INFORMATIONAL -> "informational"
      [] OTHER -> "error"

WriteFixed ==
    /\ pc = "write"
    /\ out' = [out EXCEPT ![OutputDir(result)] = @ \cup DOMAIN fixed]
    /\ Exit(ReturnWithCode(result))
    /\ UNCHANGED <<env, files, idx, pos, result, fixed>>

Next ==
    \/ LoadMain \/ LoadInclude \/ NextFile \/ CheckChanged
    \/ FileCheck \/ NextCheck \/ EmptyZones
    \/ RuntimeDir \/ NoOptions \/ WriteFixed

Spec == Init /\ [][Next]_vars /\ WF_vars(Next)

(***************************************************************************)
(* Properties.                                                             *)
(***************************************************************************)
\* Types, and the order in which the variables get their values.
TypeOK ==
    /\ root \in BOOLEAN
    /\ include \in [File -> Includes]
    /\ text \in Texts
    /\ readable \in Readable
    /\ changed \in AllChanged
    /\ files \in Seq(File)
    /\ pc \in {"load", "include", "checks", "write", "done"}
    /\ idx \in Nat \ {0} /\ pos \in Nat \ {0}
    /\ result \in PASS..ERROR
    /\ DOMAIN fixed \subseteq Loaded
    /\ \A f \in DOMAIN fixed : DOMAIN fixed[f] = Key /\ \A k \in Key : fixed[f][k] \in Seq(Value)
    /\ out \in [{"clean", "dirty"} -> SUBSET Loaded]
    /\ exit \in {"none", "pass", "informational", "fixed", "fail", "error"}
    /\ (exit = "none") = (pc # "done")

Closed(S) == \A f \in S : \A i \in 1..Len(include[f]) : include[f][i] \in S

\* What named itself would read: the smallest set with Main that is closed.
Reachable == {f \in File : \A S \in SUBSET File : Main \in S /\ Closed(S) => f \in S}

\* Once loading is over, FILES_TO_CHECK has every file named would read,
\* whatever the include statements look like (cycles, a file included
\* twice, by itself), no other file, and none twice.
LoadedExactly ==
    /\ \A i, j \in 1..Len(files) : files[i] = files[j] => i = j
    /\ Loaded \subseteq Reachable
    /\ pc \in {"checks", "write"} => Loaded = Reachable

\* The problems of the configuration as a whole that a user must review.
MustReview ==
    \/ \E f \in Reachable : "plain" \in text[f].slaves
    \/ \E f \in Reachable : \E z \in text[f].zones :
          \A g \in Reachable : z \notin text[g].disabled /\ ~ text[g].ezoff

\* The verdict is right wherever in the include tree a problem is: it is a
\* failure when something must be reviewed, and "fixed" only if some file was
\* repaired and nothing needs review (how complete the repairs are is the
\* subject of CleanIsComplete).
Verdict ==
    pc = "done" /\ root /\ Reachable \subseteq readable
        /\ (\E f \in Reachable : Occurs[f] \cap changed # {}) =>
      /\ exit = "error" <=> \A f \in Reachable : text[f].options = "none"
      /\ MustReview => exit \in {"fail", "error"}
      /\ exit = "fail" => MustReview \/ \E f \in Reachable : ~ Fixable(f) /\ Wrong(f) # {}
      /\ exit = "fixed" => DOMAIN fixed # {} /\ ~ MustReview
      /\ exit = "informational" => \E f \in Reachable : text[f].tcpqueue \/ text[f].zonestat
      /\ exit = "pass" =>
            ~ MustReview /\ \A f \in Reachable : ~ text[f].tcpqueue /\ ~ text[f].zonestat

\* What is put in cleanconf is applied to the new system without review: it
\* is there only when nothing needs one, and the check, run again on it, would
\* find both statements right, unless the file had, in the first place, one
\* that no repair replaces: a value without quotes, or a key with a comment next
\* to it. These stay before the statement that is added (see OneStatementEach).
CleanIsComplete ==
    out.clean # {} =>
      /\ exit = "fixed" /\ ~ MustReview
      /\ \A f \in out.clean, k \in Key :
            \/ AsExpected(fixed[f][k])
            \/ Stays(text[f].stmts[k])

\* Loading and checking come to an end, cycles of include statements included.
Terminates == <>(pc = "done")

\* The log says of each wrong statement that it "has been set to the expected
\* value": a repaired file has one statement for a key that had at most one.
OneStatementEach ==
    \A f \in DOMAIN fixed : \A k \in Wrong(f) :
        pc = "done" /\ Len(text[f].stmts[k]) <= 1 => fixed[f][k] = <<"new">>
=============================================================================
