# Formal models of the Preupgrade Assistant modules (RHEL 6 to 7)

The repository holds the *modules* (contents) that the Preupgrade Assistant runs
on a Red Hat Enterprise Linux 6 system before an in-place upgrade to version 7:
one directory per module with a `check` script, its `module.ini` and
`solution.txt`, and for some modules scripts that run before or after the
upgrade. This directory holds TLA+ models of the modules that keep state or act on the
system, the TLC configurations that check them, and TLAPS proofs.

## 1. Inventory

How the parts interact. `preupg` (outside this repository) runs `init` once and
then every `check`, one after the other; it sources `common.sh`, which gives the
scripts the lists of installed packages (`$VALUE_RPM_QA`,
`$VALUE_RPM_RHSIGNED`), of changed files (`$VALUE_CONFIGCHANGED`), the tables in
`$COMMON_DIR` and the exit and logging functions. Scripts communicate only by
files: lists in `$KICKSTART_DIR`, cleaned or original configuration files below
`$VALUE_TMP_PREUPGRADE`, scripts in `postupgrade.d` (run at the first boot of
the new system, in no order the modules control), `preupgrade-scripts` (run by
redhat-upgrade-tool before the upgrade) and `noauto_postupgrade.d` (run by the
administrator). Nothing is shared in memory, so what is hard is *sequence*: a run that is
killed and repeated over its old outputs, post-upgrade scripts broken off by a
power loss and run again, one module's file read by another, tables that
split the packages between modules.

| Component | State | Operations | What makes it correct |
|---|---|---|---|
| Package assessment (`packages/{Replaced,Obsoleted,Removed}Packages`, `notbase-channel`) | lists for kickstart, solutions, risks, generated plans, results | the four checks: input tests, loop over packages, sort, advice, exit | no listed package is lost between the four; lists describe this run; results, advice and lists agree |
| Post-upgrade package scripts (`fixreplaced.sh` generated by `ReplacedPackages/check`, `RemovedPackages/postupgrade.d/postupgrade_cleanup.sh`) | RPM database, `.preupsave` copies, mounted source | save, erase, install with retry; removal of own, debuginfo and (with consent) old packages | replacements get settled; no modified file is lost; nothing unannounced is erased |
| Service control (`system/initscripts/control`) | `enabled.log`, `disabled.log`, unit states | sorting of services; disable, then enable units by the preset file | each service is in one list or announced; units end as the lists say |
| Package downgrades (`packages/pkgdowngrades`) | `package.list`, downloaded files | hook before the upgrade: link, download, move, append | every downgraded package ends in the list, once |
| Common data (`init`) | symbolic links `default*` | remove and create links | links name the tables of variant and architecture, also on the second run |
| Installation helper (`install_rpmlist.sh`) | RPM database | reads lists, installs | exit 0 means all installed |
| BIND (`networking/bind`) | files to load, loaded buffers, fixed files, result | include worklist, statement checks and fixes, writing of dirtyconf or cleanconf | terminates on include cycles; every fixed file is written; result is the worst check |
| tomcat (`services/tomcat/post-tomcat.py`) | parsed trees, configuration files with their copies, directories of the web applications, RPM database | parse, correct, back up and rewrite, install, move applications and configuration, erase the old packages | configuration and applications are complete somewhere at any time; what arrives is corrected once and otherwise unchanged |
| vendored ElementTree (`services/tomcat/xml`) | elements, builder stack and text buffer, listed comments, prefixes | callbacks of the parser, collection of namespaces, serializer | assertions of the builder hold; a rewritten document says the same |
| PostgreSQL, MySQL, httpd, OpenSSH, Java | configuration files, saved state | assessment; migration after the upgrade | what was saved is restored once |
| Network interfaces, NFS v2, iptables, bacula, UEFI boot order | configuration files | edit or rename after the upgrade | no name is assigned twice; edits are repeatable |
| Version comparison (`system/SystemVersion`), ids (`usrmgmt`), sonames, drivers | none between steps | pure comparison with tables | agrees with a reference definition |
| Reports (`desktop`, `others`, `php`, `dovecot`, `squid`, ...) | none | one test, one message | - |
| Packaging | - | - | not modelled |

`PROJECT.json` lists every component with its sources and state of modelling, and
under `hazards` what is hard to test, each at its line.

## 2. Plan

In order of importance, with the modules that exist marked *done*:

1. `PkgTables` (tables and RPM queries), `PkgAssessment` (the four checks) and
   `PkgAssessment_proofs` - *done*;
2. `PkgPost` (both post-upgrade scripts), `ReplacementContract` (what they promise) and
   `PkgPost_proofs` - *done*;
3. `ServicesControl` and `ServicesControl_proofs` - *done*;
4. `BindConfig` (include tree, checks, repairs, output) with `BindConfig_proofs`, and `BindText` (the
   text functions the repairs are made of) with `BindText_proofs` - *done*;
5. `EnforceDowngraded` (the hook and its restart) and `EnforceDowngraded_proofs` - *done*;
6. `XmlText`, `XmlTree` (reading and writing of a document) with `XmlTree_proofs`, `TomcatFix`
   (corrections of a parsed file) and `Tomcat` (the script over the file system) with
   `Tomcat_proofs` - *done*;
7. `CommonInit` (links; the second run of `init`), `InstallRpmList`, and `PkgLifecycle`,
   which composes assessment, upgrade and post-upgrade; abstract specification: every package
   installed before the upgrade is kept, replaced, announced or reported;
8. `RpmVersion` as a recursive function against a reference order; httpd,
   OpenSSH, network interfaces and Java post-upgrade scripts;
9. proofs: every safety property of the modules above but those of section 6, "Only
   model-checked", is proved; `PkgLifecycle` would get its refinement proved.

## 3. The modules

### PkgTables and PkgAssessment

`PkgTables` declares the package tables as constants; that a new package may have the name of an old one
(`yum-presto|yum`) is part of them. `Change[p]` says what the
`default*` files of `$COMMON_DIR` say of package `p`: kept, replaced, obsoleted,
removed or unlisted, the RHEL 7 channel encoded in the name of the file, and
the new packages. The tables are generated data outside the repository, hence parameters.
`NotBase`, `Ignored`, `RequiredBy` and `RepoId` are the helpers the four scripts
share (`debug` channels are ignored; `RequiredBy` is `rpm -q --whatrequires`
filtered by `! is_dist_native`). `TablesAssumption` asks of the tables that an old name among the new packages is one
that RHEL 7 has as well: in the tables shipped beside `ReplacedPackages/check` no name stands in both columns. `NewPkg` are only
the names RHEL 6 does not have.

`PkgAssessment` has, for each of the four scripts, the actions *Abort* (an input
file is missing: exit ERROR before anything is written), *Begin* (the `rm -f`
and `touch` of the lists and the reset of `solution.txt`), one action per turn of
the package loop, and *End* (sorting with header, advice, generated
post-upgrade script, exit status). `loc` holds the shell variables of
the running script. `Kill` ends a run anywhere; `Rerun` starts preupg again, on a system
with one package more or less, over the files the last run left. `kick` maps
every list in `$KICKSTART_DIR` to its set of lines (`Line` has the four columns).
The order of the four checks is free. The names of the channels for the solutions come from `default_nreponames`
(`"nreponames"` among the inputs): `Subscriptions` is empty for a script that cannot read it. `sort | uniq` is what makes a set of lines exact;
the wording of messages is left out.

### PkgPost and ReplacementContract

`PkgPost` is the system after the upgrade: `el6` and `el7` are the installed
packages by release, `modified` the packages with a modified file at its
original path, `saved` those with a `.preupsave` copy, `source` the state of the
installation medium. `Multilib` are the names installed for two architectures, which `rpm -e NAME` refuses to
erase; neither script looks at its status (`Erase`). An old package that is one of the new ones is updated by `yum` (`Yum`). `Init` takes any result the upgrade tool can leave
(`Upgraded`) and the lists the assessment wrote (`Assessed`). The loops of
`fixreplaced.sh` are `FixSave1`, `FixErase1`, `FixInstall` (first loop, with
`prep_source_right` and the yum retry inside the step), `FixSave2` and `FixErase2` (second loop);
a power loss (`Crash`) may come between any two of them. `told` are
the packages for which the script printed that they must be installed manually.
`CleanupStart`, `CleanupDebuginfo`, `CleanupGates` and `CleanupErase` are the
parts of `postupgrade_cleanup.sh`; `MayClean` are its tests in the order of the
code (the `[postupgrade]` test is a character class and does not
restrict anything). `LooksSigned` is its `grep $NAME`: `InName[p]` are the
packages in whose name the name `p` occurs.

`ReplacementContract` is what a user is promised for the replaced packages:
settled stays settled, unless the user has asked for the clean up and the replacement is an old package (`OldNamed`); a
modified file in place becomes a stored one, or goes
with the consent of the user; nothing settled has an unstored file. `PkgPost` implements
it under the mapping `RC`.

### ServicesControl

`check` is three loops over services (`OnService`, `XinetdService`,
`OffService`); `services.py` parses the preset file, then disables and then
enables one unit per step. `FindUnits` is `determine_services`: a service
without a unit of its own stands for every directory entry that starts with its name. A
power loss restarts `services.py`. Without the preset file of the module or the matrix the check exits (`CheckAbort`); a list
that is not written in this run leaves the copy of an earlier one to `services.py` (`Copy`, `OldLists`). `Also[u]` are the units that
`systemctl` enables and disables along with `u`; the properties reckon with all of them. Messages on renamed and modified services are left out.

### BindConfig

One instance is one run of `networking/bind/configuration/check`. `files` is
`FILES_TO_CHECK`, which `load_included_files` extends while its loop runs over it: `idx`
and `pos` are the two loop counters, `LoadInclude` one include statement, `NextFile` the
step of the outer loop. `FileCheck` and `NextCheck` are the loops of `run_checks`, then
`EmptyZones` and, once per key, `RuntimeDir` follow. `fixed` is `FIXED_CONFIGS`, `result`
the worst check result, `out` what `write_fixed_configs_to_disk` puts in `cleanconf`
(applied to the new system without review) and `dirtyconf`.

What regular expressions find is data: `text[f]` is a record of the things the checks
look for. The statements of a key are a sequence of *new* (the expected value), *old*
(another one in quotes), *bare* (without quotes) and *glued* (a comment touches the key, as in `pid-file#...`: the check, which
searches the text without comments, sees the statement, and the repair, which searches the file, does not); `Found` and `Quoted`
are what the repair finds. `Stays` names the files in which no repair replaces what the check reads first: the
first statement is bare or glued. A value that touches its key (`pid-file"x"`), and a comment inside the word, are not modelled. `options` says whether there is a
section, none, or one that is only found after comments are removed, which the repairs, working on
the file itself, then do not find. `slaves` has the slave zones by what the part up to
their first closing brace shows, as the pattern of `check_masterfile_format` ends there: a *hidden*
one has its type after an inner block and is not reported. `Occurs` is `re.findall(path, ...)`,
which also finds a path within a longer one.

### BindText

The functions `BindConfig` takes as data where they are written by hand: `is_comment_start`,
`find_end_of_comment`, `find_closing_char`, `find_next_token`, `find_key`,
`find_val_bounds_of_key`, `remove_comments`, `change_val`, `add_keyval`. A text is a sequence of
characters, sections and keys are one character long (nothing depends on the length of a word), positions start
at 1, and 0 stands for -1. `Closer` and `OpeningChar` have all brackets the code knows. `RepairRecognised` is
about texts in which no comment touches the key (`KeyApart`) and whose section ends its last statement (`Ended`, which `named` requires). The state machine only writes texts, piece by piece. The loops and the recursion of the
code are functions over positions (`Close`, `TokenFrom`, the functions inside `RemoveComments` and `FindKey`), each of
which takes its value from one further on; so the prover can be asked whether they are defined at all.

### EnforceDowngraded

One start of the hook is `Start` (configuration, `prepare_destdir`), `Download`, then per member
of the transaction `Install` or, if the move raises an exception, `MoveFails`, and `Finish`. `links` and
`fetched` are the two kinds of files in the download directory, `rhelup` and `list` the
directory and the `package.list` of redhat-upgrade-tool, `buffer` the lines of the open
file that are not on the disk. `Candidate` is the chain of conditions of
`get_downgraded_packages`, which compares an installed package with the first one of its name and
architecture (`repo_pkgs[0]`) in the order of the repository. `Successors` are the packages that take the place of
an installed one, of its architecture or another, and `PathBroken` says that all of them are lower: what the docstring calls
"actually downgraded". Counting and downloading may raise an exception, which ends the hook (`Download`). `torn` records that a file was left without its line
by a power loss, or by a move between file systems that broke off: the next run
takes it for one of the upgrade tool. What redhat-upgrade-tool does with its directory between
two starts of the hook is not modelled.

### XmlText and XmlTree

`XmlTree` is one document on its way through `services/tomcat/xml`: expat reads it token by token
(`doc`, with the open elements in `open`), each callback is an action, `EndDocument` is the end of
`NoisyElementTree.parse`, and the actions from `WriteBegin` to `WriteDone` are its `write` with the
arguments of `post-tomcat.py` (method `xml`, an encoding, the declaration). Elements are numbered in the order of
their creation, so that `elems`, `stack`, `last`, `tail` and `data` are the attributes of `TreeBuilder`.
`Flushed` and `FlushAsserts` are `_flush`. `work` holds what the two loops and the recursion of the
serializer have still to do: the recursive calls of `_serialize_xml` are a list of elements to start or
to end, and `_namespaces` goes on with the children of the element it comes to. `Iter` is the set of the elements of
`Element.iter`, and `Outside` the list comprehension that picks the comments kept aside. The order of a dictionary is free (`NextElement` takes the attributes in any order, `AddName` one name after the other).
Expat itself is external: it hands on well-formed documents only, and stops with `RaiseError` at any point.

`XmlText` has the escaping as sequences of `replace`, and, external, what a parser makes of the result.
A text is a sequence of characters in which the rest of a reference (`lt;`) is one character. A parser makes a newline of a
carriage return, also of one with a newline behind it, and a space in an attribute; `_escape_cdata` and `_escape_attrib` write carriage
returns as they are. `LineEnds` and `Spaced` are what becomes of them in a document.

### TomcatFix and Tomcat

`TomcatFix` has the five `check_*` functions with `verbose` off as operators on an element (their loops visit
the elements one by one and look at no other), `Corrected`, what the calls make of a tree, and
`Migrated`, what they are to achieve: named attributes are gone or renamed, and everything else is as the user wrote it.
Nothing is asked of the name of the JSP parameter and of the roles of users (`JspName`, `UserRoles`), where the code is at odds with its own
messages (section 7). Attributes with a namespace and elements that none of
the functions looks at would pass through all of them alike and are left out of the instance.

`Tomcat` is the script over the machine: `disk[place][file]` is the content of a configuration file,
of its `.rpmsave` and of its `.orig_backup`, below `/etc/tomcat6` and `/etc/tomcat`; `apps` the three directories of web
applications. `Torn` is what a file holds between the beginning and the end of a copy or a write.
`trailing` marks a document with a comment behind its root, of which `XmlTree` shows that the
functions see no element of it and that writing it raises or leaves comments only. `PowerLoss` comes
at any step and the script starts again over what is left. `Install`, `CopyApps`, `DeleteApps`, `AppsMoved`, `CopyConfig`, `RemoveConfig`
are what `yum`, `mv`, `cp` and `rm` do; `rm` may leave files, as its status is not looked at (`RemoveDone`). Assumed of them and of the system: what is written reaches the disk in the
order of the calls; a directory of configuration files exists as long as a file is in it; installing `tomcat` does not itself
remove `tomcat6`; the package that owns the configuration stands for all old ones. The lists of XML files in web applications
are always empty, as `get_file_list` returns directories only (`post-tomcat.py:34-39`).

## 4. Runs

| Run | Shows | Bounds and why they are enough |
|---|---|---|
| `pkg_assess` | types; no package lost; results, advice, subscriptions and generated script agree with the lists; lists describe the current run | one package of each kind and channel, one foreign package requiring four of them; each check treats packages one by one, so one per kind and channel meets every branch; all input files, or some missing in three ways, the names of the channels among them; two runs suffice for anything left over, and preupg is run again on systems with up to three of the packages (`RerunCandidates`), which keep every script that removes its lists at work |
| `pkg_post` | settlement, kept files, announced erasures, refinement | five packages: two replaced without their Provides, of which one is installed for two architectures and one is replaced by a new and by an old package; one of the Optional channel; that old package; a debuginfo one; one power loss at any step |
| `pkg_post_unsigned` | an unsigned package is erased (section 7) | three packages |
| `services` | lists complete; enabled services survive, disabled ones stay off; others untouched | a service with unit, one without whose name is a prefix of another's unit and of a socket, that other one, an xinetd one; the socket goes along with the first unit; a list left by an earlier run or none; one power loss |
| `bind_config` | loading is exact, verdict right, `cleanconf` complete, the module ends | three files with every combination of four include lists (none, one, one twice, back to `named.conf`), which has all cycles of length up to two and self-inclusion; a problem of each kind in each place, the comment that touches a key among them; files missing, not root, not changed |
| `bind_statements` | a second statement beside one without quotes (section 7) | as above |
| `bind_text` | the token search advances, checks and repairs mean the same section and value | all texts of four pieces (`MaxPieces`) after three beginnings; section, key, value, end and one comment fit; the pieces have keys apart from what follows and joined to it, brackets and tabs |
| `downgrades` | of every installed package with a broken upgrade path a successor gets listed, directory and list agree, the hook ends | three starts (`MaxRuns`), one power loss (`MaxLosses`), packages that keep, change and lose their architecture, a dependency, two lower versions of one package, a lower and a higher one, a medium with any of them |
| `xml_tree` | assertions of the builder, prefixes, documents are kept, only a comment behind the root makes `write` raise | all documents of up to seven parts (`MaxTokens`): an element in an element with text, comment and text, or three elements; names without namespace, with two unknown ones, a known one and that of `xml`; attributes with everything that is escaped; carriage returns in texts, also in front of a newline, and in attributes |
| `xml_trailing` | a comment behind the root (section 7) | four parts |
| `tomcat` | files and applications kept, correction in place | two files, of which every construct that is corrected occurs in one; each may be absent, and one has a trailing comment or makes the script raise; two power losses (`MaxCrashes`), before or after the erasure of tomcat6 |
| `tomcat_roles` | users keep the old roles (section 7) | no power loss |

`MaxRuns`, `RerunCandidates`, `MaxCrashes`, `MaxLosses`, `MaxPieces` and `MaxTokens` are the only
bounds on behaviours; all are guards of the environment's actions, not of the modelled code.

## 5. Fairness

Termination is checked of two programs only, those in which it is a question: the loop of BIND over a list that it
extends (`Terminates`) and the hook with its retries and restarts (`HookEnds`). Both are sequential: a script that has started
continues unless it is killed or the machine goes down. This is weak fairness of its steps (`WF_vars(Next)` for `BindConfig`, whose
only process is the script, `WF_vars(Hook)` for `EnforceDowngraded`). Restarts and power losses are never fair. The loops of the other
scripts run over lists that are fixed when they start; their specifications state no fairness.

## 6. Proofs

Each proof module extends the module it is about and proves its theorems for all constants that satisfy
the assumptions named in that module; TLC evaluates the assumptions for the instance of every run. All
but `BindText_proofs`, which is about operators, have the same plan: an invariant `IInv` (checked by TLC first), a lemma that the initial states satisfy it, a lemma for
each action that the action keeps it, and the properties of the runs as consequences.

### PkgAssessment_proofs

For all tables, channels and systems (`TablesAssumption`, `AssessmentAssumption`) and any number of kills and reruns:
`TypesCorrect`, `NoPackageEverLost`, `ListsAlwaysDescribeThisRun`, `ResultAlwaysMatchesLists`,
`AdviceAlwaysFitsLists` (what it says of subscriptions, where the names of the channels can be read: `CanName`) and
`FixPlanAlwaysMatchesLists`.

None of these is inductive, as they speak of a check that has exited. For each check, the invariant says what its
lists (`ReplacedLists`, `ObsoletedLists`, `NotBaseLists`) and its shell variables (`ReplacedLoop`, ...) are as functions of
the packages read so far (`SeenReplaced` and the others: those to be reported without `todo`), and what holds of
them after the exit. `RemovedPackages` does not empty its lists, so that of them only one inclusion holds
(`RemovedExit`). `Kill` makes the invariant about the broken off run vacuous: a list counts only while its check is active
or finished in this run (`Current`). The last channel read decides over the text of `notbase-channel`; `NotBaseLoops` needs for
that that its loops come in their order (`LastTells`). `StepOf` and `Leaves` are the frame: a step of one check changes nothing of
the others. The names `summary` and `unsupported`, which stand for risks without a package, are not names of packages.

### PkgPost_proofs

For `TablesAssumption` and `PostAssumption`:

* `Invariance`: `IInv` holds in every state. `FixSettles` is not inductive: in
  the middle of the first loop one must know that all entries behind the loop are
  treated (`LoopSettled`), that the old package is gone when yum is called, unless `rpm` refused to erase its
  name (`OldGone`), and that `cur` is empty elsewhere (`CurIdle`). `StoredFirst` and `Announced` carry the
  two action properties; `FromTables` says that the scripts work on the lists of the tables.
* `TypesCorrect`, `FixSettlesAlways`, `ModifiedFilesAlwaysKept`, `ErasuresAlwaysAnnounced`: the
  properties of the run `pkg_post`.
* `ContractRefined`: the refinement of `ReplacementContract`.

The assumption that carries the argument is that a replacement is not itself replaced, obsoleted or removed
(`TablesAssumption`, `Replacements`, `ReusedAreKept`); a replacement with an old name is allowed, and it is why `Settled` is not
simply monotone: the cleanup the user asked for may erase such a package, and only that unsettles an entry
(`ReplacementStays`, `SettledStays`). There is one lemma on what every step preserves (`Frame`, `StepFrame`), one on what a step can erase (`ErasedBy`), and one step per
action below.

### ServicesControl_proofs

For all services and units, whatever names begin with whatever others, whatever units go along with others and whatever lists
an earlier run left (`ServicesAssumption`), and any number of power losses:
`TypesCorrect`, `EveryServiceAlwaysAccounted`, `EnabledAlwaysSurvives`, `DisabledAlwaysStaysOff`, `OthersAlwaysUntouched`.

The invariant says what each loop has still to read (`Scope`), that what it has read is on its list or announced
(`Accounted`), that no list has a service of the other state (`Apart`), that the lists are the
ones `services.py` works on (`Copied`), and what its two loops have made of the units they have handled (`Disabled`, `Enabled`). A
restart goes through both loops again; `Enabled` says nothing before the second one has come to a unit, as the first one
may have disabled it.

### BindConfig_proofs

For all sets of files, include graphs and contents (`FilesAssumption`, `InputsAssumption`):

* `TypesCorrect`: `TypeOK`.
* `LoadedExactlyAlways`: `LoadedExactly`, by the invariant of the loading loop: no file is in the list
  twice; every file in it is reachable; everything that the files before `idx`, and the
  first `pos - 1` statements of file `idx`, include is loaded (`Walk`). When the loop ends the list is
  closed, and a closed set with `named.conf` has all reachable files (`ClosedIsAll`).
* `CleanIsCompleteAlways`: `CleanIsComplete`, which excuses the files whose first statement no repair replaces (`Stays`, section 7).
  It needs what `result` says of the checks that
  are done (`Judged`), that `fixed` has repairs of one file only, with the keys done so far (`Repairs`), and
  that files are written in the last step (`Applied`).
* `VerdictAlwaysRight`: `Verdict`, both ways: whatever a check has seen is in the result (`Noticed`, where `Seen` says how far
  the loops have come), every value of the result has a cause in a loaded file or a repair (`Caused`), and the
  module ends early only when something stopped it (`Reported`).
* `EveryLoopEnds`, for finite sets of files: the safety half of `Terminates`. Every step moves on (`Onward`): to a later
  stage, a later file of the list, a later include statement or a later check. The list grows while it is read; that the loop still
  comes to its end is because no file is in it twice, so that it is never longer than there are files (`InBounds`).

### BindText_proofs

For texts of any length and any characters; the theorem about `Spec` assumes of its pieces only that they are
texts (`BindTextAssumption`):

* `TokensAlwaysAdvance`: `TokensAdvance`, from `PastTokenMoves` and `NextTokenMoves`. Nothing is inductive here but that the text is a
  text; the work is in the operators. A recursive function is a `CHOOSE` until one has shown that it exists:
  `Backward` says that a function takes each of its values from those behind it, `BackwardExists` that there
  is then one that satisfies its equation, by well-founded induction from the end of the text (`DownwardInduction`).
  That the search never turns back must be known *before* that: `CloseRange` and `ClosingCharCloses` say that a
  closing character lies behind the opening one and is of its kind, `CommentEnds` that a comment ends behind its
  beginning.
* `RepairStaysInSection`: for every text, what `fix_statement` returns is the text up to the opening brace, something, and the text from
  the closing brace on. `find_val_bounds_of_key` allows a value that ends at the closing brace itself
  (`c > e`, not `c >= e`); that `change_val` still leaves the brace is because a value in quotes ends with a
  quote (`ValBoundsInside`, `QuoteIsNoBrace`).

### EnforceDowngraded_proofs

For all repositories, installed packages and dependency relations closed in the repository (`DowngradeAssumption`), any number of
starts and power losses: `TypesCorrect`, `ListIsAlwaysDirectory`, `AlwaysEnforced`.

The invariant speaks of `Written`, the list with the lines still in the buffer: its lines say where the package lies (`Right`), no
file in the directory has two (`Once`), and, unless `torn`, each has one (`Present`). No member of the transaction is
forgotten: it is still to be handled, in the directory or on the list (`Handled`, `Ended`). `Enforced` follows from
`CandidateFromRepo`: the candidate of a package that has successors is one of them, so that it is lower when all of them are. Which of
several lower ones is listed is not claimed (section 7).

### XmlTree_proofs

For all sets of names, tags and texts that satisfy `XmlTreeAssumption` (expat hands strings to `handle_comment`, never `None`),
and for documents of any length (the bound `MaxTokens` may be any number):

* `NoAssertionEverFails`: `NoAssertionFails`. The invariant says that the builder's stack has the
  elements expat has open, each once and without a tail (`OnStack`), that what the next flush sets
  has not been set (`Fresh`: with `tail` set, `last` is an element that has ended and has no tail; otherwise one
  that has no text), and that there is an element once a start tag was read. There is one lemma per
  call of expat. That expat hands on well-formed documents only is the assumption.
* `PrefixesAlwaysUnique`: `PrefixesUnique`. A new prefix has the number of the namespaces recorded so far, so that every number in use is below
  it (`PrefixInv`), and no well-known prefix has a number.
* `CdataComesBack`, `AttribComesBack`: what expat decodes from an escaped text is the text, and from an escaped attribute its value with
  spaces for tabs, for all texts without a carriage return, which is not escaped (section 7). `FlattenSeq` is turned into a function on positions first (`FlattenIs`). Then the three or five calls of `replace`
  are shown to be *one* translation, character by character (`Escapes`, `EscapesNext`): this is where the ampersand must
  come first, and where no replacement may find the characters of a reference (`ReferencesApart`). Decoding undoes one such piece
  (`DecodedHead`), and the whole text by induction on its length (`ComesBack`).
* `OnlyTrailingCommentsRaise`: `RaisesForTrailing`, the second conjunct of `RoundTrip`. `RInv` says that comments have a text (`Worded`),
  that every other element but one is a child of an element (`Parented`), and that this one is at the bottom of the stack and,
  after its end tag, `last` unless a comment followed (`RootIs`). Then `Iter` of the root has every element that is no
  comment (`IterHasAll`), and what `Outside` leaves over has a text (`CommentsAside`).
* `TypeCorrect`: `TypeOK`. `Iter` is a recursive function over the tree: it exists as each child is younger than its parent
  (`Causal`, `RecursionExists`). That only elements of the tree are picked follows from `OutsideListed`,
  by induction over the list.

### Tomcat_proofs

For all documents of any size, any number of power losses, and the four files `post-tomcat.py` names
(`TomcatAssumption`: documents are no marks and no mark is a set of web applications):

* `TreeCorrected` (from `ElementCorrected`): for all trees, the corrections keep the shape of a tree, change nothing when they are made again, and
  `Migrated` holds of their result: everything but the name of the JSP parameter and the roles of users, of which it says nothing. Each function is treated apart, and those of them that are applied to one file
  do not meet at an element.
* `TypesCorrect`, `ConfigsAlwaysKept`: `Kept` is stronger than `ConfigsKept`: a complete copy in the new directory counts only when the old
  directory has nothing that `cp` would put over it. In the rewriting loop the copy is the file itself until its backup is complete, or
  the `.rpmsave` (`Loop`); when `rm -rf` runs, everything it removes has been copied (`Copied`); `rpm -e` finds no older `.rpmsave`
  that it would overwrite (`Unsaved`).
* `AlwaysInPlace`: what has left the loop is corrected, in the sense of `Migrated`, or gone, and what is gone has arrived (`Arrived`).
* `WebappsAlwaysKept`: from what `mv_webapps` is in the middle of (`Apps`): a rename onto the new directory needs that its
  content is in the backup.

### Only model-checked

* Liveness (`Terminates`, `HookEnds`): weak fairness is out of reach of the prover. Of `Terminates` the safety half
  is proved (`EveryLoopEnds`).
* `SameSection` of `BindText`. It holds of texts made of the pieces of the run and not of any characters: in `x/* */o { }` the
  token search finds the section behind the comment, and without the comment there is a word `xo` and no section (named refuses
  such a file). The run
  covers all texts of these pieces up to its bound, and a proof would have to be about the pieces. `RepairRecognised`
  rests on it.
* The first conjunct of `RoundTrip` of `XmlTree`, that elements, attributes, texts and comments come back in their order: it compares what is
  written with what was read, both by folds over sequences of any depth, for which one would need an induction over trees in step
  with the serializer. Proved are its parts about a single text or attribute (`CdataComesBack`,
  `AttribComesBack`), about the prefixes (`PrefixesAlwaysUnique`), and its second conjunct (`OnlyTrailingCommentsRaise`).

Definitions that are reasoned about use function constructors instead of `@@` and `:>`, which the prover does not expand.

## 7. Disagreements found

With a run whose counterexample shows it (`findings` in `PROJECT.json`):

* the cleanup erases unsigned packages whose name occurs in that of a signed one
  (`postupgrade_cleanup.sh:77`);
* a runtime statement of BIND without quotes gets a second statement
  (`networking/bind/configuration/check:310`), and the file is applied;
* a comment behind the root of an XML file takes the place of the root (`ElementTree.py:1386`): writing
  raises after the file was emptied, or leaves a file of comments;
* `post-tomcat.py:97` drops the list of renamed roles: the roles are renamed, their users keep the old ones.

Seen while modelling, without a run of their own. No property of section 4 counts such a case as right: where one comes near, the
item says how the property leaves it out.

* the required-by column of the replaced lists is always empty (`ReplacedPackages/check:104`, against
  `module_spec:59`);
* the second loop of `fixreplaced.sh` removes packages whose replacement is not there
  (`ReplacedPackages/check:281`, against `module_spec:50`); `FixSettles` speaks of the entries of the first loop only;
* `rpm -e` refuses a name that is installed for two architectures, and the loops of `fixreplaced.sh` do not look at its status
  (`ReplacedPackages/check:268-269`): such a package stays, and `FixSettles` excuses it (`Multilib`);
* a replacement may be an old package (`yum-presto|yum`). `fixreplaced.sh` then takes the old package for the new one, and the
  cleanup may erase it: `FixSettles` and the contract except what the cleanup was asked to erase;
* the cleanup recognises no 32-bit package (`postupgrade_cleanup.sh:31`, against `:39`);
* `ReplacedPackages` is documented to end with FIXED when every replacement provides the old package
  and with FAIL when one does not (`module_spec:71-78`); without other repositories it ends with
  INFORMATIONAL and with FIXED (`check:51`, `:319`). `ResultMatchesLists` claims nothing of these replacements;
* a check that cannot read `default_nreponames` names no channel to subscribe to, and says nothing of it
  (`ObsoletedPackages/check:127-128`, `notbase-channel/check:192-193`); `AdviceFitsLists` asks for channels only when the file is there;
* `notbase-channel` (`check:10`) relies on `install_rpmlist.sh`, which
  `ReplacedPackages` does not copy when a table is missing;
* services of xinetd that are off are listed as enabled (`control/check:105`, against
  `module.ini:4`). Foreign services that are off are announced to be disabled after the upgrade (`:142`, `:149`), are never listed, and
  nothing disables them; `EveryServiceAccounted` asks for some announcement, not for this one;
* a list that this run does not write leaves the copy of an earlier run beside `services.py` (`control/check:163-164`), which works on it;
* a service without a unit is looked up by the beginning of file names (`services.py:73`), and so reaches units of others.
  `DisabledStaysOff` and `OthersUntouched` claim nothing of these units;
* `find_next_token` gives 14 for the third example of its docstring, not 13 (`check:120` of BIND);
* `check_default_runtime_dir` adds the solution with `[FIXED]` when the result is FAIL (`:666`), and
  `write_fixed_configs_to_disk` says that files were fixed when none needed it (`:758`);
* a slave zone whose type follows an inner block is missed (`:450`); a comment glued to the word `options`
  makes the file unrepairable, and with two such sections checks and
  repairs may take different ones;
* a comment glued to the key of a statement (`pid-file#...`, a newline, `"old";`) is left out by the check (`:629`) and not by the
  repair (`:295`): a second statement is appended (`:735-737`) behind the old one, which stays the first, and the
  file is applied. `CleanIsComplete` and `RepairRecognised` except such files (`Stays`, `KeyApart`);
* a power loss or a broken off copy between `enforce_downgraded:73` and `:74` leaves a file that no later
  run lists; `Enforced` and `ListIsDirectory` except it (`torn`). Packages on a medium are listed again by each run;
* an installed package is compared with the first of its name and architecture (`repo_pkgs[0]`): when the repository has several
  versions a lower one may be listed although a higher one is there, against the docstring ("actually downgraded", `enforce_downgraded:86`);
  the `TODO` at `:96` names a remedy. `Enforced` asks for nothing in that case;
* `post-tomcat.py:374` combines the results of both moves by "or": a failed move of the web applications ends with 0. After a
  power loss in the middle of a move between file systems the next run moves what is left, and ends with 0 while a complete copy
  lies in the backup only;
* a torn configuration file left by a power loss is read instead of its `.rpmsave`, and every further run
  dies at it (`:297`);
* `check_jsp_compiler` writes `getStringAsCharArray` where its message says `genStringAsCharArray` (`:189-193`), and nothing is
  applied to `web.xml`; `Migrated` says nothing of that parameter;
* `rm -rf` of the old directory may fail, and its status is not looked at (`post-tomcat.py:271`);
* carriage returns are written as they are (`_escape_cdata`, `_escape_attrib`, `ElementTree.py:1061-1092`), and come back as line ends
  or, in attributes, as spaces; tabs in attributes come back as spaces, processing instructions and the document type are lost
  (`ElementTree.py:1077`, `:1559`, `:1584`);
* `dangerous_uid.py:53-56` never looks at the first key of the map.

## 8. Not modelled

Messages, layout of reports, and modules that only query the machine and print
(see the table of section 1). The framework itself (`preupg`, `common.sh`) and
`redhat-upgrade-tool`, `rpm`, `yum`, `systemctl`, `expat`, `mv` and `cp` appear as environment: their
modelled behaviour is marked `external` in the map. Values of the tables are
parameters. Of the vendored ElementTree only what `post-tomcat.py` calls is
modelled: search by path, HTML and text output, `iterparse`, `XMLID` and C14N are never reached. The check of tomcat
runs the same corrections only to report them.
