------------------------------- MODULE Tomcat -------------------------------
(***************************************************************************)
(* services/tomcat/post-tomcat.py: after the upgrade it corrects the       *)
(* configuration files of Tomcat 6, installs Tomcat 7, moves the web       *)
(* applications and the configuration to the new directories and erases    *)
(* the old packages.  The machine may go down at any step; the script then *)
(* runs again from its beginning, over what the broken off run left.       *)
(***************************************************************************)
EXTENDS TomcatFix, FiniteSets

CONSTANTS
    File,       \* configuration files of /etc/tomcat6
    Document,   \* Document[f]: what the user may have written into f
    NoFile,     \* a file that does not exist
    Torn,       \* the content of a file that no parser accepts
    Default,    \* the file that the tomcat package brings
    NoTree,     \* None in etreeDict
    NoDir,      \* a directory that does not exist
    MaxCrashes  \* bound: number of power losses

Suffix == {"", ".rpmsave", ".orig_backup"}

(* Places of a file f: <<"tomcat6", ".rpmsave">> is /etc/tomcat6/f.rpmsave *)
Place == {"tomcat6", "tomcat"} \X Suffix
Old(suffix) == <<"tomcat6", suffix>>
New(suffix) == <<"tomcat", suffix>>

(* A file as the functions leave it.                                       *)
Converted(f, doc) == [doc EXCEPT !.tree = Corrected(f, @)]

ASSUME TomcatAssumption ==
    /\ File \subseteq {"server.xml", "web.xml", "context.xml", "tomcat-users.xml"}
    /\ DOMAIN Document = File
    /\ \A f \in File : \A doc \in Document[f] :
         /\ doc = [tree |-> doc.tree, trailing |-> doc.trailing]
         /\ IsTree(doc.tree) /\ doc.trailing \in BOOLEAN
         /\ {doc, Converted(f, doc)} \cap {NoFile, Torn, Default, NoTree} = {}
    /\ NoFile # Torn /\ NoFile # Default /\ Torn # Default
    /\ \A apps \in SUBSET {"user", "pkg", "part", "nested"} : apps # NoDir
    /\ MaxCrashes \in Nat

VARIABLES
    original,   \* what the user had written, for every file
    disk,       \* disk[p][f]: the file f at place p
    owner,      \* tomcat6 is installed
    tomcat,     \* tomcat is installed
    apps,       \* web applications: the directories old, new and backup
    phase,
    trees,      \* etreeDict
    todo,       \* files the loop has still to treat
    cur,        \* the file it treats
    status,
    crashes     \* power losses so far

memory == <<trees, todo, cur, status>>
machine == <<original, disk, owner, tomcat, apps>>
vars == <<original, disk, owner, tomcat, apps, phase, trees, todo, cur,
          status, crashes>>

Content(f) ==
    {NoFile, Torn, Default}
      \cup Document[f] \cup {Converted(f, doc) : doc \in Document[f]}

Exists(p, f) == disk[p][f] # NoFile

----------------------------------------------------------------------------
(* Reading and correcting                                                  *)

Start ==
    /\ phase = "off"
    /\ phase' = "parse"
    /\ UNCHANGED <<machine, memory, crashes>>

(* A file, or, when it does not exist, the one with the suffix .rpmsave.   *)
Source(f) ==
    IF Exists(Old(""), f) THEN disk[Old("")][f] ELSE disk[Old(".rpmsave")][f]

(* Fault: what does not exist is entered as it is.                         *)
ParseFilesAny ==
    /\ phase = "parse"
    /\ IF \E f \in File : Source(f) = Torn
         THEN phase' = "died" /\ UNCHANGED trees
         ELSE /\ trees' = [f \in File |-> Source(f)]
              /\ phase' = "correct"
    /\ UNCHANGED <<machine, todo, cur, status, crashes>>

(* The first loop; an exception of the parser ends the script.             *)
ParseFiles ==
    /\ phase = "parse"
    /\ IF \E f \in File : Source(f) = Torn
         THEN phase' = "died" /\ UNCHANGED trees
         ELSE /\ trees' = [f \in File |-> IF Source(f) = NoFile THEN NoTree ELSE Source(f)]
              /\ phase' = "correct"
    /\ UNCHANGED <<machine, todo, cur, status, crashes>>

(* What the functions can see of a tree.                                   *)
Visible(tree) == tree # NoTree /\ ~tree.trailing

Fixed(f) ==
    IF Visible(trees[f]) THEN Converted(f, trees[f]) ELSE trees[f]

Unreadable ==
    \E f \in File \cap {"tomcat-users.xml"} : Visible(trees[f]) /\ ~UsersReadable(trees[f].tree)

(* The calls of the check functions.                                       *)
CheckFiles ==
    /\ phase = "correct"
    /\ IF Unreadable THEN phase' = "died" /\ UNCHANGED <<trees, todo>>
       ELSE /\ trees' = [f \in File |-> Fixed(f)]
            /\ todo' = {f \in File : trees[f] # NoTree}
            /\ phase' = "rewrite"
    /\ UNCHANGED <<machine, cur, status, crashes>>

----------------------------------------------------------------------------
(* Rewriting, in the order of the dictionary.  A file that is being        *)
(* written is torn until the write is complete.                            *)

Put(p, f, content) == disk' = [disk EXCEPT ![p][f] = content]
OnDisk == UNCHANGED <<original, owner, tomcat, apps, trees, status, crashes>>

(* Fault: an existing file is not backed up.                               *)
RewriteUnsaved(f) ==
    /\ phase = "rewrite" /\ f \in todo
    /\ phase' = "write"
    /\ cur' = f
    /\ UNCHANGED <<disk, todo>>
    /\ OnDisk

(* copy2(key, key + ".orig_backup")                                        *)
Rewrite(f) ==
    /\ phase = "rewrite" /\ f \in todo
    /\ IF Exists(Old(""), f)
         THEN Put(Old(".orig_backup"), f, Torn) /\ phase' = "backup"
         ELSE phase' = "write" /\ UNCHANGED disk
    /\ cur' = f
    /\ UNCHANGED todo
    /\ OnDisk

BackupDone ==
    /\ phase = "backup"
    /\ Put(Old(".orig_backup"), cur, disk[Old("")][cur])
    /\ phase' = "write"
    /\ UNCHANGED <<todo, cur>>
    /\ OnDisk

(* open(file_or_filename, "wb")                                            *)
WriteBegin ==
    /\ phase = "write"
    /\ Put(Old(""), cur, Torn)
    /\ phase' = "writing"
    /\ UNCHANGED <<todo, cur>>
    /\ OnDisk

(* The tree of a file with a comment after its root makes write raise, or  *)
(* leaves a file of comments only (XmlTree).                               *)
WriteEnd ==
    /\ phase = "writing"
    /\ \/ /\ trees[cur].trailing
          /\ phase' = "died"
          /\ UNCHANGED <<disk, todo>>
       \/ /\ IF trees[cur].trailing THEN UNCHANGED disk ELSE Put(Old(""), cur, trees[cur])
          /\ phase' = "rewrite"
          /\ todo' = todo \ {cur}
    /\ UNCHANGED cur
    /\ OnDisk

----------------------------------------------------------------------------
(* yum install, which succeeds when it installs something: tomcat may not  *)
(* be among it.  What the loop over rpm -q assigns to status, mv_webapps   *)
(* overwrites.                                                             *)

Install ==
    /\ disk' = [disk EXCEPT ![New("")] =
                   [f \in File |-> IF tomcat \/ @[f] # NoFile THEN @[f] ELSE Default]]
    /\ tomcat' = TRUE
    /\ apps' = IF tomcat \/ apps.new # NoDir THEN apps ELSE [apps EXCEPT !.new = {"pkg"}]

YumInstall ==
    /\ phase = "rewrite" /\ todo = {}
    /\ \/ phase' = "failed" /\ UNCHANGED <<disk, tomcat, apps, status>>
       \/ phase' = "webapps" /\ Install /\ status' = TRUE
       \/ phase' = "webapps" /\ status' = tomcat /\ UNCHANGED <<disk, tomcat, apps>>
    /\ UNCHANGED <<original, owner, trees, todo, cur, crashes>>

----------------------------------------------------------------------------
(* mv_webapps.  mv renames a directory, or copies and deletes it when the  *)
(* new place is on another file system.  Of a directory the model knows    *)
(* whether it holds all applications of the user ("user"), a part of them, *)
(* those of the tomcat package ("pkg"), or a directory moved into it.      *)

ToConfigs(result) == phase' = "configs" /\ status' = result
OnApps == UNCHANGED <<original, disk, owner, tomcat, trees, todo, cur, crashes>>

NoApps ==
    /\ phase = "webapps" /\ apps.old = NoDir
    /\ ToConfigs(FALSE)
    /\ UNCHANGED apps
    /\ OnApps

(* Fault: a backup that exists is replaced.                                *)
BackupAppsOver ==
    /\ phase = "webapps" /\ apps.old # NoDir
    /\ IF apps.new = NoDir THEN ToConfigs(FALSE) /\ UNCHANGED apps
       ELSE /\ apps' = [apps EXCEPT !.backup = apps.new, !.new = NoDir]
            /\ phase' = "move"
            /\ UNCHANGED status
    /\ OnApps

(* The new directory is moved out of the way; into the backup when there   *)
(* is one, and not at all when that holds a directory of this name.        *)
BackupApps ==
    /\ phase = "webapps" /\ apps.old # NoDir
    /\ IF apps.new = NoDir \/ (apps.backup # NoDir /\ "nested" \in apps.backup)
         THEN ToConfigs(FALSE) /\ UNCHANGED apps
       ELSE /\ apps' = [apps EXCEPT !.backup = IF @ = NoDir THEN apps.new
                                               ELSE @ \cup {"nested"} \cup apps.new,
                                    !.new = NoDir]
            /\ phase' = "move"
            /\ UNCHANGED status
    /\ OnApps

RenameApps ==
    /\ phase = "move"
    /\ apps' = [apps EXCEPT !.new = apps.old, !.old = NoDir]
    /\ ToConfigs(TRUE)
    /\ OnApps

(* Between file systems: copying, ...                                      *)
CopyApps ==
    /\ phase = "move"
    /\ apps' = [apps EXCEPT !.new = {"part"}]
    /\ phase' = "copy"
    /\ UNCHANGED status
    /\ OnApps

(* ... then deleting what was copied, ...                                  *)
DeleteApps ==
    /\ phase = "copy"
    /\ apps' = [apps EXCEPT !.new = apps.old, !.old = {"part"}]
    /\ phase' = "delete"
    /\ UNCHANGED status
    /\ OnApps

(* ... to the end.                                                         *)
AppsMoved ==
    /\ phase = "delete"
    /\ apps' = [apps EXCEPT !.old = NoDir]
    /\ ToConfigs(TRUE)
    /\ OnApps

(* The move fails before or while it copies or deletes, and cp -ar backup/* is to     *)
(* restore the new directory.  Where that is missing, cp fails, or makes a *)
(* copy of the only directory of the backup out of it.                     *)
MoveFails ==
    /\ phase \in {"move", "copy", "delete"}
    /\ apps' \in {[apps EXCEPT !.new = n] :
                    n \in IF apps.new = NoDir THEN {NoDir, {"part"}}
                          ELSE {apps.new \cup (apps.backup \ {"nested"})}}
    /\ ToConfigs(FALSE)
    /\ OnApps

----------------------------------------------------------------------------
(* mv_configs: cp -avr of all files, then rm -rf of the old directory.     *)

Leftovers == {p \in {"tomcat6"} \X Suffix : \E f \in File : Exists(p, f)}
OnConfigs == UNCHANGED <<original, owner, tomcat, apps, trees, cur, crashes>>

NoConfigs ==
    /\ phase = "configs" /\ Leftovers = {}
    /\ phase' = "erase"
    /\ status' = TRUE
    /\ UNCHANGED <<disk, todo>>
    /\ OnConfigs

(* cp fails when /etc/tomcat does not exist, and may fail at any file:     *)
(* the status stays what mv_webapps made it.                               *)
CopyFails ==
    /\ phase \in {"configs", "copying"} /\ Leftovers # {}
    /\ phase' = "erase"
    /\ todo' = {}
    /\ UNCHANGED <<disk, status>>
    /\ OnConfigs

CopyConfigs ==
    /\ phase = "configs" /\ Leftovers # {} /\ tomcat
    /\ phase' = "copying"
    /\ todo' = File
    /\ UNCHANGED <<disk, status>>
    /\ OnConfigs

(* Fault: files that exist are not overwritten.                            *)
CopyConfigKept(f) ==
    /\ phase = "copying" /\ f \in todo
    /\ \E c \in {{s \in Suffix : Exists(Old(s), f)}} :
         \/ /\ disk' = [p \in Place |->
                 IF p[1] = "tomcat" /\ p[2] \in c /\ ~Exists(p, f)
                   THEN [disk[p] EXCEPT ![f] = disk[Old(p[2])][f]] ELSE disk[p]]
            /\ todo' = todo \ {f}
         \/ /\ disk' = [p \in Place |->
                 IF p[1] = "tomcat" /\ p[2] \in c
                   THEN [disk[p] EXCEPT ![f] = Torn] ELSE disk[p]]
            /\ UNCHANGED todo
    /\ UNCHANGED <<phase, status>>
    /\ OnConfigs

(* A file and its copies, torn at first.                                   *)
CopyConfig(f) ==
    /\ phase = "copying" /\ f \in todo
    /\ \E c \in {{s \in Suffix : Exists(Old(s), f)}} :
         \/ /\ disk' = [p \in Place |->
                 IF p[1] = "tomcat" /\ p[2] \in c
                   THEN [disk[p] EXCEPT ![f] = disk[Old(p[2])][f]] ELSE disk[p]]
            /\ todo' = todo \ {f}
         \/ /\ disk' = [p \in Place |->
                 IF p[1] = "tomcat" /\ p[2] \in c
                   THEN [disk[p] EXCEPT ![f] = Torn] ELSE disk[p]]
            /\ UNCHANGED todo
    /\ UNCHANGED <<phase, status>>
    /\ OnConfigs

CopyDone ==
    /\ phase = "copying" /\ todo = {}
    /\ phase' = "removing"
    /\ UNCHANGED <<disk, todo, status>>
    /\ OnConfigs

RemoveConfig(p, f) ==
    /\ phase = "removing" /\ p \in Leftovers /\ Exists(p, f)
    /\ Put(p, f, NoFile)
    /\ UNCHANGED <<phase, todo, status>>
    /\ OnConfigs

(* The status of rm is not looked at: files may be left.                   *)
RemoveDone ==
    /\ phase = "removing"
    /\ phase' = "erase"
    /\ status' = TRUE
    /\ UNCHANGED <<disk, todo>>
    /\ OnConfigs

----------------------------------------------------------------------------
(* rpm -e --nodeps of the old packages: a changed configuration file gets  *)
(* the suffix .rpmsave.  The exit code is the status.                      *)
EraseOld ==
    /\ phase = "erase"
    /\ \/ /\ owner
          /\ owner' = FALSE
          /\ disk' = [disk EXCEPT
                 ![Old(".rpmsave")] = [f \in File |-> IF Exists(Old(""), f) THEN disk[Old("")][f]
                                                      ELSE @[f]],
                 ![Old("")] = [f \in File |-> NoFile]]
          /\ phase' = IF status THEN "done" ELSE "failed"
       \/ owner /\ phase' = "failed" /\ UNCHANGED <<disk, owner>>
       \/ ~owner /\ phase' = (IF status THEN "done" ELSE "failed") /\ UNCHANGED <<disk, owner>>
    /\ UNCHANGED <<original, tomcat, apps, memory, crashes>>

Ended == {"done", "failed", "died"}

PowerLoss ==
    /\ phase \notin Ended \cup {"off"}
    /\ crashes < MaxCrashes
    /\ crashes' = crashes + 1
    /\ phase' = "off"
    /\ trees' = [f \in File |-> NoTree]
    /\ todo' = {} /\ cur' = NoFile /\ status' = FALSE
    /\ UNCHANGED machine

Stopped == phase \in Ended /\ UNCHANGED vars

----------------------------------------------------------------------------
(* While tomcat6 is installed the files have their names; when the upgrade *)
(* has removed it, what the user had changed has the suffix .rpmsave.      *)
Init ==
    /\ original \in {o \in [File -> {NoFile} \cup UNION {Document[f] : f \in File}] :
                        \A f \in File : o[f] \in {NoFile} \cup Document[f]}
    /\ owner \in BOOLEAN
    /\ disk = [p \in Place |-> [f \in File |->
                 IF p = Old(IF owner THEN "" ELSE ".rpmsave") THEN original[f] ELSE NoFile]]
    /\ tomcat = FALSE
    /\ apps \in {[old |-> o, new |-> NoDir, backup |-> NoDir] : o \in {NoDir, {"user"}}}
    /\ phase = "off"
    /\ trees = [f \in File |-> NoTree]
    /\ todo = {} /\ cur = NoFile /\ status = FALSE
    /\ crashes = 0

Script ==
    \/ Start \/ ParseFiles \/ CheckFiles
    \/ \E f \in File : Rewrite(f)
    \/ BackupDone \/ WriteBegin \/ WriteEnd \/ YumInstall
    \/ NoApps \/ BackupApps \/ RenameApps \/ CopyApps \/ DeleteApps \/ AppsMoved \/ MoveFails
    \/ NoConfigs \/ CopyFails \/ CopyConfigs \/ CopyDone \/ RemoveDone
    \/ \E f \in File : CopyConfig(f) \/ \E p \in Place : RemoveConfig(p, f)
    \/ EraseOld

Next == Script \/ PowerLoss \/ Stopped

Spec == Init /\ [][Next]_vars

----------------------------------------------------------------------------
(* Properties                                                              *)

Phases == {"off", "parse", "correct", "rewrite", "backup", "write", "writing",
           "webapps", "move", "copy", "delete", "configs", "copying", "removing",
           "erase"} \cup Ended

(* Every variable keeps its type: a file only ever holds what the user     *)
(* wrote, its correction, the default, or a part of one of these.          *)
TypeOK ==
    /\ \A f \in File : original[f] \in {NoFile} \cup Document[f]
    /\ \A p \in Place, f \in File : disk[p][f] \in Content(f)
    /\ \A f \in File : disk[Old("")][f] # Default
    /\ owner \in BOOLEAN /\ tomcat \in BOOLEAN /\ status \in BOOLEAN
    /\ {apps.old, apps.new, apps.backup}
         \subseteq {NoDir} \cup SUBSET {"user", "pkg", "part", "nested"}
    /\ phase \in Phases
    /\ \A f \in File : trees[f] \in {NoTree} \cup (Content(f) \ {NoFile, Torn, Default})
    /\ todo \subseteq File /\ cur \in File \cup {NoFile}
    /\ crashes \in 0..MaxCrashes

Intact(f) == {original[f], Converted(f, original[f])}

(* What the user wrote into a configuration file is complete in one of its *)
(* places at any time, corrected or not, whatever breaks off the script    *)
(* and however often it starts again over what it left.                    *)
ConfigsKept ==
    \A f \in File : original[f] # NoFile => \E p \in Place : disk[p][f] \in Intact(f)

(* A configuration file leaves /etc/tomcat6 only when /etc/tomcat has it   *)
(* complete, with the constructs of the check functions corrected and      *)
(* everything else as the user wrote it, however often the script started  *)
(* over what an earlier run had already corrected.  The name of the JSP    *)
(* parameter and the roles of users are not part of this (JspName,         *)
(* UserRoles).                                                             *)
InPlace ==
    \A f \in File :
        /\ original[f] # NoFile
        /\ ~original[f].trailing
        /\ ~Exists(Old(""), f) /\ ~Exists(Old(".rpmsave"), f)
        => /\ disk[New("")][f] \notin {NoFile, Torn, Default}
           /\ Migrated(f, original[f].tree, disk[New("")][f].tree)

(* No step loses the last complete copy of the web applications of the     *)
(* user, nor of those that came with the new package: mv_webapps moves     *)
(* instead of overwriting, also over what a broken off move left.          *)
Holding(what) == {d \in DOMAIN apps : apps[d] # NoDir /\ what \in apps[d]}

WebappsKept ==
    [][\A what \in {"user", "pkg"} : Holding(what) # {} => Holding(what)' # {}]_vars

(* The log of the check says a role that is in use "will be automatically  *)
(* updated to a new %s-gui role": no user keeps a role of Tomcat 6.        *)
RolesFollow ==
    \A f \in File \cap {"tomcat-users.xml"} :
        /\ phase = "done"
        /\ original[f] # NoFile
        /\ disk[New("")][f] \in Intact(f)
        => \A i \in DOMAIN disk[New("")][f].tree :
             \A elem \in {disk[New("")][f].tree[i]} :
                 iter(elem, "user") => elem.attrib["roles"] \cap DOMAIN NewRole = {}
============================================================================
