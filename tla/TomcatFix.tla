----------------------------- MODULE TomcatFix -----------------------------
(***************************************************************************)
(* The corrections that services/tomcat/post-tomcat.py makes in a parsed   *)
(* configuration file.  A tree is the sequence of its elements in document *)
(* order; of an element it keeps the tag, whether the tag has a namespace  *)
(* (ns), the attributes, the text, and whether a servlet is around it.     *)
(* A file whose root is followed by a comment has a comment for its root   *)
(* (XmlTree), so that the functions find no element in it.                 *)
(***************************************************************************)
EXTENDS Naturals, Sequences, Functions

(* The roles that Tomcat 7 splits, and what stands for them.               *)
NewRole == [role \in {"admin", "manager"} |-> IF role = "admin" THEN "admin-gui" ELSE "manager-gui"]

(* root.iter(tag) compares whole tags, iter_ignore_ns(tag) what follows    *)
(* the namespace.                                                          *)
iter(elem, tag) == elem.tag = tag /\ ~elem.ns
iter_ignore_ns(elem, tag) == elem.tag = tag

Has(elem, attr) == attr \in DOMAIN elem.attrib
Pop(attrib, attrs) == Restrict(attrib, DOMAIN attrib \ attrs)
Set(attrib, attr, value) ==
    [a \in DOMAIN attrib \cup {attr} |-> IF a = attr THEN value ELSE attrib[a]]

----------------------------------------------------------------------------
(* What the loops of the check functions make of an element; none of them  *)
(* looks at another one.                                                   *)

(* check_users: the roles are renamed.  The roles of a user are split,     *)
(* searched and joined again as they were: the list that replace_role      *)
(* returns is not used.                                                    *)
check_users(elem) ==
    IF iter(elem, "role") /\ Has(elem, "rolename") /\ elem.attrib["rolename"] \in DOMAIN NewRole
      THEN [elem EXCEPT !.attrib = Set(@, "rolename", NewRole[@["rolename"]])]
      ELSE elem

(* user.get("roles").split(",") raises for a user without the attribute.   *)
UsersReadable(tree) ==
    \A i \in DOMAIN tree : iter(tree[i], "user") => Has(tree[i], "roles")

check_session_manager(elem) ==
    IF ~iter(elem, "Manager") THEN elem
    ELSE [elem EXCEPT !.attrib =
            Pop(IF Has(elem, "randomClass") THEN Set(@, "secureRandomClass", @["randomClass"]) ELSE @,
                {"randomClass", "algorithm", "entropy"})]

check_session_cookie_connector(elem) ==
    IF iter(elem, "Connector") THEN [elem EXCEPT !.attrib = Pop(@, {"emptySessionPath"})] ELSE elem

check_url_rewriting(elem) ==
    IF iter(elem, "Context") THEN [elem EXCEPT !.attrib = Pop(@, {"disableURLRewriting"})] ELSE elem

check_jsp_compiler(elem) ==
    IF elem.servlet /\ iter_ignore_ns(elem, "param-name") /\ elem.text = "genStrAsCharArray"
      THEN [elem EXCEPT !.text = "getStringAsCharArray"]
      ELSE elem

(* What is applied to which file; nothing to web.xml.                      *)
CorrectedElement(fname, elem) ==
    CASE fname = "tomcat-users.xml" -> check_users(elem)
      [] fname = "server.xml" ->
           check_jsp_compiler(check_url_rewriting(check_session_manager(
               check_session_cookie_connector(elem))))
      [] fname = "context.xml" ->
           check_jsp_compiler(check_url_rewriting(check_session_manager(elem)))
      [] OTHER -> elem

Corrected(fname, tree) == [i \in DOMAIN tree |-> CorrectedElement(fname, tree[i])]

(* A parsed tree.                                                          *)
IsElement(elem) ==
    /\ elem = [tag |-> elem.tag, ns |-> elem.ns, attrib |-> elem.attrib, text |-> elem.text,
               servlet |-> elem.servlet]
    /\ elem.ns \in BOOLEAN /\ elem.servlet \in BOOLEAN
    /\ elem.attrib = [attr \in DOMAIN elem.attrib |-> elem.attrib[attr]]

IsTree(tree) ==
    /\ tree = [i \in DOMAIN tree |-> tree[i]]
    /\ \A i \in DOMAIN tree : IsElement(tree[i])

----------------------------------------------------------------------------
(* What the corrections are for, element by element.                       *)

Removed(fname, tag) ==
    CASE tag = "Manager" /\ fname \in {"server.xml", "context.xml"} ->
           {"randomClass", "algorithm", "entropy"}
      [] tag = "Context" /\ fname \in {"server.xml", "context.xml"} -> {"disableURLRewriting"}
      [] tag = "Connector" /\ fname = "server.xml" -> {"emptySessionPath"}
      [] OTHER -> {}

(* Where the script does something else than its messages say: the name of *)
(* the JSP parameter and the roles of the users.  Nothing is asked of them *)
(* below.                                                                  *)
JspName(fname, elem) ==
    /\ fname \in {"server.xml", "context.xml"}
    /\ elem.servlet /\ elem.tag = "param-name" /\ elem.text = "genStrAsCharArray"

UserRoles(fname, elem, attr) == fname = "tomcat-users.xml" /\ elem.tag = "user" /\ attr = "roles"

(* An element of the corrected file against the one the user wrote: the    *)
(* attributes the check functions take away are gone, the class of the     *)
(* random numbers is under its new name and the roles have theirs;         *)
(* everything else is as the user wrote it.                                *)
MigratedElement(fname, from, to) ==
    /\ to.tag = from.tag /\ to.ns = from.ns /\ to.servlet = from.servlet
    /\ ~JspName(fname, from) => to.text = from.text
    /\ IF from.ns THEN to.attrib = from.attrib
       ELSE \A attr \in DOMAIN from.attrib \cup DOMAIN to.attrib :
              CASE attr \in Removed(fname, from.tag) -> ~Has(to, attr)
                [] attr = "secureRandomClass" /\ "randomClass" \in Removed(fname, from.tag) ->
                     /\ Has(to, attr)
                     /\ to.attrib[attr] = from.attrib[IF Has(from, "randomClass")
                                                        THEN "randomClass" ELSE attr]
                [] attr = "rolename" /\ from.tag = "role" /\ fname = "tomcat-users.xml" ->
                     /\ Has(from, attr) /\ Has(to, attr)
                     /\ to.attrib[attr] = IF from.attrib[attr] \in DOMAIN NewRole
                                            THEN NewRole[from.attrib[attr]] ELSE from.attrib[attr]
                [] UserRoles(fname, from, attr) -> TRUE
                [] OTHER -> Has(from, attr) /\ Has(to, attr) /\ to.attrib[attr] = from.attrib[attr]

Migrated(fname, from, to) ==
    /\ DOMAIN to = DOMAIN from
    /\ \A i \in DOMAIN from : MigratedElement(fname, from[i], to[i])
============================================================================
