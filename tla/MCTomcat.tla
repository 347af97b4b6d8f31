------------------------------ MODULE MCTomcat ------------------------------
(* server.xml with every construct that is corrected, also in a namespace  *)
(* and beside the attribute it is renamed to; tomcat-users.xml with old    *)
(* and other roles, or with a user without roles; both also with a comment *)
(* behind the root.                                                        *)
EXTENDS Tomcat, TLC

Elem(tag, attrib) ==
    [tag |-> tag, ns |-> FALSE, attrib |-> attrib, text |-> "", servlet |-> FALSE]

Server == <<
    Elem("Connector", ("port" :> "8080") @@ ("emptySessionPath" :> "v")),
    Elem("Context", "disableURLRewriting" :> "v"),
    Elem("Manager", ("randomClass" :> "r") @@ ("secureRandomClass" :> "s")
                    @@ ("algorithm" :> "v") @@ ("entropy" :> "v")),
    [Elem("Manager", "randomClass" :> "r") EXCEPT !.ns = TRUE],
    [Elem("param-name", <<>>) EXCEPT !.text = "genStrAsCharArray", !.servlet = TRUE, !.ns = TRUE] >>

Users == <<
    Elem("role", "rolename" :> "manager"),
    Elem("role", "rolename" :> "guest"),
    Elem("user", ("name" :> "u") @@ ("roles" :> {"manager", "guest"})) >>

NoRoles == <<Elem("user", "name" :> "u")>>

Doc(tree, trailing) == [tree |-> tree, trailing |-> trailing]

MCFile == {"server.xml", "tomcat-users.xml"}
MCDocument ==
    ("server.xml" :> {Doc(Server, FALSE), Doc(Server, TRUE)}) @@
    ("tomcat-users.xml" :> {Doc(Users, FALSE), Doc(NoRoles, FALSE)})
============================================================================
