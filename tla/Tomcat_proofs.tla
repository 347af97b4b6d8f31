---------------------------- MODULE Tomcat_proofs ----------------------------
(***************************************************************************)
(* The configuration and the web applications survive post-tomcat.py,      *)
(* whatever breaks it off, whatever step fails and however often it starts *)
(* again: for every set of files, every document and any number of power   *)
(* losses.                                                                 *)
(***************************************************************************)
EXTENDS Tomcat, TLAPS

----------------------------------------------------------------------------
(* The corrections of an element                                           *)

(* An element is known by its parts.                                       *)
LEMMA SameElement ==
    ASSUME NEW e, NEW d, IsElement(e), IsElement(d),
           e.tag = d.tag, e.ns = d.ns, e.attrib = d.attrib, e.text = d.text, e.servlet = d.servlet
    PROVE  e = d
BY DEF IsElement

(* An element with other attributes or another text.                       *)
LEMMA ChangedElement ==
    ASSUME NEW e, IsElement(e)
    PROVE  /\ \A attrib : attrib = [a \in DOMAIN attrib |-> attrib[a]] =>
                /\ IsElement([e EXCEPT !.attrib = attrib])
                /\ [e EXCEPT !.attrib = attrib].attrib = attrib
                /\ [e EXCEPT !.attrib = attrib].tag = e.tag
                /\ [e EXCEPT !.attrib = attrib].ns = e.ns
                /\ [e EXCEPT !.attrib = attrib].text = e.text
                /\ [e EXCEPT !.attrib = attrib].servlet = e.servlet
           /\ \A text :
                /\ IsElement([e EXCEPT !.text = text])
                /\ [e EXCEPT !.text = text].attrib = e.attrib
                /\ [e EXCEPT !.text = text].tag = e.tag
                /\ [e EXCEPT !.text = text].ns = e.ns
                /\ [e EXCEPT !.text = text].text = text
                /\ [e EXCEPT !.text = text].servlet = e.servlet
<1>1. PICK tag, ns, attrib, text, servlet :
        /\ e = [tag |-> tag, ns |-> ns, attrib |-> attrib, text |-> text, servlet |-> servlet]
        /\ ns \in BOOLEAN /\ servlet \in BOOLEAN
        /\ attrib = [a \in DOMAIN attrib |-> attrib[a]]
  BY DEF IsElement
<1>2. ASSUME NEW new, new = [a \in DOMAIN new |-> new[a]]
      PROVE  /\ IsElement([e EXCEPT !.attrib = new])
             /\ [e EXCEPT !.attrib = new].attrib = new
             /\ [e EXCEPT !.attrib = new].tag = e.tag
             /\ [e EXCEPT !.attrib = new].ns = e.ns
             /\ [e EXCEPT !.attrib = new].text = e.text
             /\ [e EXCEPT !.attrib = new].servlet = e.servlet
  <2>1. [e EXCEPT !.attrib = new] =
          [tag |-> tag, ns |-> ns, attrib |-> new, text |-> text, servlet |-> servlet]
    BY <1>1
  <2> QED BY <1>1, <1>2, <2>1 DEF IsElement
<1>3. ASSUME NEW new
      PROVE  /\ IsElement([e EXCEPT !.text = new])
             /\ [e EXCEPT !.text = new].attrib = e.attrib
             /\ [e EXCEPT !.text = new].tag = e.tag
             /\ [e EXCEPT !.text = new].ns = e.ns
             /\ [e EXCEPT !.text = new].text = new
             /\ [e EXCEPT !.text = new].servlet = e.servlet
  <2>1. [e EXCEPT !.text = new] =
          [tag |-> tag, ns |-> ns, attrib |-> attrib, text |-> new, servlet |-> servlet]
    BY <1>1
  <2> QED BY <1>1, <2>1 DEF IsElement
<1> QED BY <1>2, <1>3

(* Element.set and attrib.pop make attributes of attributes.               *)
LEMMA Attributes ==
    ASSUME NEW attrib
    PROVE  /\ \A attrs : /\ Pop(attrib, attrs) = [a \in DOMAIN attrib \ attrs |-> attrib[a]]
                         /\ DOMAIN Pop(attrib, attrs) = DOMAIN attrib \ attrs
           /\ \A attr, value : /\ DOMAIN Set(attrib, attr, value) = DOMAIN attrib \cup {attr}
                               /\ Set(attrib, attr, value) =
                                    [a \in DOMAIN attrib \cup {attr} |-> IF a = attr THEN value ELSE attrib[a]]
BY DEF Pop, Set, Restrict

(* What makes d the correction of e in a file.                             *)
Corrects(fname, e, d) == IsElement(d) /\ MigratedElement(fname, e, d)

(* An element whose attributes nothing is done to.                         *)
LEMMA AttributesKept ==
    ASSUME NEW fname, NEW e, NEW d, IsElement(e), IsElement(d),
           d.tag = e.tag, d.ns = e.ns, d.servlet = e.servlet, d.attrib = e.attrib,
           \/ d.text = e.text
           \/ JspName(fname, e),
           e.ns \/ (Removed(fname, e.tag) = {} /\ ~(e.tag = "role" /\ fname = "tomcat-users.xml"))
    PROVE  Corrects(fname, e, d)
BY DEF Corrects, MigratedElement, Has

LEMMA UsersCorrected ==
    ASSUME NEW e, IsElement(e)
    PROVE  /\ Corrects("tomcat-users.xml", e, check_users(e))
           /\ check_users(check_users(e)) = check_users(e)
<1> DEFINE d == check_users(e)
           role == iter(e, "role") /\ Has(e, "rolename") /\ e.attrib["rolename"] \in DOMAIN NewRole
           attrib == Set(e.attrib, "rolename", NewRole[e.attrib["rolename"]])
<1>1. CASE role
  <2>1. d = [e EXCEPT !.attrib = attrib]
    <3>1. DOMAIN e = {"tag", "ns", "attrib", "text", "servlet"}
      BY DEF IsElement
    <3> QED BY <1>1, <3>1 DEF check_users
  <2>2. /\ attrib = [a \in DOMAIN e.attrib |->
                        IF a = "rolename" THEN NewRole[e.attrib["rolename"]] ELSE e.attrib[a]]
        /\ DOMAIN attrib = DOMAIN e.attrib
    <3>1. DOMAIN e.attrib \cup {"rolename"} = DOMAIN e.attrib
      BY <1>1 DEF Has
    <3> QED BY <3>1, Attributes DEF Set
  <2>3. /\ IsElement(d) /\ d.attrib = attrib /\ d.tag = e.tag /\ d.ns = e.ns
        /\ d.text = e.text /\ d.servlet = e.servlet
    BY <2>1, <2>2, ChangedElement
  <2>4. NewRole[e.attrib["rolename"]] \notin DOMAIN NewRole
    BY <1>1 DEF NewRole
  <2>5. check_users(d) = d
    BY <1>1, <2>2, <2>3, <2>4 DEF check_users, Has
  <2>6. e.tag = "role" /\ ~e.ns /\ "rolename" \in DOMAIN e.attrib
    BY <1>1 DEF iter, Has
  <2>7. \A attr \in DOMAIN e.attrib :
          /\ attr = "rolename" => d.attrib[attr] = NewRole[e.attrib[attr]]
          /\ attr # "rolename" => d.attrib[attr] = e.attrib[attr]
    BY <2>2, <2>3
  <2>8. MigratedElement("tomcat-users.xml", e, d)
    <3> HIDE DEF d, attrib
    <3> QED BY <1>1, <2>2, <2>3, <2>6, <2>7 DEF MigratedElement, Removed, Has, UserRoles
  <2> QED BY <2>3, <2>5, <2>8 DEF Corrects
<1>2. CASE ~role
  <2>1. d = e
    BY <1>2 DEF check_users
  <2>2. \A attr \in DOMAIN e.attrib :
          attr = "rolename" /\ e.tag = "role" /\ ~e.ns => e.attrib[attr] \notin DOMAIN NewRole
    BY <1>2 DEF iter, Has
  <2>3. MigratedElement("tomcat-users.xml", e, e)
    BY <2>2 DEF MigratedElement, Removed, Has, UserRoles
  <2> QED BY <2>1, <2>3 DEF Corrects
<1> QED BY <1>1, <1>2

Xml == {"server.xml", "context.xml"}

LEMMA ManagerCorrected ==
    ASSUME NEW fname \in Xml, NEW e, IsElement(e), e.tag = "Manager"
    PROVE  /\ Corrects(fname, e, check_session_manager(e))
           /\ check_session_manager(e).tag = "Manager"
           /\ check_session_manager(check_session_manager(e)) = check_session_manager(e)
<1> DEFINE gone == {"randomClass", "algorithm", "entropy"}
           renamed(x) == IF Has(x, "randomClass")
                           THEN Set(x.attrib, "secureRandomClass", x.attrib["randomClass"])
                           ELSE x.attrib
           d == check_session_manager(e)
<1>0. /\ DOMAIN e = {"tag", "ns", "attrib", "text", "servlet"}
      /\ e.attrib = [a \in DOMAIN e.attrib |-> e.attrib[a]]
      /\ e.ns \in BOOLEAN
  BY DEF IsElement
<1>1. CASE e.ns
  <2>1. d = e
    BY <1>1 DEF check_session_manager, iter
  <2> QED BY <1>1, <2>1, AttributesKept
<1>2. CASE ~e.ns
  <2> DEFINE attrib == Pop(renamed(e), gone)
  <2>1. d = [e EXCEPT !.attrib = attrib]
    BY <1>0, <1>2 DEF check_session_manager, iter
  <2>2. /\ attrib = [a \in DOMAIN renamed(e) \ gone |-> renamed(e)[a]]
        /\ DOMAIN attrib = DOMAIN renamed(e) \ gone
    BY DEF Pop, Restrict
  <2>3. /\ DOMAIN renamed(e) = IF Has(e, "randomClass") THEN DOMAIN e.attrib \cup {"secureRandomClass"}
                               ELSE DOMAIN e.attrib
        /\ \A a \in DOMAIN renamed(e) :
             renamed(e)[a] = IF Has(e, "randomClass") /\ a = "secureRandomClass"
                               THEN e.attrib["randomClass"] ELSE e.attrib[a]
    BY Attributes DEF Set
  <2> HIDE DEF renamed, attrib
  <2>4. /\ IsElement(d) /\ d.attrib = attrib /\ d.tag = e.tag /\ d.ns = e.ns
        /\ d.text = e.text /\ d.servlet = e.servlet
    BY <2>1, <2>2, ChangedElement
  <2>5. check_session_manager(d) = d
    <3> HIDE DEF d
    <3>1. /\ check_session_manager(d) = [d EXCEPT !.attrib = Pop(renamed(d), gone)]
          /\ renamed(d) = attrib
      <4>1. ~Has(d, "randomClass")
        BY <2>2, <2>4 DEF Has
      <4>2. DOMAIN d = {"tag", "ns", "attrib", "text", "servlet"}
        BY <2>4 DEF IsElement
      <4> QED BY <1>2, <2>4, <4>1, <4>2 DEF check_session_manager, iter, renamed
    <3>2. Pop(attrib, gone) = attrib
      <4>1. DOMAIN attrib \ gone = DOMAIN attrib
        BY <2>2
      <4>2. attrib = [a \in DOMAIN attrib |-> attrib[a]]
        BY <2>2
      <4> QED BY <4>1, <4>2 DEF Pop, Restrict
    <3>3. /\ IsElement([d EXCEPT !.attrib = attrib])
          /\ [d EXCEPT !.attrib = attrib].attrib = attrib
          /\ [d EXCEPT !.attrib = attrib].tag = d.tag
          /\ [d EXCEPT !.attrib = attrib].ns = d.ns
          /\ [d EXCEPT !.attrib = attrib].text = d.text
          /\ [d EXCEPT !.attrib = attrib].servlet = d.servlet
      <4>1. attrib = [a \in DOMAIN attrib |-> attrib[a]]
        BY <2>2
      <4> QED BY <2>4, <4>1, ChangedElement
    <3>4. [d EXCEPT !.attrib = attrib] = d
      BY <2>4, <3>3, SameElement
    <3> QED BY <3>1, <3>2, <3>4
  <2>6. Removed(fname, e.tag) = gone
    BY DEF Removed, Xml
  <2>7. MigratedElement(fname, e, d)
    <3> HIDE DEF d
    <3>1. ASSUME NEW attr \in DOMAIN e.attrib \cup DOMAIN d.attrib
          PROVE  CASE attr \in Removed(fname, e.tag) -> ~Has(d, attr)
                   [] attr = "secureRandomClass" /\ "randomClass" \in Removed(fname, e.tag) ->
                        /\ Has(d, attr)
                        /\ d.attrib[attr] = e.attrib[IF Has(e, "randomClass")
                                                       THEN "randomClass" ELSE attr]
                   [] attr = "rolename" /\ e.tag = "role" /\ fname = "tomcat-users.xml" ->
                        /\ Has(e, attr) /\ Has(d, attr)
                        /\ d.attrib[attr] = IF e.attrib[attr] \in DOMAIN NewRole
                                              THEN NewRole[e.attrib[attr]] ELSE e.attrib[attr]
                   [] UserRoles(fname, e, attr) -> TRUE
                   [] OTHER -> Has(e, attr) /\ Has(d, attr) /\ d.attrib[attr] = e.attrib[attr]
      <4>1. CASE attr \in gone
        BY <2>2, <2>4, <2>6, <4>1 DEF Has
      <4>2. CASE attr = "secureRandomClass"
        BY <2>2, <2>3, <2>4, <2>6, <3>1, <4>2 DEF Has
      <4>3. CASE attr \notin gone /\ attr # "secureRandomClass"
        BY <2>2, <2>3, <2>4, <2>6, <3>1, <4>3 DEF Has
      <4> QED BY <4>1, <4>2, <4>3
    <3> QED BY <1>2, <2>4, <3>1 DEF MigratedElement
  <2> QED BY <2>4, <2>5, <2>7 DEF Corrects
<1> QED BY <1>0, <1>1, <1>2

(* Connectors and contexts lose an attribute.                              *)
LEMMA AttributePopped ==
    ASSUME NEW fname \in Xml, NEW e, IsElement(e), NEW attr, ~e.ns,
           Removed(fname, e.tag) = {attr}, attr # "randomClass", e.tag # "role"
    PROVE  LET d == [e EXCEPT !.attrib = Pop(@, {attr})]
           IN  /\ Corrects(fname, e, d) /\ d.tag = e.tag /\ d.ns = e.ns
               /\ [d EXCEPT !.attrib = Pop(@, {attr})] = d
<1> DEFINE attrib == Pop(e.attrib, {attr})
           d == [e EXCEPT !.attrib = Pop(@, {attr})]
<1>0. DOMAIN e = {"tag", "ns", "attrib", "text", "servlet"}
  BY DEF IsElement
<1>1. d = [e EXCEPT !.attrib = attrib]
  BY <1>0
<1>2. /\ attrib = [a \in DOMAIN e.attrib \ {attr} |-> e.attrib[a]]
      /\ DOMAIN attrib = DOMAIN e.attrib \ {attr}
  BY Attributes
<1> HIDE DEF attrib, d
<1>3. /\ IsElement(d) /\ d.attrib = attrib /\ d.tag = e.tag /\ d.ns = e.ns
      /\ d.text = e.text /\ d.servlet = e.servlet
  BY <1>1, <1>2, ChangedElement
<1>4. Pop(attrib, {attr}) = attrib
  <2>1. DOMAIN attrib \ {attr} = DOMAIN attrib
    BY <1>2
  <2>2. attrib = [a \in DOMAIN attrib |-> attrib[a]]
    BY <1>2
  <2> QED BY <2>1, <2>2 DEF Pop, Restrict
<1>5. [d EXCEPT !.attrib = Pop(@, {attr})] = d
  <2>1. DOMAIN d = {"tag", "ns", "attrib", "text", "servlet"}
    BY <1>3 DEF IsElement
  <2>2. [d EXCEPT !.attrib = Pop(@, {attr})] = [d EXCEPT !.attrib = attrib]
    BY <1>3, <1>4, <2>1
  <2>3. [d EXCEPT !.attrib = attrib] = d
    <3>1. attrib = [a \in DOMAIN attrib |-> attrib[a]]
      BY <1>2
    <3>2. /\ IsElement([d EXCEPT !.attrib = attrib])
          /\ [d EXCEPT !.attrib = attrib].attrib = attrib
          /\ [d EXCEPT !.attrib = attrib].tag = d.tag
          /\ [d EXCEPT !.attrib = attrib].ns = d.ns
          /\ [d EXCEPT !.attrib = attrib].text = d.text
          /\ [d EXCEPT !.attrib = attrib].servlet = d.servlet
      BY <1>3, <3>1, ChangedElement
    <3> QED BY <1>3, <3>2, SameElement
  <2> QED BY <2>2, <2>3
<1>6. MigratedElement(fname, e, d)
  <2>1. "randomClass" \notin Removed(fname, e.tag)
    OBVIOUS
  <2> QED BY <1>2, <1>3, <2>1 DEF MigratedElement, Has, Xml
<1> QED BY <1>3, <1>5, <1>6 DEF Corrects, d

LEMMA ConnectorCorrected ==
    ASSUME NEW e, IsElement(e), e.tag = "Connector"
    PROVE  /\ Corrects("server.xml", e, check_session_cookie_connector(e))
           /\ check_session_cookie_connector(e).tag = "Connector"
           /\ check_session_cookie_connector(check_session_cookie_connector(e))
                = check_session_cookie_connector(e)
<1>1. CASE e.ns
  <2>1. check_session_cookie_connector(e) = e
    BY <1>1 DEF check_session_cookie_connector, iter
  <2> QED BY <1>1, <2>1, AttributesKept
<1>2. CASE ~e.ns
  <2>1. Removed("server.xml", e.tag) = {"emptySessionPath"}
    BY DEF Removed
  <2>2. PICK d : d = [e EXCEPT !.attrib = Pop(@, {"emptySessionPath"})]
    OBVIOUS
  <2>3. /\ Corrects("server.xml", e, d) /\ d.tag = e.tag /\ d.ns = e.ns
        /\ [d EXCEPT !.attrib = Pop(@, {"emptySessionPath"})] = d
    BY <1>2, <2>1, <2>2, AttributePopped DEF Xml
  <2>4. check_session_cookie_connector(e) = d /\ check_session_cookie_connector(d) = d
    BY <1>2, <2>2, <2>3 DEF check_session_cookie_connector, iter
  <2> QED BY <2>3, <2>4
<1> QED BY <1>1, <1>2

LEMMA ContextCorrected ==
    ASSUME NEW fname \in Xml, NEW e, IsElement(e), e.tag = "Context"
    PROVE  /\ Corrects(fname, e, check_url_rewriting(e))
           /\ check_url_rewriting(e).tag = "Context"
           /\ check_url_rewriting(check_url_rewriting(e)) = check_url_rewriting(e)
<1>1. CASE e.ns
  <2>1. check_url_rewriting(e) = e
    BY <1>1 DEF check_url_rewriting, iter
  <2> QED BY <1>1, <2>1, AttributesKept
<1>2. CASE ~e.ns
  <2>1. Removed(fname, e.tag) = {"disableURLRewriting"}
    BY DEF Removed, Xml
  <2>2. PICK d : d = [e EXCEPT !.attrib = Pop(@, {"disableURLRewriting"})]
    OBVIOUS
  <2>3. /\ Corrects(fname, e, d) /\ d.tag = e.tag /\ d.ns = e.ns
        /\ [d EXCEPT !.attrib = Pop(@, {"disableURLRewriting"})] = d
    <3>1. "disableURLRewriting" # "randomClass" /\ e.tag # "role"
      OBVIOUS
    <3> QED BY <1>2, <2>1, <2>2, <3>1, AttributePopped
  <2>4. check_url_rewriting(e) = d /\ check_url_rewriting(d) = d
    BY <1>2, <2>2, <2>3 DEF check_url_rewriting, iter
  <2> QED BY <2>3, <2>4
<1> QED BY <1>1, <1>2

LEMMA JspCorrected ==
    ASSUME NEW fname \in Xml, NEW e, IsElement(e),
           e.tag \notin {"Manager", "Context"}, fname = "server.xml" => e.tag # "Connector"
    PROVE  /\ Corrects(fname, e, check_jsp_compiler(e))
           /\ check_jsp_compiler(e).tag = e.tag
           /\ check_jsp_compiler(check_jsp_compiler(e)) = check_jsp_compiler(e)
<1> DEFINE d == check_jsp_compiler(e)
<1>1. Removed(fname, e.tag) = {} /\ fname # "tomcat-users.xml"
  BY DEF Removed, Xml
<1>2. CASE d = e
  BY <1>1, <1>2, AttributesKept
<1>3. CASE d # e
  <2>1. /\ e.servlet /\ e.tag = "param-name" /\ e.text = "genStrAsCharArray"
        /\ d = [e EXCEPT !.text = "getStringAsCharArray"]
    BY <1>3 DEF check_jsp_compiler, iter_ignore_ns
  <2> HIDE DEF d
  <2>2. /\ IsElement(d) /\ d.attrib = e.attrib /\ d.tag = e.tag /\ d.ns = e.ns
        /\ d.text = "getStringAsCharArray" /\ d.servlet = e.servlet
    <3>1. PICK new : new = "getStringAsCharArray"
      OBVIOUS
    <3>2. d = [e EXCEPT !.text = new]
      BY <2>1, <3>1
    <3>3. /\ IsElement([e EXCEPT !.text = new])
          /\ [e EXCEPT !.text = new].attrib = e.attrib
          /\ [e EXCEPT !.text = new].tag = e.tag
          /\ [e EXCEPT !.text = new].ns = e.ns
          /\ [e EXCEPT !.text = new].text = new
          /\ [e EXCEPT !.text = new].servlet = e.servlet
      BY ChangedElement
    <3> QED BY <3>1, <3>2, <3>3
  <2>3. check_jsp_compiler(d) = d
    BY <2>2 DEF check_jsp_compiler
  <2>4. JspName(fname, e)
    BY <2>1 DEF JspName, Xml
  <2> QED BY <1>1, <2>1, <2>2, <2>3, <2>4, AttributesKept DEF d
<1> QED BY <1>2, <1>3

(* At most one of the checks looks at an element.                          *)
LEMMA OneCheck ==
    ASSUME NEW e
    PROVE  /\ e.tag # "Manager" => check_session_manager(e) = e
           /\ e.tag # "Connector" => check_session_cookie_connector(e) = e
           /\ e.tag # "Context" => check_url_rewriting(e) = e
           /\ e.tag # "param-name" => check_jsp_compiler(e) = e
BY DEF check_session_manager, check_session_cookie_connector, check_url_rewriting,
       check_jsp_compiler, iter, iter_ignore_ns

LEMMA ElementCorrected ==
    ASSUME NEW fname, NEW e, IsElement(e)
    PROVE  /\ Corrects(fname, e, CorrectedElement(fname, e))
           /\ CorrectedElement(fname, CorrectedElement(fname, e)) = CorrectedElement(fname, e)
<1>1. CASE fname = "tomcat-users.xml"
  BY <1>1, UsersCorrected DEF CorrectedElement
<1>2. CASE fname = "server.xml"
  <2>1. \A d : CorrectedElement(fname, d) =
                 check_jsp_compiler(check_url_rewriting(check_session_manager(
                     check_session_cookie_connector(d))))
    BY <1>2 DEF CorrectedElement
  <2>2. CASE e.tag = "Connector"
    <3>1. \A d : d.tag = "Connector" /\
            check_session_cookie_connector(d).tag = "Connector" =>
               CorrectedElement(fname, d) = check_session_cookie_connector(d)
      BY <2>1, OneCheck
    <3> QED BY <1>2, <2>2, <3>1, ConnectorCorrected
  <2>3. CASE e.tag = "Manager"
    <3>1. \A d : d.tag = "Manager" /\ check_session_manager(d).tag = "Manager" =>
            CorrectedElement(fname, d) = check_session_manager(d)
      BY <2>1, OneCheck
    <3> QED BY <1>2, <2>3, <3>1, ManagerCorrected DEF Xml
  <2>4. CASE e.tag = "Context"
    <3>1. \A d : d.tag = "Context" /\ check_url_rewriting(d).tag = "Context" =>
            CorrectedElement(fname, d) = check_url_rewriting(d)
      BY <2>1, OneCheck
    <3> QED BY <1>2, <2>4, <3>1, ContextCorrected DEF Xml
  <2>5. CASE e.tag \notin {"Connector", "Manager", "Context"}
    <3>1. \A d : d.tag = e.tag => CorrectedElement(fname, d) = check_jsp_compiler(d)
      BY <2>1, <2>5, OneCheck
    <3> QED BY <1>2, <2>5, <3>1, JspCorrected DEF Xml
  <2> QED BY <2>2, <2>3, <2>4, <2>5
<1>3. CASE fname = "context.xml"
  <2>1. \A d : CorrectedElement(fname, d) =
                 check_jsp_compiler(check_url_rewriting(check_session_manager(d)))
    BY <1>3 DEF CorrectedElement
  <2>2. CASE e.tag = "Manager"
    <3>1. \A d : d.tag = "Manager" /\ check_session_manager(d).tag = "Manager" =>
            CorrectedElement(fname, d) = check_session_manager(d)
      BY <2>1, OneCheck
    <3> QED BY <1>3, <2>2, <3>1, ManagerCorrected DEF Xml
  <2>3. CASE e.tag = "Context"
    <3>1. \A d : d.tag = "Context" /\ check_url_rewriting(d).tag = "Context" =>
            CorrectedElement(fname, d) = check_url_rewriting(d)
      BY <2>1, OneCheck
    <3> QED BY <1>3, <2>3, <3>1, ContextCorrected DEF Xml
  <2>4. CASE e.tag \notin {"Manager", "Context"}
    <3>1. \A d : d.tag = e.tag => CorrectedElement(fname, d) = check_jsp_compiler(d)
      BY <2>1, <2>4, OneCheck
    <3> QED BY <1>3, <2>4, <3>1, JspCorrected DEF Xml
  <2> QED BY <2>2, <2>3, <2>4
<1>4. CASE fname \notin {"tomcat-users.xml", "server.xml", "context.xml"}
  <2>1. \A d : CorrectedElement(fname, d) = d
    BY <1>4 DEF CorrectedElement
  <2>2. Removed(fname, e.tag) = {}
    BY <1>4 DEF Removed
  <2>3. Corrects(fname, e, e)
    BY <1>4, <2>2, AttributesKept
  <2> QED BY <2>1, <2>3
<1> QED BY <1>1, <1>2, <1>3, <1>4

(* A tree is corrected once: what the script finds corrected it leaves.    *)
LEMMA TreeCorrected ==
    ASSUME NEW fname, NEW tree, IsTree(tree)
    PROVE  /\ IsTree(Corrected(fname, tree))
           /\ Corrected(fname, Corrected(fname, tree)) = Corrected(fname, tree)
           /\ Migrated(fname, tree, Corrected(fname, tree))
<1>1. \A i \in DOMAIN tree :
        /\ IsElement(CorrectedElement(fname, tree[i]))
        /\ MigratedElement(fname, tree[i], CorrectedElement(fname, tree[i]))
        /\ CorrectedElement(fname, CorrectedElement(fname, tree[i])) = CorrectedElement(fname, tree[i])
  BY ElementCorrected DEF IsTree, Corrects
<1> QED BY <1>1 DEF Corrected, Migrated, IsTree

(* Of a file: what the places in the old directory hold.                   *)
Main(f) == disk[Old("")][f]
Saved(f) == disk[Old(".rpmsave")][f]
Backup(f) == disk[Old(".orig_backup")][f]

(* The file as it has to reach the new directory.                          *)
Due(f) == Converted(f, original[f])
Wanted(f) == original[f] # NoFile /\ ~original[f].trailing

Dirs == {NoDir} \cup SUBSET {"user", "pkg", "part", "nested"}

(* What the user wrote, its correction, or a part of it.                   *)
Had(f) == IF original[f] = NoFile THEN {} ELSE Intact(f) \cup {Torn}
Contents == {NoFile, Default} \cup UNION {Had(f) : f \in File}

Types ==
    /\ disk \in [Place -> [File -> Contents]]
    /\ \A f \in File :
         /\ original[f] \in {NoFile} \cup Document[f]
         /\ \A s \in Suffix : /\ disk[Old(s)][f] \in {NoFile} \cup Had(f)
                              /\ disk[New(s)][f] \in {NoFile, Default} \cup Had(f)
         /\ trees[f] \in {NoTree} \cup (Had(f) \ {Torn})
    /\ owner \in BOOLEAN /\ tomcat \in BOOLEAN /\ status \in BOOLEAN
    /\ apps \in [old : Dirs, new : Dirs, backup : Dirs]
    /\ phase \in Phases
    /\ todo \subseteq File /\ cur \in File \cup {NoFile}
    /\ crashes \in 0..MaxCrashes

(* While tomcat6 is installed nothing has been saved under another name.   *)
Unsaved ==
    owner => \A f \in File : Saved(f) = NoFile /\ disk[New(".rpmsave")][f] = NoFile

Rewriting == {"rewrite", "backup", "write", "writing"}

(* A file the loop has still to write: it is complete, or it has the       *)
(* suffix .rpmsave.                                                        *)
Whole(f) == Main(f) # Torn /\ (Main(f) = NoFile => Saved(f) \in Intact(f))

Loop ==
    /\ phase = "correct" => \A f \in File :
          /\ Source(f) # Torn
          /\ trees[f] = IF Source(f) = NoFile THEN NoTree ELSE Source(f)
    /\ phase \in Rewriting => \A f \in todo :
          /\ original[f] # NoFile /\ trees[f] \in Intact(f)
          /\ ~original[f].trailing => trees[f] = Due(f)
    /\ phase \in {"rewrite", "backup"} => \A f \in todo : Whole(f)
    /\ phase \in {"write", "writing"} =>
          /\ \A f \in todo \ {cur} : Whole(f)
          /\ Backup(cur) \in Intact(cur) \/ Saved(cur) \in Intact(cur)
    /\ phase \in Rewriting \ {"rewrite"} => cur \in todo
    /\ phase = "backup" => Main(cur) # NoFile

(* Somewhere there is a complete copy, and one that nothing in the old     *)
(* directory is going to be copied over.                                   *)
Kept ==
    \A f \in File : original[f] # NoFile =>
        \E s \in Suffix :
            \/ disk[Old(s)][f] \in Intact(f)
            \/ disk[Old(s)][f] = NoFile /\ disk[New(s)][f] \in Intact(f)

IsCopied(f) == \A s \in Suffix : disk[Old(s)][f] # NoFile => disk[New(s)][f] = disk[Old(s)][f]

Copied ==
    /\ phase = "copying" => \A f \in File \ todo : IsCopied(f)
    /\ phase = "removing" => \A f \in File : IsCopied(f)

(* The loop is done with a file that is corrected, or gone.                *)
Gone(f) == Main(f) = NoFile /\ Saved(f) = NoFile
Moving == {"webapps", "move", "copy", "delete", "configs", "copying"}

Arrived ==
    \A f \in File : Wanted(f) =>
        /\ (phase \in Rewriting /\ f \notin todo) \/ phase \in Moving => Main(f) = Due(f) \/ Gone(f)
        /\ phase = "removing" \/ Gone(f) => disk[New("")][f] = Due(f)

(* What mv_webapps is in the middle of.                                    *)
Apps ==
    /\ phase \in {"move", "copy", "delete"} => apps.backup # NoDir
    /\ phase = "move" => apps.new = NoDir
    /\ phase = "copy" => apps.new = {"part"}
    /\ phase = "delete" => apps.old = {"part"}

IInv == Types /\ Unsaved /\ Loop /\ Kept /\ Copied /\ Arrived /\ Apps

----------------------------------------------------------------------------
(* Files and places                                                        *)

(* The complete forms of a file are no marks, and one correction makes of  *)
(* each of them the same.                                                  *)
LEMMA IntactFacts ==
    ASSUME NEW f \in File, original[f] \in Document[f]
    PROVE  /\ Intact(f) = {original[f], Due(f)}
           /\ \A t \in Intact(f) : /\ t \notin {NoFile, Torn, Default, NoTree}
                                   /\ t.trailing = original[f].trailing
                                   /\ Converted(f, t) = Due(f)
           /\ Had(f) = Intact(f) \cup {Torn}
           /\ original[f].trailing \in BOOLEAN
<1> DEFINE doc == original[f]
<1>1. /\ doc = [tree |-> doc.tree, trailing |-> doc.trailing]
      /\ IsTree(doc.tree) /\ doc.trailing \in BOOLEAN
      /\ {doc, Converted(f, doc)} \cap {NoFile, Torn, Default, NoTree} = {}
  BY TomcatAssumption
<1>2. PICK tree, trailing : doc = [tree |-> tree, trailing |-> trailing]
  BY <1>1
<1>3. IsTree(tree)
  BY <1>1, <1>2
<1>4. Converted(f, doc) = [tree |-> Corrected(f, tree), trailing |-> trailing]
  BY <1>2 DEF Converted
<1>5. Converted(f, Converted(f, doc)) = Converted(f, doc)
  <2>1. Converted(f, Converted(f, doc)) =
          [tree |-> Corrected(f, Corrected(f, tree)), trailing |-> trailing]
    <3>1. PICK new : new = Converted(f, doc)
      OBVIOUS
    <3>2. Converted(f, new) = [new EXCEPT !.tree = Corrected(f, new.tree)]
      BY <1>4, <3>1 DEF Converted
    <3>3. new = [tree |-> Corrected(f, tree), trailing |-> trailing]
      BY <1>4, <3>1
    <3> HIDE DEF Converted
    <3>4. [new EXCEPT !.tree = Corrected(f, new.tree)]
            = [tree |-> Corrected(f, Corrected(f, tree)), trailing |-> trailing]
      BY <3>3
    <3> QED BY <3>1, <3>2, <3>4
  <2>2. Corrected(f, Corrected(f, tree)) = Corrected(f, tree)
    BY <1>3, TreeCorrected
  <2> QED BY <1>4, <2>1, <2>2
<1>6. Converted(f, doc).trailing = doc.trailing
  BY <1>2, <1>4
<1> QED BY <1>1, <1>5, <1>6 DEF Intact, Due, Had

LEMMA Places ==
    /\ \A s \in Suffix : Old(s) \in Place /\ New(s) \in Place
    /\ \A s, t \in Suffix : Old(s) # New(t) /\ (Old(s) = Old(t) => s = t) /\ (New(s) = New(t) => s = t)
    /\ \A p \in Place : \E s \in Suffix : p = Old(s) \/ p = New(s)
    /\ "" \in Suffix /\ ".rpmsave" \in Suffix /\ ".orig_backup" \in Suffix
<1>1. \A s \in Suffix : Old(s) \in Place /\ New(s) \in Place
  BY DEF Place, Old, New
<1>2. \A s, t \in Suffix :
        Old(s) # New(t) /\ (Old(s) = Old(t) => s = t) /\ (New(s) = New(t) => s = t)
  BY DEF Old, New
<1>3. \A p \in Place : \E s \in Suffix : p = Old(s) \/ p = New(s)
  BY DEF Place, Old, New
<1> QED BY <1>1, <1>2, <1>3 DEF Suffix

(* What a change of one file at one place does.                            *)
LEMMA PutEffect ==
    ASSUME disk \in [Place -> [File -> Contents]], NEW p \in Place, NEW f \in File, NEW c, Put(p, f, c)
    PROVE  /\ \A q \in Place, g \in File : disk'[q][g] = IF q = p /\ g = f THEN c ELSE disk[q][g]
           /\ c \in Contents => disk' \in [Place -> [File -> Contents]]
BY DEF Put

(* Where the files stay as they are, so does what is said of them.         *)
LEMMA FilesFrame ==
    ASSUME UNCHANGED <<original, disk>>
    PROVE  /\ Contents' = Contents
           /\ \A f : /\ Intact(f)' = Intact(f) /\ Had(f)' = Had(f)
                     /\ Due(f)' = Due(f) /\ Wanted(f)' = Wanted(f)
                     /\ Main(f)' = Main(f) /\ Saved(f)' = Saved(f) /\ Backup(f)' = Backup(f)
                     /\ Source(f)' = Source(f) /\ Whole(f)' = Whole(f)
                     /\ Gone(f)' = Gone(f) /\ IsCopied(f)' = IsCopied(f)
           /\ Kept' = Kept
<1>1. \A f : /\ Intact(f)' = Intact(f) /\ Had(f)' = Had(f)
             /\ Due(f)' = Due(f) /\ Wanted(f)' = Wanted(f)
             /\ Main(f)' = Main(f) /\ Saved(f)' = Saved(f) /\ Backup(f)' = Backup(f)
             /\ Source(f)' = Source(f)
  BY DEF Intact, Had, Due, Wanted, Main, Saved, Backup, Source, Exists
<1>2. \A f : Whole(f)' = Whole(f) /\ Gone(f)' = Gone(f) /\ IsCopied(f)' = IsCopied(f)
  BY <1>1 DEF Whole, Gone, IsCopied
<1>3. Contents' = Contents
  BY <1>1 DEF Contents
<1>4. Kept' = Kept
  BY <1>1 DEF Kept
<1> QED BY <1>1, <1>2, <1>3, <1>4

(* The types of what stays.                                                *)
LEMMA TypesFrame ==
    ASSUME Types, UNCHANGED <<original, disk>>,
           \A f \in File : trees'[f] \in {NoTree} \cup (Had(f) \ {Torn}),
           owner' \in BOOLEAN, tomcat' \in BOOLEAN, status' \in BOOLEAN,
           apps' \in [old : Dirs, new : Dirs, backup : Dirs], phase' \in Phases,
           todo' \subseteq File, cur' \in File \cup {NoFile}, crashes' \in 0..MaxCrashes
    PROVE  Types'
<1>1. disk' \in [Place -> [File -> Contents']]
  BY FilesFrame DEF Types
<1>2. \A f \in File :
        /\ original'[f] \in {NoFile} \cup Document[f]
        /\ \A s \in Suffix : /\ disk'[Old(s)][f] \in {NoFile} \cup Had(f)'
                             /\ disk'[New(s)][f] \in {NoFile, Default} \cup Had(f)'
        /\ trees'[f] \in {NoTree} \cup (Had(f)' \ {Torn})
  BY FilesFrame DEF Types
<1> QED BY <1>1, <1>2 DEF Types, Dirs

----------------------------------------------------------------------------
LEMMA InitIInv == Init => IInv
<1> SUFFICES ASSUME Init PROVE IInv
  OBVIOUS
<1> DEFINE place == Old(IF owner THEN "" ELSE ".rpmsave")
<1>1. /\ \A f \in File : original[f] \in {NoFile} \cup Document[f]
      /\ owner \in BOOLEAN /\ tomcat = FALSE /\ status = FALSE /\ crashes = 0
      /\ disk = [p \in Place |-> [f \in File |-> IF p = place THEN original[f] ELSE NoFile]]
      /\ trees = [f \in File |-> NoTree]
      /\ phase = "off" /\ todo = {} /\ cur = NoFile
      /\ apps \in {[old |-> o, new |-> NoDir, backup |-> NoDir] : o \in {NoDir, {"user"}}}
  BY DEF Init
<1>2. /\ place \in {Old(""), Old(".rpmsave")} /\ (owner => place = Old(""))
      /\ \A s \in Suffix, f \in File :
           /\ disk[Old(s)][f] = IF Old(s) = place THEN original[f] ELSE NoFile
           /\ disk[New(s)][f] = NoFile
  <2>1. place \in {Old(""), Old(".rpmsave")} /\ (owner => place = Old(""))
    BY <1>1
  <2> HIDE DEF place
  <2>2. \A s \in Suffix : Old(s) \in Place /\ New(s) \in Place /\ New(s) # place
    BY <2>1, Places
  <2> QED BY <1>1, <2>1, <2>2
<1> HIDE DEF place
<1>3. \A f \in File : original[f] # NoFile =>
        original[f] \in Had(f) /\ original[f] \in Intact(f)
  BY DEF Had, Intact
<1>4. Types
  <2>1. disk \in [Place -> [File -> Contents]]
    <3>1. \A f \in File : original[f] \in Contents /\ NoFile \in Contents
      BY <1>3 DEF Contents
    <3> QED BY <1>1, <3>1
  <2>2. apps \in [old : Dirs, new : Dirs, backup : Dirs]
    BY <1>1 DEF Dirs
  <2>3. crashes \in 0..MaxCrashes
    BY <1>1, TomcatAssumption
  <2>4. ASSUME NEW f \in File
        PROVE  /\ original[f] \in {NoFile} \cup Document[f]
               /\ \A s \in Suffix : /\ disk[Old(s)][f] \in {NoFile} \cup Had(f)
                                    /\ disk[New(s)][f] \in {NoFile, Default} \cup Had(f)
               /\ trees[f] \in {NoTree} \cup (Had(f) \ {Torn})
    <3>1. \A s \in Suffix : disk[Old(s)][f] \in {NoFile, original[f]} /\ disk[New(s)][f] = NoFile
      BY <1>2
    <3>2. trees[f] = NoTree
      BY <1>1
    <3> QED BY <1>1, <1>3, <3>1, <3>2
  <2>5. phase \in Phases
    BY <1>1 DEF Phases
  <2> QED BY <1>1, <2>1, <2>2, <2>3, <2>4, <2>5 DEF Types
<1>5. Kept
  <2> SUFFICES ASSUME NEW f \in File, original[f] # NoFile
               PROVE  \E s \in Suffix : disk[Old(s)][f] \in Intact(f)
    BY DEF Kept
  <2>1. CASE place = Old("")
    BY <1>2, <1>3, <2>1, Places
  <2>2. CASE place = Old(".rpmsave")
    BY <1>2, <1>3, <2>2, Places
  <2> QED BY <1>2, <2>1, <2>2
<1>6. Unsaved
  BY <1>2, Places DEF Unsaved, Saved
<1>7. Arrived
  <2> SUFFICES ASSUME NEW f \in File, Wanted(f) PROVE ~Gone(f)
    BY <1>1 DEF Arrived, Rewriting, Moving
  <2> QED BY <1>2, Places DEF Gone, Main, Saved, Wanted
<1> QED BY <1>1, <1>4, <1>5, <1>6, <1>7 DEF IInv, Loop, Copied, Apps, Rewriting

----------------------------------------------------------------------------
(* Steps that leave the files alone                                        *)

(* What such a step leaves to be shown, by the phase it leads to.          *)
LEMMA Quiet ==
    ASSUME IInv, Types', UNCHANGED <<original, disk, owner>>
    PROVE  /\ Unsaved' /\ Kept'
           /\ phase' \notin Rewriting \cup {"correct"} => Loop'
           /\ phase' \notin {"copying", "removing"} => Copied'
           /\ phase' \notin Rewriting \cup Moving \cup {"removing"} => Arrived'
           /\ phase' \notin {"move", "copy", "delete"} => Apps'
<1>1. Unsaved'
  BY FilesFrame DEF IInv, Unsaved
<1>2. Kept'
  BY FilesFrame DEF IInv
<1>3. phase' \notin Rewriting \cup {"correct"} => Loop'
  BY DEF Loop, Rewriting
<1>4. phase' \notin {"copying", "removing"} => Copied'
  BY DEF Copied
<1>5. phase' \notin Rewriting \cup Moving \cup {"removing"} => Arrived'
  BY FilesFrame DEF IInv, Arrived
<1>6. phase' \notin {"move", "copy", "delete"} => Apps'
  BY DEF Apps
<1> QED BY <1>1, <1>2, <1>3, <1>4, <1>5, <1>6

(* The script starts, or the power goes.                                   *)
LEMMA StartKeeps ==
    ASSUME IInv, Start \/ PowerLoss
    PROVE  IInv'
<1>1. /\ UNCHANGED <<original, disk, owner, tomcat, apps>> /\ phase' \in {"off", "parse"}
      /\ trees' = trees \/ trees' = [f \in File |-> NoTree]
      /\ todo' \subseteq File /\ cur' \in File \cup {NoFile} /\ status' \in BOOLEAN
      /\ crashes' \in 0..MaxCrashes
  <2>1. crashes \in 0..MaxCrashes /\ MaxCrashes \in Nat
    BY TomcatAssumption DEF IInv, Types
  <2>2. CASE Start
    BY <2>1, <2>2 DEF Start, machine, memory, IInv, Types
  <2>3. CASE PowerLoss
    <3>1. crashes' \in 0..MaxCrashes
      BY <2>1, <2>3 DEF PowerLoss
    <3> QED BY <2>3, <3>1 DEF PowerLoss, machine
  <2> QED BY <2>2, <2>3
<1>2. Types'
  <2>1. \A f \in File : trees'[f] \in {NoTree} \cup (Had(f) \ {Torn})
    BY <1>1 DEF IInv, Types
  <2>2. phase' \in Phases
    BY <1>1 DEF Phases
  <2> QED BY <1>1, <2>1, <2>2, TypesFrame DEF IInv, Types
<1>3. phase' \notin Rewriting \cup Moving \cup {"correct", "removing"}
  BY <1>1 DEF Rewriting, Moving
<1>4. Unsaved' /\ Kept' /\ Loop' /\ Copied' /\ Arrived' /\ Apps'
  BY <1>1, <1>2, <1>3, Quiet DEF Moving
<1> QED BY <1>2, <1>4 DEF IInv

LEMMA ParseFilesKeeps ==
    ASSUME IInv, ParseFiles
    PROVE  IInv'
<1>0. Types
  BY DEF IInv
<1>1. /\ UNCHANGED <<original, disk, owner, tomcat, apps, todo, cur, status, crashes>>
      /\ \/ phase' = "died" /\ trees' = trees
         \/ /\ phase' = "correct"
            /\ \A f \in File : Source(f) # Torn
            /\ trees' = [f \in File |-> IF Source(f) = NoFile THEN NoTree ELSE Source(f)]
  BY DEF ParseFiles, machine
<1>2. \A f \in File : Source(f) \in {NoFile} \cup Had(f)
  BY <1>0, Places DEF Types, Source
<1>3. Types'
  <2>1. \A f \in File : trees'[f] \in {NoTree} \cup (Had(f) \ {Torn})
    BY <1>0, <1>1, <1>2 DEF Types
  <2>2. phase' \in Phases
    BY <1>1 DEF Phases, Ended
  <2> QED BY <1>0, <1>1, <2>1, <2>2, TypesFrame DEF Types
<1>4. phase' \notin Rewriting \cup Moving \cup {"removing"}
  BY <1>1 DEF Rewriting, Moving
<1>5. phase' = "correct" => Loop'
  BY <1>1, FilesFrame DEF Loop, Rewriting
<1>6. Unsaved' /\ Kept' /\ Loop' /\ Copied' /\ Arrived' /\ Apps'
  BY <1>1, <1>3, <1>4, <1>5, Quiet DEF Moving
<1> QED BY <1>3, <1>6 DEF IInv

(* What exists has been parsed: it is complete and gets corrected.         *)
LEMMA CheckFilesKeeps ==
    ASSUME IInv, CheckFiles
    PROVE  IInv'
<1>0. Types /\ Loop /\ Arrived
  BY DEF IInv
<1>1. /\ UNCHANGED <<original, disk, owner, tomcat, apps, cur, status, crashes>>
      /\ phase = "correct"
      /\ \/ phase' = "died" /\ UNCHANGED <<trees, todo>>
         \/ /\ phase' = "rewrite"
            /\ trees' = [f \in File |-> Fixed(f)]
            /\ todo' = {f \in File : trees[f] # NoTree}
  BY DEF CheckFiles, machine
<1>2. ASSUME NEW f \in File, trees[f] # NoTree
      PROVE  /\ original[f] # NoFile /\ Fixed(f) \in Intact(f)
             /\ ~original[f].trailing => Fixed(f) = Due(f)
             /\ Whole(f)
  <2>1. /\ original[f] \in Document[f] /\ trees[f] \in Intact(f)
        /\ trees[f] = Source(f) /\ Source(f) \notin {NoFile, Torn}
    <3>1. trees[f] \in Had(f) \ {Torn} /\ original[f] \in {NoFile} \cup Document[f]
      BY <1>0, <1>2 DEF Types
    <3>2. trees[f] = Source(f) /\ Source(f) \notin {NoFile, Torn}
      BY <1>0, <1>1, <1>2 DEF Loop
    <3> QED BY <3>1, <3>2 DEF Had
  <2>2. original[f] # NoFile
    BY <2>1, IntactFacts DEF Intact
  <2>3. /\ trees[f].trailing = original[f].trailing /\ Converted(f, trees[f]) = Due(f)
        /\ Due(f) \in Intact(f)
    BY <2>1, IntactFacts
  <2>4. Fixed(f) = IF ~original[f].trailing THEN Due(f) ELSE trees[f]
    BY <1>2, <2>3 DEF Fixed, Visible
  <2>5. Whole(f)
    <3>1. NoFile # Torn
      BY TomcatAssumption
    <3> QED BY <2>1, <3>1 DEF Whole, Source, Main, Saved, Exists
  <2> QED BY <2>1, <2>2, <2>3, <2>4, <2>5
<1>3. ASSUME NEW f \in File, trees[f] = NoTree
      PROVE  Gone(f) /\ Fixed(f) = NoTree
  <2>1. Source(f) = NoFile
    <3>1. Source(f) \in {NoFile} \cup Had(f)
      BY <1>0, Places DEF Types, Source
    <3>2. Source(f) # NoFile => Source(f) \in Intact(f) /\ original[f] \in Document[f]
      BY <1>0, <1>1, <3>1 DEF Loop, Had, Types
    <3>3. trees[f] = IF Source(f) = NoFile THEN NoTree ELSE Source(f)
      BY <1>0, <1>1 DEF Loop
    <3> QED BY <1>3, <3>2, <3>3, IntactFacts
  <2> QED BY <1>3, <2>1 DEF Gone, Main, Saved, Source, Exists, Fixed, Visible
<1>4. Types'
  <2>1. ASSUME NEW f \in File PROVE trees'[f] \in {NoTree} \cup (Had(f) \ {Torn})
    <3>1. CASE trees' = trees
      BY <1>0, <3>1 DEF Types
    <3>2. CASE trees' = [g \in File |-> Fixed(g)] /\ trees[f] = NoTree
      BY <1>3, <3>2
    <3>3. CASE trees' = [g \in File |-> Fixed(g)] /\ trees[f] # NoTree
      <4>1. Fixed(f) \in Intact(f) /\ original[f] \in Document[f]
        BY <1>0, <1>2, <3>3 DEF Types
      <4>2. Fixed(f) \in Had(f) \ {Torn}
        BY <4>1, IntactFacts
      <4> QED BY <3>3, <4>2
    <3> QED BY <1>1, <3>1, <3>2, <3>3
  <2>2. phase' \in Phases
    BY <1>1 DEF Phases, Ended
  <2>3. todo' \subseteq File
    BY <1>0, <1>1 DEF Types
  <2> QED BY <1>0, <1>1, <2>1, <2>2, <2>3, TypesFrame DEF Types
<1>5. phase' = "rewrite" => Loop'
  BY <1>1, <1>2, FilesFrame DEF Loop, Rewriting
<1>6. phase' = "rewrite" => Arrived'
  BY <1>0, <1>1, <1>3, FilesFrame DEF Arrived, Moving
<1>7. Unsaved' /\ Kept' /\ Loop' /\ Copied' /\ Arrived' /\ Apps'
  BY <1>1, <1>4, <1>5, <1>6, Quiet DEF Moving, Rewriting
<1> QED BY <1>4, <1>7 DEF IInv

(* mv_webapps                                                              *)
MoveApps == NoApps \/ BackupApps \/ RenameApps \/ CopyApps \/ DeleteApps \/ AppsMoved \/ MoveFails

(* What the moves make of the three directories.                           *)
LEMMA AppsStep ==
    ASSUME Types, Apps, MoveApps
    PROVE  /\ apps' \in [old : Dirs, new : Dirs, backup : Dirs] /\ Apps'
           /\ \A what \in {"user", "pkg"} : Holding(what) # {} => Holding(what)' # {}
<1>1. PICK o \in Dirs, n \in Dirs, b \in Dirs : apps = [old |-> o, new |-> n, backup |-> b]
  BY DEF Types
<1> DEFINE Held(what, x, y, z) == (x # NoDir /\ what \in x) \/ (y # NoDir /\ what \in y)
                                    \/ (z # NoDir /\ what \in z)
           Keeps(x, y, z) == /\ apps' = [old |-> x, new |-> y, backup |-> z]
                             /\ x \in Dirs /\ y \in Dirs /\ z \in Dirs
                             /\ phase' = "move" => z # NoDir /\ y = NoDir
                             /\ phase' = "copy" => z # NoDir /\ y = {"part"}
                             /\ phase' = "delete" => z # NoDir /\ x = {"part"}
                             /\ \A what \in {"user", "pkg"} : Held(what, o, n, b) => Held(what, x, y, z)
<1>2. SUFFICES \E x, y, z : Keeps(x, y, z)
  <2>1. PICK x, y, z : Keeps(x, y, z)
    BY <1>2
  <2>2. apps' \in [old : Dirs, new : Dirs, backup : Dirs] /\ Apps'
    BY <2>1 DEF Apps, Keeps
  <2>3. \A what : /\ Holding(what) # {} <=> Held(what, o, n, b)
                  /\ Holding(what)' # {} <=> Held(what, x, y, z)
    <3>1. /\ DOMAIN apps = {"old", "new", "backup"} /\ apps.old = o /\ apps.new = n /\ apps.backup = b
          /\ DOMAIN apps' = {"old", "new", "backup"}
          /\ apps'.old = x /\ apps'.new = y /\ apps'.backup = z
      BY <1>1, <2>1
    <3> QED BY <3>1 DEF Holding
  <2> QED BY <2>1, <2>2, <2>3
<1>3. /\ {"part"} \in Dirs /\ NoDir \in Dirs /\ {"part"} # NoDir
      /\ \A d, e \in Dirs : d # NoDir /\ e # NoDir =>
           /\ d \cup e \in Dirs /\ d \cup e # NoDir
           /\ d \cup {"nested"} \cup e \in Dirs /\ d \cup {"nested"} \cup e # NoDir
           /\ d \cup (e \ {"nested"}) \in Dirs /\ d \cup (e \ {"nested"}) # NoDir
  BY TomcatAssumption DEF Dirs
<1>4. apps.old = o /\ apps.new = n /\ apps.backup = b
  BY <1>1
<1> HIDE DEF Keeps, Held
<1>5. CASE NoApps
  <2>1. Keeps(o, n, b)
    BY <1>1, <1>5 DEF NoApps, ToConfigs, Keeps
  <2> QED BY <2>1
<1>6. CASE BackupApps
  <2>1. CASE apps' = apps
    <3>1. Keeps(o, n, b)
      BY <1>1, <1>6, <2>1 DEF BackupApps, ToConfigs, Keeps
    <3> QED BY <3>1
  <2>2. CASE apps' # apps
    <3> DEFINE z == IF b = NoDir THEN n ELSE b \cup {"nested"} \cup n
    <3>1. /\ n # NoDir /\ phase' = "move"
          /\ apps' = [apps EXCEPT !.backup = IF @ = NoDir THEN apps.new
                                             ELSE @ \cup {"nested"} \cup apps.new,
                                  !.new = NoDir]
      BY <1>4, <1>6, <2>2 DEF BackupApps
    <3>2. apps' = [old |-> o, new |-> NoDir, backup |-> z]
      BY <1>1, <3>1
    <3>3. z \in Dirs /\ z # NoDir /\ n \subseteq z /\ (b # NoDir => b \subseteq z)
      BY <1>3, <3>1
    <3> HIDE DEF z
    <3>4. Keeps(o, NoDir, z)
      BY <1>1, <1>3, <3>1, <3>2, <3>3 DEF Keeps, Held
    <3> QED BY <3>4
  <2> QED BY <2>1, <2>2
<1>7. CASE RenameApps
  <2>1. phase = "move" /\ n = NoDir /\ apps' = [old |-> NoDir, new |-> o, backup |-> b]
        /\ phase' = "configs"
    BY <1>1, <1>7 DEF RenameApps, Apps, ToConfigs
  <2>2. Keeps(NoDir, o, b)
    BY <1>1, <1>3, <2>1 DEF Keeps, Held
  <2> QED BY <2>2
<1>8. CASE CopyApps
  <2>1. phase = "move" /\ n = NoDir /\ apps' = [old |-> o, new |-> {"part"}, backup |-> b]
        /\ phase' = "copy" /\ b # NoDir
    BY <1>1, <1>8 DEF CopyApps, Apps
  <2>2. Keeps(o, {"part"}, b)
    BY <1>1, <1>3, <2>1 DEF Keeps, Held
  <2> QED BY <2>2
<1>9. CASE DeleteApps
  <2>1. phase = "copy" /\ n = {"part"} /\ apps' = [old |-> {"part"}, new |-> o, backup |-> b]
        /\ phase' = "delete" /\ b # NoDir
    BY <1>1, <1>9 DEF DeleteApps, Apps
  <2>2. Keeps({"part"}, o, b)
    BY <1>1, <1>3, <2>1 DEF Keeps, Held
  <2> QED BY <2>2
<1>10. CASE AppsMoved
  <2>1. phase = "delete" /\ o = {"part"} /\ apps' = [old |-> NoDir, new |-> n, backup |-> b]
        /\ phase' = "configs"
    BY <1>1, <1>10 DEF AppsMoved, Apps, ToConfigs
  <2>2. Keeps(NoDir, n, b)
    BY <1>1, <1>3, <2>1 DEF Keeps, Held
  <2> QED BY <2>2
<1>11. CASE MoveFails
  <2>1. phase \in {"move", "copy", "delete"} /\ b # NoDir /\ phase' = "configs"
    BY <1>4, <1>11 DEF MoveFails, Apps, ToConfigs
  <2>2. PICK y \in IF n = NoDir THEN {NoDir, {"part"}} ELSE {n \cup (b \ {"nested"})} :
          apps' = [old |-> o, new |-> y, backup |-> b]
    BY <1>1, <1>11 DEF MoveFails
  <2>3. y \in Dirs /\ (n # NoDir => y # NoDir /\ n \subseteq y)
    BY <1>3, <2>1, <2>2
  <2>4. Keeps(o, y, b)
    BY <1>1, <2>1, <2>2, <2>3 DEF Keeps, Held
  <2> QED BY <2>4
<1> QED BY <1>5, <1>6, <1>7, <1>8, <1>9, <1>10, <1>11 DEF MoveApps

LEMMA MoveAppsKeeps ==
    ASSUME IInv, MoveApps
    PROVE  IInv'
<1>0. Types /\ Apps /\ Arrived
  BY DEF IInv
<1>1. /\ UNCHANGED <<original, disk, owner, tomcat, trees, todo, cur, crashes>>
      /\ phase \in {"webapps", "move", "copy", "delete"}
      /\ phase' \in {"move", "copy", "delete", "configs"} /\ status' \in BOOLEAN
  BY <1>0 DEF MoveApps, NoApps, BackupApps, RenameApps, CopyApps, DeleteApps, AppsMoved, MoveFails,
              OnApps, ToConfigs, Types
<1>2. Types'
  <2>1. phase' \in Phases
    BY <1>1 DEF Phases
  <2>2. apps' \in [old : Dirs, new : Dirs, backup : Dirs]
    BY <1>0, AppsStep
  <2> QED BY <1>0, <1>1, <2>1, <2>2, TypesFrame DEF Types
<1>3. Arrived'
  BY <1>0, <1>1, FilesFrame DEF Arrived, Moving
<1>4. Apps'
  BY <1>0, AppsStep
<1>5. Unsaved' /\ Kept' /\ Loop' /\ Copied'
  BY <1>1, <1>2, Quiet DEF Rewriting
<1> QED BY <1>2, <1>3, <1>4, <1>5 DEF IInv

(* Of mv_configs, the steps between the files.                             *)
BetweenConfigs == NoConfigs \/ CopyFails \/ CopyConfigs \/ CopyDone \/ RemoveDone

LEMMA BetweenConfigsKeeps ==
    ASSUME IInv, BetweenConfigs
    PROVE  IInv'
<1>0. Types /\ Copied /\ Arrived
  BY DEF IInv
<1>1. /\ UNCHANGED <<original, disk, owner, tomcat, apps, trees, cur, crashes>>
      /\ phase' \in {"erase", "copying", "removing"}
      /\ phase' = "copying" => phase = "configs" /\ todo' = File
      /\ phase' = "removing" => phase = "copying" /\ todo = {}
      /\ todo' \subseteq File /\ status' \in BOOLEAN
  BY <1>0 DEF BetweenConfigs, NoConfigs, CopyFails, CopyConfigs, CopyDone, RemoveDone, OnConfigs, Types
<1>2. Types'
  <2>1. phase' \in Phases
    BY <1>1 DEF Phases, Ended
  <2> QED BY <1>0, <1>1, <2>1, TypesFrame DEF Types
<1>3. Copied'
  BY <1>0, <1>1, FilesFrame DEF Copied
<1>4. Arrived'
  <2>1. CASE phase' = "removing"
    <3>1. SUFFICES ASSUME NEW f \in File, Wanted(f)
                   PROVE  disk[New("")][f] = Due(f)
      BY <1>1, <2>1, FilesFrame DEF Arrived, Rewriting, Moving
    <3>2. Due(f) # NoFile
      BY <1>0, <3>1, IntactFacts DEF Types, Wanted
    <3>3. Main(f) = Due(f) \/ Gone(f)
      BY <1>0, <1>1, <2>1, <3>1 DEF Arrived, Moving
    <3>4. IsCopied(f)
      BY <1>0, <1>1, <2>1 DEF Copied
    <3>5. CASE Main(f) = Due(f)
      BY <3>2, <3>4, <3>5, Places DEF IsCopied, Main
    <3>6. CASE Gone(f)
      BY <1>0, <3>1, <3>6 DEF Arrived
    <3> QED BY <3>3, <3>5, <3>6
  <2>2. CASE phase' = "copying"
    BY <1>0, <1>1, <2>2, FilesFrame DEF Arrived, Moving, Rewriting
  <2>3. CASE phase' = "erase"
    BY <1>1, <1>2, <2>3, Quiet DEF Moving, Rewriting
  <2> QED BY <1>1, <2>1, <2>2, <2>3
<1>5. Unsaved' /\ Kept' /\ Loop' /\ Apps'
  BY <1>1, <1>2, Quiet DEF Rewriting
<1> QED BY <1>2, <1>3, <1>4, <1>5 DEF IInv

LEMMA StoppedKeeps ==
    ASSUME IInv, UNCHANGED vars
    PROVE  IInv'
<1>1. UNCHANGED <<original, disk, owner, tomcat, apps, phase, trees, todo, cur, status, crashes>>
  BY DEF vars
<1>2. Types'
  BY <1>1, TypesFrame DEF IInv, Types
<1>3. Loop' /\ Copied' /\ Arrived' /\ Apps'
  <2>1. Loop'
    BY <1>1, FilesFrame DEF IInv, Loop
  <2>2. Copied'
    BY <1>1, FilesFrame DEF IInv, Copied
  <2>3. Arrived'
    BY <1>1, FilesFrame DEF IInv, Arrived
  <2>4. Apps'
    BY <1>1 DEF IInv, Apps
  <2> QED BY <2>1, <2>2, <2>3, <2>4
<1>4. Unsaved' /\ Kept'
  BY <1>1, <1>2, Quiet
<1> QED BY <1>2, <1>3, <1>4 DEF IInv

----------------------------------------------------------------------------
(* Steps that change files                                                 *)

(* What depends on the user's files only.                                  *)
LEMMA OriginalFrame ==
    ASSUME UNCHANGED original
    PROVE  /\ Contents' = Contents
           /\ \A f : /\ Intact(f)' = Intact(f) /\ Had(f)' = Had(f)
                     /\ Due(f)' = Due(f) /\ Wanted(f)' = Wanted(f)
<1>1. \A f : /\ Intact(f)' = Intact(f) /\ Had(f)' = Had(f)
             /\ Due(f)' = Due(f) /\ Wanted(f)' = Wanted(f)
  BY DEF Intact, Had, Due, Wanted
<1> QED BY <1>1 DEF Contents

(* One file of the old directory has changed, no other.                    *)
OnlyOld(s, f, c) ==
    \A t \in Suffix, g \in File :
        /\ disk'[Old(t)][g] = IF t = s /\ g = f THEN c ELSE disk[Old(t)][g]
        /\ disk'[New(t)][g] = disk[New(t)][g]

(* A file comes to hold, at a place in the old directory, something of     *)
(* what it may hold.                                                       *)
LEMMA PutOld ==
    ASSUME IInv, UNCHANGED <<original, owner, tomcat, apps, trees, status, crashes>>,
           NEW s \in Suffix, NEW f \in File, NEW c \in {NoFile} \cup Had(f), Put(Old(s), f, c),
           phase' \in Phases, todo' \subseteq File, cur' \in File \cup {NoFile}
    PROVE  Types' /\ OnlyOld(s, f, c)
<1>0. Types
  BY DEF IInv
<1>1. \A t \in Suffix, g \in File :
        /\ disk'[Old(t)][g] = IF t = s /\ g = f THEN c ELSE disk[Old(t)][g]
        /\ disk'[New(t)][g] = disk[New(t)][g]
  <2>1. Old(s) \in Place /\ \A t \in Suffix : Old(t) \in Place /\ New(t) \in Place
    BY Places
  <2>2. \A q \in Place, g \in File : disk'[q][g] = IF q = Old(s) /\ g = f THEN c ELSE disk[q][g]
    BY <1>0, <2>1, PutEffect DEF Types
  <2>3. \A t \in Suffix : (Old(t) = Old(s) <=> t = s) /\ New(t) # Old(s)
    BY Places
  <2> HIDE DEF Old, New
  <2> QED BY <2>1, <2>2, <2>3
<1>2. disk' \in [Place -> [File -> Contents']]
  <2>1. c \in Contents
    BY DEF Contents
  <2>2. Old(s) \in Place
    BY Places
  <2>3. disk' \in [Place -> [File -> Contents]]
    BY <1>0, <2>1, <2>2, PutEffect DEF Types
  <2> QED BY <2>3, OriginalFrame
<1>3. \A g \in File :
        /\ original'[g] \in {NoFile} \cup Document[g]
        /\ \A t \in Suffix : /\ disk'[Old(t)][g] \in {NoFile} \cup Had(g)'
                             /\ disk'[New(t)][g] \in {NoFile, Default} \cup Had(g)'
        /\ trees'[g] \in {NoTree} \cup (Had(g)' \ {Torn})
  BY <1>0, <1>1, OriginalFrame DEF Types
<1>4. Types'
  BY <1>0, <1>2, <1>3 DEF Types, Dirs
<1> QED BY <1>1, <1>4 DEF OnlyOld

(* What that leaves to be shown: the other files are as they were.         *)
LEMMA RewritesOld ==
    ASSUME IInv, UNCHANGED <<original, owner, tomcat, apps, trees, status, crashes>>,
           NEW s \in {"", ".orig_backup"}, NEW f \in File, NEW c \in {NoFile} \cup Had(f), Put(Old(s), f, c),
           phase' \in Rewriting, todo' \subseteq File, cur' \in File \cup {NoFile},
           original[f] # NoFile => \E t \in Suffix : disk'[Old(t)][f] \in Intact(f)
    PROVE  /\ Types' /\ Unsaved' /\ Kept' /\ Copied' /\ Apps'
           /\ \A g \in File : /\ Saved(g)' = Saved(g)
                              /\ Main(g)' = IF s = "" /\ g = f THEN c ELSE Main(g)
                              /\ Backup(g)' = IF s # "" /\ g = f THEN c ELSE Backup(g)
                              /\ disk'[New("")][g] = disk[New("")][g]
           /\ \A g \in File : g # f => Whole(g)' = Whole(g) /\ Gone(g)' = Gone(g)
<1>1. s \in Suffix /\ phase' \in Phases
  BY Places DEF Rewriting, Phases
<1>2. /\ Types'
      /\ \A t \in Suffix, g \in File :
           /\ disk'[Old(t)][g] = IF t = s /\ g = f THEN c ELSE disk[Old(t)][g]
           /\ disk'[New(t)][g] = disk[New(t)][g]
  <2>1. Types' /\ OnlyOld(s, f, c)
    <3> HIDE DEF Put
    <3> QED BY <1>1, PutOld
  <2> QED BY <2>1 DEF OnlyOld
<1>3. \A g \in File : /\ Saved(g)' = Saved(g)
                      /\ Main(g)' = IF s = "" /\ g = f THEN c ELSE Main(g)
                      /\ Backup(g)' = IF s # "" /\ g = f THEN c ELSE Backup(g)
                      /\ disk'[New("")][g] = disk[New("")][g]
  BY <1>2, Places DEF Saved, Main, Backup
<1>4. \A g \in File : g # f => Whole(g)' = Whole(g) /\ Gone(g)' = Gone(g)
  BY <1>3, OriginalFrame DEF Whole, Gone
<1>5. Unsaved'
  BY <1>2, <1>3, Places DEF IInv, Unsaved
<1>6. Kept'
  <2>1. SUFFICES ASSUME NEW g \in File, original[g] # NoFile
                 PROVE  \E t \in Suffix :
                          \/ disk'[Old(t)][g] \in Intact(g)
                          \/ disk'[Old(t)][g] = NoFile /\ disk'[New(t)][g] \in Intact(g)
    BY OriginalFrame DEF Kept
  <2>2. CASE g = f
    BY <2>1, <2>2
  <2>3. CASE g # f
    BY <1>2, <2>1, <2>3 DEF IInv, Kept
  <2> QED BY <2>2, <2>3
<1>7. Copied' /\ Apps'
  BY DEF Copied, Apps, Rewriting
<1> QED BY <1>2, <1>3, <1>4, <1>5, <1>6, <1>7

(* Of the files the loop has still to write.                               *)
LEMMA TodoFacts ==
    ASSUME IInv, phase \in Rewriting, NEW f \in todo
    PROVE  /\ f \in File /\ original[f] \in Document[f] /\ original[f] # NoFile
           /\ Intact(f) \subseteq Had(f) /\ Torn \in Had(f)
           /\ trees[f] \in Intact(f) /\ trees[f] # NoFile
           /\ trees[f].trailing = original[f].trailing
           /\ Wanted(f) <=> ~trees[f].trailing
           /\ Wanted(f) => trees[f] = Due(f)
           /\ Whole(f) /\ Main(f) # NoFile => Main(f) \in Intact(f)
<1>1. f \in File /\ original[f] # NoFile /\ trees[f] \in Intact(f)
  BY DEF IInv, Types, Loop
<1>2. original[f] \in Document[f]
  BY <1>1 DEF IInv, Types
<1>3. Intact(f) \subseteq Had(f) /\ Torn \in Had(f)
  BY <1>1, <1>2, IntactFacts
<1>4. trees[f] # NoFile /\ trees[f].trailing = original[f].trailing /\ original[f].trailing \in BOOLEAN
  BY <1>1, <1>2, IntactFacts
<1>5. Wanted(f) => trees[f] = Due(f)
  BY <1>1 DEF IInv, Loop, Wanted
<1>6. Main(f) \in {NoFile} \cup Intact(f) \cup {Torn}
  BY <1>1, <1>2, IntactFacts, Places DEF IInv, Types, Main
<1>7. Whole(f) /\ Main(f) # NoFile => Main(f) \in Intact(f)
  BY <1>6 DEF Whole
<1> QED BY <1>1, <1>2, <1>3, <1>4, <1>5, <1>7 DEF Wanted

LEMMA RewriteKeeps ==
    ASSUME IInv, NEW f \in File, Rewrite(f)
    PROVE  IInv'
<1>0. Types /\ Loop /\ Arrived /\ Kept
  BY DEF IInv
<1>1. /\ UNCHANGED <<original, owner, tomcat, apps, trees, status, crashes, todo>>
      /\ phase = "rewrite" /\ f \in todo /\ cur' = f
      /\ \/ Main(f) # NoFile /\ Put(Old(".orig_backup"), f, Torn) /\ phase' = "backup"
         \/ Main(f) = NoFile /\ UNCHANGED disk /\ phase' = "write"
  BY DEF Rewrite, OnDisk, Exists, Main
<1>2. phase \in Rewriting /\ phase' \in Rewriting
  BY <1>1 DEF Rewriting
<1>3. CASE Main(f) # NoFile /\ Put(Old(".orig_backup"), f, Torn) /\ phase' = "backup"
  <2>1. Main(f) \in Intact(f) /\ Torn \in Had(f)
    BY <1>0, <1>1, <1>2, <1>3, TodoFacts DEF Loop
  <2>2. disk'[Old("")][f] \in Intact(f)
    <3>1. Old("") \in Place /\ Old(".orig_backup") \in Place /\ Old("") # Old(".orig_backup")
      BY Places
    <3>2. disk'[Old("")][f] = disk[Old("")][f]
      BY <1>0, <1>3, <3>1 DEF Types, Put
    <3> QED BY <2>1, <3>2 DEF Main
  <2>3. /\ Types' /\ Unsaved' /\ Kept' /\ Copied' /\ Apps'
        /\ \A g \in File : /\ Saved(g)' = Saved(g) /\ Main(g)' = Main(g)
                           /\ disk'[New("")][g] = disk[New("")][g]
    <3>1. todo' \subseteq File /\ cur' \in File \cup {NoFile}
      BY <1>0, <1>1 DEF Types
    <3>2. \E t \in Suffix : disk'[Old(t)][f] \in Intact(f)
      BY <2>2, Places
    <3>3. ".orig_backup" \in {"", ".orig_backup"} /\ Torn \in {NoFile} \cup Had(f)
      BY <2>1
    <3> HIDE DEF Put
    <3> QED BY <1>1, <1>2, <1>3, <3>1, <3>2, <3>3, RewritesOld
  <2>4. ASSUME NEW g \in File PROVE Whole(g)' = Whole(g) /\ Gone(g)' = Gone(g)
    <3>1. Saved(g)' = Saved(g) /\ Main(g)' = Main(g) /\ Intact(g)' = Intact(g)
      BY <1>1, <2>3, OriginalFrame
    <3> QED BY <3>1 DEF Whole, Gone
  <2>5. Loop'
    BY <1>0, <1>1, <1>3, <2>3, <2>4, OriginalFrame DEF Loop, Rewriting, Types
  <2>6. Arrived'
    BY <1>0, <1>1, <1>2, <1>3, <2>3, <2>4, OriginalFrame DEF Arrived, Moving
  <2> QED BY <2>3, <2>5, <2>6 DEF IInv
<1>4. CASE Main(f) = NoFile /\ UNCHANGED disk /\ phase' = "write"
  <2>1. Types'
    <3>1. phase' \in Phases
      BY <1>4 DEF Phases
    <3> QED BY <1>0, <1>1, <1>4, <3>1, TypesFrame DEF Types
  <2>2. Loop'
    BY <1>0, <1>1, <1>4, FilesFrame DEF Loop, Rewriting, Whole
  <2>3. Arrived'
    BY <1>0, <1>1, <1>2, <1>4, FilesFrame DEF Arrived, Moving
  <2>4. Unsaved' /\ Kept' /\ Copied' /\ Apps'
    BY <1>1, <1>4, <2>1, Quiet
  <2> QED BY <2>1, <2>2, <2>3, <2>4 DEF IInv
<1> QED BY <1>1, <1>3, <1>4

LEMMA BackupDoneKeeps ==
    ASSUME IInv, BackupDone
    PROVE  IInv'
<1>0. Types /\ Loop /\ Arrived
  BY DEF IInv
<1>1. /\ UNCHANGED <<original, owner, tomcat, apps, trees, status, crashes, todo, cur>>
      /\ phase = "backup" /\ phase' = "write"
      /\ Put(Old(".orig_backup"), cur, Main(cur))
  BY DEF BackupDone, OnDisk, Main
<1>2. phase \in Rewriting /\ phase' \in Rewriting
  BY <1>1 DEF Rewriting
<1>3. cur \in todo /\ cur \in File /\ Main(cur) \in Intact(cur) /\ Main(cur) \in Had(cur)
  <2>1. cur \in todo /\ Main(cur) # NoFile /\ Whole(cur)
    BY <1>0, <1>1, <1>2 DEF Loop
  <2> QED BY <1>2, <2>1, TodoFacts
<1>4. disk'[Old("")][cur] \in Intact(cur)
  <2>1. Old("") \in Place /\ Old(".orig_backup") \in Place /\ Old("") # Old(".orig_backup")
    BY Places
  <2>2. disk'[Old("")][cur] = disk[Old("")][cur]
    BY <1>0, <1>1, <1>3, <2>1 DEF Types, Put
  <2> QED BY <1>3, <2>2 DEF Main
<1>5. /\ Types' /\ Unsaved' /\ Kept' /\ Copied' /\ Apps'
      /\ \A g \in File : /\ Saved(g)' = Saved(g) /\ Main(g)' = Main(g)
                         /\ Backup(g)' = IF g = cur THEN Main(cur) ELSE Backup(g)
                         /\ disk'[New("")][g] = disk[New("")][g]
  <2>1. todo' \subseteq File /\ cur' \in File \cup {NoFile}
    BY <1>0, <1>1 DEF Types
  <2>2. \E t \in Suffix : disk'[Old(t)][cur] \in Intact(cur)
    BY <1>4, Places
  <2>3. ".orig_backup" \in {"", ".orig_backup"} /\ Main(cur) \in {NoFile} \cup Had(cur)
    BY <1>3
  <2> HIDE DEF Put, Main
  <2> QED BY <1>1, <1>2, <1>3, <2>1, <2>2, <2>3, RewritesOld
<1>6. ASSUME NEW g \in File PROVE Whole(g)' = Whole(g) /\ Gone(g)' = Gone(g)
  <2>1. Saved(g)' = Saved(g) /\ Main(g)' = Main(g) /\ Intact(g)' = Intact(g)
    BY <1>1, <1>5, OriginalFrame
  <2> QED BY <2>1 DEF Whole, Gone
<1>7. Loop'
  <2>1. Backup(cur)' \in Intact(cur)'
    BY <1>1, <1>3, <1>5, OriginalFrame
  <2>2. /\ \A g \in todo : Whole(g)'
        /\ \A g \in todo : /\ original'[g] # NoFile /\ trees'[g] \in Intact(g)'
                           /\ ~original'[g].trailing => trees'[g] = Due(g)'
    BY <1>0, <1>1, <1>2, <1>6, OriginalFrame DEF Loop, Types
  <2> QED BY <1>1, <1>3, <2>1, <2>2 DEF Loop
<1>8. Arrived'
  BY <1>0, <1>1, <1>2, <1>5, <1>6, OriginalFrame DEF Arrived, Moving
<1> QED BY <1>5, <1>7, <1>8 DEF IInv

(* What is torn now is complete in its backup, or under .rpmsave.          *)
LEMMA WriteBeginKeeps ==
    ASSUME IInv, WriteBegin
    PROVE  IInv'
<1>0. Types /\ Loop /\ Arrived
  BY DEF IInv
<1>1. /\ UNCHANGED <<original, owner, tomcat, apps, trees, status, crashes, todo, cur>>
      /\ phase = "write" /\ phase' = "writing"
      /\ Put(Old(""), cur, Torn)
  BY DEF WriteBegin, OnDisk
<1>2. phase \in Rewriting /\ phase' \in Rewriting
  BY <1>1 DEF Rewriting
<1>3. /\ cur \in todo /\ cur \in File /\ Torn \in Had(cur)
      /\ Backup(cur) \in Intact(cur) \/ Saved(cur) \in Intact(cur)
  <2>1. cur \in todo /\ (Backup(cur) \in Intact(cur) \/ Saved(cur) \in Intact(cur))
    BY <1>0, <1>1, <1>2 DEF Loop, Rewriting
  <2> QED BY <1>2, <2>1, TodoFacts
<1>4. disk'[Old(".orig_backup")][cur] \in Intact(cur) \/ disk'[Old(".rpmsave")][cur] \in Intact(cur)
  <2>1. /\ {Old(""), Old(".orig_backup"), Old(".rpmsave")} \subseteq Place
        /\ Old("") # Old(".orig_backup") /\ Old("") # Old(".rpmsave")
    BY Places
  <2>2. /\ disk'[Old(".orig_backup")][cur] = disk[Old(".orig_backup")][cur]
        /\ disk'[Old(".rpmsave")][cur] = disk[Old(".rpmsave")][cur]
    BY <1>0, <1>1, <1>3, <2>1 DEF Types, Put
  <2> QED BY <1>3, <2>2 DEF Backup, Saved
<1>5. /\ Types' /\ Unsaved' /\ Kept' /\ Copied' /\ Apps'
      /\ \A g \in File : /\ Saved(g)' = Saved(g) /\ Backup(g)' = Backup(g)
                         /\ Main(g)' = IF g = cur THEN Torn ELSE Main(g)
                         /\ disk'[New("")][g] = disk[New("")][g]
      /\ \A g \in File : g # cur => Whole(g)' = Whole(g) /\ Gone(g)' = Gone(g)
  <2>1. todo' \subseteq File /\ cur' \in File \cup {NoFile}
    BY <1>0, <1>1 DEF Types
  <2>2. \E t \in Suffix : disk'[Old(t)][cur] \in Intact(cur)
    BY <1>4, Places
  <2>3. "" \in {"", ".orig_backup"} /\ Torn \in {NoFile} \cup Had(cur)
    BY <1>3
  <2>4. /\ UNCHANGED <<original, owner, tomcat, apps, trees, status, crashes>>
        /\ Put(Old(""), cur, Torn) /\ phase' \in Rewriting /\ cur \in File
    BY <1>1, <1>2, <1>3
  <2> HIDE DEF Put
  <2>5. PICK f \in File : f = cur
    BY <2>4
  <2>6. /\ Types' /\ Unsaved' /\ Kept' /\ Copied' /\ Apps'
        /\ \A g \in File : /\ Saved(g)' = Saved(g)
                           /\ Main(g)' = IF g = f THEN Torn ELSE Main(g)
                           /\ Backup(g)' = Backup(g)
                           /\ disk'[New("")][g] = disk[New("")][g]
        /\ \A g \in File : g # f => Whole(g)' = Whole(g) /\ Gone(g)' = Gone(g)
    <3>1. /\ Torn \in {NoFile} \cup Had(f) /\ Put(Old(""), f, Torn)
          /\ original[f] # NoFile => \E t \in Suffix : disk'[Old(t)][f] \in Intact(f)
      BY <2>2, <2>3, <2>4, <2>5
    <3>2. Types' /\ Unsaved' /\ Kept' /\ Copied' /\ Apps'
      BY <2>1, <2>3, <2>4, <3>1, RewritesOld
    <3>3. \A g \in File : g # f => Whole(g)' = Whole(g) /\ Gone(g)' = Gone(g)
      BY <2>1, <2>3, <2>4, <3>1, RewritesOld
    <3>4. /\ disk \in [Place -> [File -> Contents]]
          /\ {Old(""), Old(".rpmsave"), Old(".orig_backup")} \subseteq Place
          /\ Old("") # Old(".rpmsave") /\ Old("") # Old(".orig_backup")
      <4>1. disk \in [Place -> [File -> Contents]]
        BY <1>0 DEF Types
      <4>2. /\ {Old(""), Old(".rpmsave"), Old(".orig_backup")} \subseteq Place
            /\ Old("") # Old(".rpmsave") /\ Old("") # Old(".orig_backup")
        BY Places
      <4> QED BY <4>1, <4>2
    <3>5. \A g \in File : /\ Saved(g)' = Saved(g) /\ Backup(g)' = Backup(g)
                          /\ Main(g)' = IF g = f THEN Torn ELSE Main(g)
      <4>1. /\ disk'[Old(".orig_backup")] = disk[Old(".orig_backup")]
            /\ disk'[Old(".rpmsave")] = disk[Old(".rpmsave")]
            /\ \A g \in File : disk'[Old("")][g] = IF g = f THEN Torn ELSE disk[Old("")][g]
        BY <3>1, <3>4 DEF Put
      <4> QED BY <4>1 DEF Saved, Backup, Main
    <3>6. \A g \in File : disk'[New("")][g] = disk[New("")][g]
      BY <2>1, <2>3, <2>4, <3>1, RewritesOld
    <3> QED BY <3>2, <3>3, <3>5, <3>6
  <2> QED BY <2>5, <2>6
<1>6. Loop'
  <2>1. Backup(cur)' \in Intact(cur)' \/ Saved(cur)' \in Intact(cur)'
    BY <1>1, <1>3, <1>5, OriginalFrame
  <2>2. /\ \A g \in todo \ {cur} : Whole(g)'
        /\ \A g \in todo : /\ original'[g] # NoFile /\ trees'[g] \in Intact(g)'
                           /\ ~original'[g].trailing => trees'[g] = Due(g)'
    BY <1>0, <1>1, <1>2, <1>5, OriginalFrame DEF Loop, Types
  <2> QED BY <1>1, <1>3, <2>1, <2>2 DEF Loop
<1>7. Arrived'
  <2> SUFFICES ASSUME NEW g \in File, Wanted(g)
               PROVE  /\ g \notin todo => Main(g)' = Due(g) \/ Gone(g)'
                      /\ Gone(g)' => disk'[New("")][g] = Due(g)
    BY <1>1, OriginalFrame DEF Arrived, Moving
  <2>1. CASE g = cur
    <3>1. Torn # NoFile /\ Main(g)' = Torn
      BY <1>5, <2>1, TomcatAssumption
    <3>2. ~Gone(g)'
      BY <3>1 DEF Gone
    <3> QED BY <1>3, <2>1, <3>2
  <2>2. CASE g # cur
    BY <1>0, <1>1, <1>2, <1>5, <2>2 DEF Arrived
  <2> QED BY <2>1, <2>2
<1> QED BY <1>5, <1>6, <1>7 DEF IInv

(* The tree is written, unless a comment follows its root.                 *)
LEMMA WriteEndKeeps ==
    ASSUME IInv, WriteEnd
    PROVE  IInv'
<1>0. Types /\ Loop /\ Arrived
  BY DEF IInv
<1>1. /\ UNCHANGED <<original, owner, tomcat, apps, trees, status, crashes, cur>>
      /\ phase = "writing"
      /\ \/ phase' = "died" /\ UNCHANGED <<disk, todo>>
         \/ /\ phase' = "rewrite" /\ todo' = todo \ {cur}
            /\ IF trees[cur].trailing THEN UNCHANGED disk ELSE Put(Old(""), cur, trees[cur])
  BY DEF WriteEnd, OnDisk
<1>2. phase \in Rewriting
  BY <1>1 DEF Rewriting
<1>3. cur \in todo /\ cur \in File
  BY <1>0, <1>1, <1>2 DEF Loop, Types, Rewriting
<1>4. /\ trees[cur] \in Intact(cur) /\ trees[cur] \in Had(cur) /\ trees[cur] # NoFile
      /\ Wanted(cur) <=> ~trees[cur].trailing
      /\ Wanted(cur) => trees[cur] = Due(cur)
  BY <1>2, <1>3, TodoFacts
<1>5. /\ \A g \in todo \ {cur} : Whole(g)
      /\ \A g \in todo : /\ original[g] # NoFile /\ trees[g] \in Intact(g)
                         /\ ~original[g].trailing => trees[g] = Due(g)
  BY <1>0, <1>1, <1>2 DEF Loop
<1>6. CASE phase' = "died" /\ UNCHANGED <<disk, todo>>
  <2>1. phase' \in Phases
    BY <1>6 DEF Phases, Ended
  <2>2. Types'
    BY <1>0, <1>1, <1>6, <2>1, TypesFrame DEF Types
  <2>3. Unsaved' /\ Kept' /\ Loop' /\ Copied' /\ Arrived' /\ Apps'
    BY <1>1, <1>6, <2>2, Quiet DEF Rewriting, Moving
  <2> QED BY <2>2, <2>3 DEF IInv
<1>7. CASE phase' = "rewrite" /\ todo' = todo \ {cur} /\ trees[cur].trailing /\ UNCHANGED disk
  <2>1. phase' \in Phases /\ todo' \subseteq File
    BY <1>0, <1>7 DEF Phases, Types
  <2>2. Types'
    BY <1>0, <1>1, <1>7, <2>1, TypesFrame DEF Types
  <2>3. Loop'
    BY <1>1, <1>5, <1>7, FilesFrame DEF Loop, Rewriting
  <2>4. Arrived'
    BY <1>0, <1>1, <1>2, <1>4, <1>7, FilesFrame DEF Arrived, Moving
  <2>5. Unsaved' /\ Kept' /\ Copied' /\ Apps'
    BY <1>1, <1>7, <2>2, Quiet
  <2> QED BY <2>2, <2>3, <2>4, <2>5 DEF IInv
<1>8. CASE phase' = "rewrite" /\ todo' = todo \ {cur} /\ Put(Old(""), cur, trees[cur])
  <2>1. disk'[Old("")][cur] \in Intact(cur)
    <3>1. Old("") \in Place /\ disk \in [Place -> [File -> Contents]]
      BY <1>0, Places DEF Types
    <3>2. disk' = [disk EXCEPT ![Old("")][cur] = trees[cur]]
      BY <1>8 DEF Put
    <3>3. disk'[Old("")][cur] = trees[cur]
      BY <1>3, <3>1, <3>2
    <3> QED BY <1>4, <3>3
  <2>2. /\ Types' /\ Unsaved' /\ Kept' /\ Copied' /\ Apps'
        /\ \A g \in File : /\ Main(g)' = IF g = cur THEN trees[cur] ELSE Main(g)
                           /\ disk'[New("")][g] = disk[New("")][g]
        /\ \A g \in File : g # cur => Whole(g)' = Whole(g) /\ Gone(g)' = Gone(g)
    <3>1. todo' \subseteq File /\ cur' \in File \cup {NoFile} /\ phase' \in Rewriting
      BY <1>0, <1>1, <1>8 DEF Types, Rewriting
    <3>2. \E t \in Suffix : disk'[Old(t)][cur] \in Intact(cur)
      BY <2>1, Places
    <3>3. "" \in {"", ".orig_backup"} /\ trees[cur] \in {NoFile} \cup Had(cur)
      BY <1>4
    <3> HIDE DEF Put
    <3> QED BY <1>1, <1>3, <1>8, <3>1, <3>2, <3>3, RewritesOld
  <2>3. Loop'
    <3>1. /\ \A g \in todo' : Whole(g)'
          /\ \A g \in todo' : /\ original'[g] # NoFile /\ trees'[g] \in Intact(g)'
                              /\ ~original'[g].trailing => trees'[g] = Due(g)'
      BY <1>0, <1>1, <1>5, <1>8, <2>2, OriginalFrame DEF Types
    <3> QED BY <1>8, <3>1 DEF Loop
  <2>4. Arrived'
    <3> SUFFICES ASSUME NEW g \in File, Wanted(g)
                 PROVE  /\ g \notin todo' => Main(g)' = Due(g) \/ Gone(g)'
                        /\ Gone(g)' => disk'[New("")][g] = Due(g)
      BY <1>1, <1>8, OriginalFrame DEF Arrived, Moving
    <3>1. CASE g = cur
      BY <1>4, <2>2, <3>1 DEF Gone
    <3>2. CASE g # cur
      BY <1>0, <1>2, <1>8, <2>2, <3>2 DEF Arrived
    <3> QED BY <3>1, <3>2
  <2> QED BY <2>2, <2>3, <2>4 DEF IInv
<1> QED BY <1>1, <1>6, <1>7, <1>8

(* The package only brings a file where there is none.                     *)
LEMMA YumInstallKeeps ==
    ASSUME IInv, YumInstall
    PROVE  /\ IInv'
           /\ \A what \in {"user", "pkg"} : Holding(what) # {} => Holding(what)' # {}
<1>0. Types /\ Unsaved /\ Kept /\ Arrived
  BY DEF IInv
<1>1. /\ UNCHANGED <<original, owner, trees, todo, cur, crashes>>
      /\ phase = "rewrite" /\ todo = {} /\ phase' \in {"webapps", "failed"} /\ status' \in BOOLEAN
      /\ UNCHANGED <<disk, tomcat, apps>> \/ Install
  BY <1>0 DEF YumInstall, Types
<1>2. /\ \A s \in Suffix, f \in File :
           /\ disk'[Old(s)][f] = disk[Old(s)][f]
           /\ disk'[New(s)][f] = IF s = "" /\ disk[New("")][f] = NoFile
                                   THEN disk'[New("")][f] ELSE disk[New(s)][f]
           /\ disk'[New("")][f] \in {disk[New("")][f], Default}
      /\ disk' \in [Place -> [File -> Contents]]
  <2>1. CASE UNCHANGED <<disk, tomcat, apps>>
    BY <1>0, <2>1, Places DEF Types
  <2>2. CASE Install
    <3>1. disk' = [disk EXCEPT ![New("")] =
                      [f \in File |-> IF tomcat \/ @[f] # NoFile THEN @[f] ELSE Default]]
      BY <2>2 DEF Install
    <3>2. disk \in [Place -> [File -> Contents]] /\ Default \in Contents
      BY <1>0 DEF Types, Contents
    <3>3. New("") \in Place /\ \A s \in Suffix :
            /\ Old(s) \in Place /\ New(s) \in Place
            /\ Old(s) # New("") /\ (New(s) = New("") <=> s = "")
      BY Places
    <3> HIDE DEF Old, New
    <3>4. \A q \in Place, f \in File :
            disk'[q][f] = IF q = New("")
                            THEN IF tomcat \/ disk[q][f] # NoFile THEN disk[q][f] ELSE Default
                            ELSE disk[q][f]
      BY <3>1, <3>2, <3>3
    <3>5. disk' \in [Place -> [File -> Contents]]
      BY <3>1, <3>2, <3>3
    <3>6. \A s \in Suffix, f \in File :
            /\ disk'[Old(s)][f] = disk[Old(s)][f]
            /\ s # "" => disk'[New(s)][f] = disk[New(s)][f]
            /\ disk'[New("")][f] = IF tomcat \/ disk[New("")][f] # NoFile
                                     THEN disk[New("")][f] ELSE Default
      BY <3>3, <3>4
    <3> QED BY <3>5, <3>6
  <2> QED BY <1>1, <2>1, <2>2
<1>3. /\ apps' \in [old : Dirs, new : Dirs, backup : Dirs] /\ tomcat' \in BOOLEAN
      /\ \A what \in {"user", "pkg"} : Holding(what) # {} => Holding(what)' # {}
  <2>1. CASE UNCHANGED <<disk, tomcat, apps>>
    BY <1>0, <2>1 DEF Types, Holding
  <2>2. CASE Install
    <3>1. PICK o \in Dirs, n \in Dirs, b \in Dirs : apps = [old |-> o, new |-> n, backup |-> b]
      BY <1>0 DEF Types
    <3>2. PICK m \in Dirs : apps' = [old |-> o, new |-> m, backup |-> b] /\ (n # NoDir => m = n)
      <4>1. {"pkg"} \in Dirs
        BY DEF Dirs
      <4>2. apps' = IF tomcat \/ n # NoDir THEN [old |-> o, new |-> n, backup |-> b]
                    ELSE [old |-> o, new |-> {"pkg"}, backup |-> b]
        <5>1. apps' = IF tomcat \/ apps.new # NoDir THEN apps ELSE [apps EXCEPT !.new = {"pkg"}]
          BY <2>2 DEF Install
        <5>2. apps.new = n /\ [apps EXCEPT !.new = {"pkg"}] = [old |-> o, new |-> {"pkg"}, backup |-> b]
          BY <3>1
        <5> QED BY <3>1, <5>1, <5>2
      <4> QED BY <4>1, <4>2
    <3>3. /\ DOMAIN apps = {"old", "new", "backup"} /\ DOMAIN apps' = {"old", "new", "backup"}
          /\ apps.old = o /\ apps.new = n /\ apps.backup = b
          /\ apps'.old = o /\ apps'.new = m /\ apps'.backup = b
      BY <3>1, <3>2
    <3>4. \A what \in {"user", "pkg"} : Holding(what) # {} => Holding(what)' # {}
      BY <3>2, <3>3 DEF Holding
    <3>5. tomcat' \in BOOLEAN
      BY <2>2 DEF Install
    <3> QED BY <3>2, <3>4, <3>5
  <2> QED BY <1>1, <2>1, <2>2
<1>4. \A f \in File : /\ Saved(f)' = Saved(f) /\ Main(f)' = Main(f)
                      /\ Gone(f)' = Gone(f)
  <2>1. \A f \in File : Saved(f)' = Saved(f) /\ Main(f)' = Main(f)
    BY <1>2, Places DEF Saved, Main
  <2> QED BY <2>1 DEF Gone
<1>5. Types'
  <2>1. \A f \in File :
          /\ original'[f] \in {NoFile} \cup Document[f]
          /\ \A s \in Suffix : /\ disk'[Old(s)][f] \in {NoFile} \cup Had(f)'
                               /\ disk'[New(s)][f] \in {NoFile, Default} \cup Had(f)'
          /\ trees'[f] \in {NoTree} \cup (Had(f)' \ {Torn})
    <3>1. SUFFICES ASSUME NEW f \in File, NEW s \in Suffix
                   PROVE  /\ original[f] \in {NoFile} \cup Document[f]
                          /\ disk'[Old(s)][f] \in {NoFile} \cup Had(f)
                          /\ disk'[New(s)][f] \in {NoFile, Default} \cup Had(f)
                          /\ trees[f] \in {NoTree} \cup (Had(f) \ {Torn})
      BY <1>1, OriginalFrame, Places
    <3>2. disk'[New(s)][f] \in {disk[New(s)][f], Default}
      BY <1>2
    <3> QED BY <1>0, <1>2, <3>2 DEF Types
  <2>2. disk' \in [Place -> [File -> Contents']]
    BY <1>1, <1>2, OriginalFrame
  <2>3. phase' \in Phases
    BY <1>1 DEF Phases, Ended
  <2> QED BY <1>0, <1>1, <1>3, <2>1, <2>2, <2>3 DEF Types, Dirs
<1>6. Unsaved'
  BY <1>0, <1>1, <1>2, <1>4, Places DEF Unsaved
<1>7. Kept'
  <2>1. SUFFICES ASSUME NEW f \in File, original[f] # NoFile
                 PROVE  \E s \in Suffix :
                          \/ disk'[Old(s)][f] \in Intact(f)
                          \/ disk'[Old(s)][f] = NoFile /\ disk'[New(s)][f] \in Intact(f)
    BY <1>1, OriginalFrame DEF Kept
  <2>2. PICK s \in Suffix : \/ disk[Old(s)][f] \in Intact(f)
                            \/ disk[Old(s)][f] = NoFile /\ disk[New(s)][f] \in Intact(f)
    BY <1>0, <2>1 DEF Kept
  <2>3. NoFile \notin Intact(f)
    BY <1>0, <2>1, IntactFacts DEF Types
  <2>4. disk[New(s)][f] \in Intact(f) => disk'[New(s)][f] = disk[New(s)][f]
    BY <1>2, <2>3
  <2> QED BY <1>2, <2>2, <2>4
<1>8. Arrived'
  <2> SUFFICES ASSUME NEW f \in File, Wanted(f)
               PROVE  /\ Main(f) = Due(f) \/ Gone(f)
                      /\ Gone(f) => disk'[New("")][f] = Due(f)
    BY <1>1, <1>4, OriginalFrame DEF Arrived, Rewriting, Moving
  <2>1. Main(f) = Due(f) \/ Gone(f)
    BY <1>0, <1>1 DEF Arrived, Rewriting
  <2>2. Gone(f) => disk[New("")][f] = Due(f)
    BY <1>0 DEF Arrived
  <2>3. Due(f) # NoFile
    BY <1>0, IntactFacts DEF Types, Wanted
  <2>4. disk[New("")][f] # NoFile => disk'[New("")][f] = disk[New("")][f]
    BY <1>2, Places
  <2> QED BY <2>1, <2>2, <2>3, <2>4
<1>9. Loop' /\ Copied' /\ Apps'
  BY <1>1 DEF Loop, Copied, Apps, Rewriting
<1> QED BY <1>3, <1>5, <1>6, <1>7, <1>8, <1>9 DEF IInv

(* A copy replaces only the copy of something that exists.                 *)
LEMMA CopyConfigKeeps ==
    ASSUME IInv, NEW f \in File, CopyConfig(f)
    PROVE  IInv'
<1>0. Types /\ Unsaved /\ Kept /\ Copied /\ Arrived
  BY DEF IInv
<1> DEFINE c == {s \in Suffix : disk[Old(s)][f] # NoFile}
           Partly(copy) == disk' = [p \in Place |-> IF p[1] = "tomcat" /\ p[2] \in c
                                             THEN [disk[p] EXCEPT ![f] = copy[p[2]]] ELSE disk[p]]
<1>1. /\ UNCHANGED <<original, owner, tomcat, apps, trees, cur, crashes, phase, status>>
      /\ phase = "copying" /\ f \in todo
      /\ \/ Partly([s \in Suffix |-> disk[Old(s)][f]]) /\ todo' = todo \ {f}
         \/ Partly([s \in Suffix |-> Torn]) /\ todo' = todo
  <2>1. /\ UNCHANGED <<original, owner, tomcat, apps, trees, cur, crashes, phase, status>>
        /\ phase = "copying" /\ f \in todo
        /\ \/ /\ disk' = [p \in Place |->
                    IF p[1] = "tomcat" /\ p[2] \in c
                      THEN [disk[p] EXCEPT ![f] = disk[Old(p[2])][f]] ELSE disk[p]]
              /\ todo' = todo \ {f}
           \/ /\ disk' = [p \in Place |->
                    IF p[1] = "tomcat" /\ p[2] \in c
                      THEN [disk[p] EXCEPT ![f] = Torn] ELSE disk[p]]
              /\ todo' = todo
    BY DEF CopyConfig, OnConfigs, Exists
  <2>2. \A p \in Place : p[2] \in Suffix
    BY DEF Place
  <2> HIDE DEF c
  <2>3. CASE /\ disk' = [p \in Place |->
                    IF p[1] = "tomcat" /\ p[2] \in c
                      THEN [disk[p] EXCEPT ![f] = disk[Old(p[2])][f]] ELSE disk[p]]
             /\ todo' = todo \ {f}
    BY <2>1, <2>2, <2>3
  <2>4. CASE /\ disk' = [p \in Place |->
                    IF p[1] = "tomcat" /\ p[2] \in c
                      THEN [disk[p] EXCEPT ![f] = Torn] ELSE disk[p]]
             /\ todo' = todo
    BY <2>1, <2>2, <2>4
  <2> QED BY <2>1, <2>3, <2>4
<1>2. \A s \in c : disk[Old(s)][f] \in Had(f) /\ Torn \in Had(f)
  BY <1>0 DEF Types, Had
<1>3. PICK copy : /\ Partly(copy)
                  /\ \A s \in c : copy[s] \in Had(f)
                  /\ f \notin todo' => \A s \in Suffix : copy[s] = disk[Old(s)][f]
                  /\ todo' \subseteq todo /\ todo \ {f} \subseteq todo'
  <2>1. CASE Partly([s \in Suffix |-> disk[Old(s)][f]]) /\ todo' = todo \ {f}
    <3> DEFINE row == [s \in Suffix |-> disk[Old(s)][f]]
    <3>1. /\ \A s \in c : row[s] \in Had(f)
          /\ \A s \in Suffix : row[s] = disk[Old(s)][f]
      BY <1>2
    <3>2. Partly(row) /\ todo' \subseteq todo /\ todo \ {f} \subseteq todo'
      BY <2>1
    <3> HIDE DEF Partly, c, row
    <3> QED BY <3>1, <3>2
  <2>2. CASE Partly([s \in Suffix |-> Torn]) /\ todo' = todo
    <3>1. \A s \in c : [t \in Suffix |-> Torn][s] \in Had(f)
      BY <1>2
    <3> HIDE DEF Partly, c
    <3> QED BY <1>1, <2>2, <3>1
  <2> QED BY <1>1, <2>1, <2>2
<1>4. /\ \A s \in Suffix, g \in File :
           /\ disk'[Old(s)][g] = disk[Old(s)][g]
           /\ disk'[New(s)][g] = IF g = f /\ s \in c THEN copy[s] ELSE disk[New(s)][g]
      /\ disk' \in [Place -> [File -> Contents]]
  <2>1. \A s \in Suffix : /\ Old(s) \in Place /\ Old(s)[1] # "tomcat"
                          /\ New(s) \in Place /\ New(s)[1] = "tomcat" /\ New(s)[2] = s
    BY DEF Place, Old, New
  <2>2. disk \in [Place -> [File -> Contents]] /\ \A s \in c : copy[s] \in Contents
    BY <1>0, <1>3 DEF Types, Contents
  <2> HIDE DEF c, Old, New
  <2>3. disk' = [p \in Place |-> IF p[1] = "tomcat" /\ p[2] \in c
                                   THEN [disk[p] EXCEPT ![f] = copy[p[2]]] ELSE disk[p]]
    BY <1>3
  <2>4. disk' \in [Place -> [File -> Contents]]
    BY <2>2, <2>3
  <2>5. ASSUME NEW s \in Suffix, NEW g \in File
        PROVE  /\ disk'[Old(s)][g] = disk[Old(s)][g]
               /\ disk'[New(s)][g] = IF g = f /\ s \in c THEN copy[s] ELSE disk[New(s)][g]
    <3>1. disk'[Old(s)] = disk[Old(s)]
      BY <2>1, <2>3
    <3>2. disk'[New(s)] = IF s \in c THEN [disk[New(s)] EXCEPT ![f] = copy[s]] ELSE disk[New(s)]
      BY <2>1, <2>3
    <3>3. disk[New(s)] \in [File -> Contents]
      BY <2>1, <2>2
    <3> QED BY <3>1, <3>2, <3>3
  <2> QED BY <2>4, <2>5
<1> HIDE DEF Partly
<1>5. \A g \in File : /\ Saved(g)' = Saved(g) /\ Main(g)' = Main(g)
                      /\ Gone(g)' = Gone(g)
  <2>1. \A g \in File : Saved(g)' = Saved(g) /\ Main(g)' = Main(g)
    BY <1>4, Places DEF Saved, Main
  <2> QED BY <2>1 DEF Gone
<1>6. Types'
  <2>1. \A g \in File :
          /\ original'[g] \in {NoFile} \cup Document[g]
          /\ \A s \in Suffix : /\ disk'[Old(s)][g] \in {NoFile} \cup Had(g)'
                               /\ disk'[New(s)][g] \in {NoFile, Default} \cup Had(g)'
          /\ trees'[g] \in {NoTree} \cup (Had(g)' \ {Torn})
    BY <1>0, <1>1, <1>3, <1>4, OriginalFrame DEF Types
  <2>2. disk' \in [Place -> [File -> Contents']]
    BY <1>1, <1>4, OriginalFrame
  <2>3. todo' \subseteq File
    BY <1>0, <1>3 DEF Types
  <2> QED BY <1>0, <1>1, <2>1, <2>2, <2>3 DEF Types, Dirs
<1>7. Unsaved'
  BY <1>0, <1>1, <1>4, <1>5, Places DEF Unsaved, Saved
<1>8. Kept'
  <2>1. SUFFICES ASSUME NEW g \in File, original[g] # NoFile
                 PROVE  \E s \in Suffix :
                          \/ disk'[Old(s)][g] \in Intact(g)
                          \/ disk'[Old(s)][g] = NoFile /\ disk'[New(s)][g] \in Intact(g)
    BY <1>1, OriginalFrame DEF Kept
  <2>2. PICK s \in Suffix : \/ disk[Old(s)][g] \in Intact(g)
                            \/ disk[Old(s)][g] = NoFile /\ disk[New(s)][g] \in Intact(g)
    BY <1>0, <2>1 DEF Kept
  <2>3. disk[Old(s)][g] = NoFile => disk'[New(s)][g] = disk[New(s)][g]
    BY <1>4
  <2> QED BY <1>4, <2>2, <2>3
<1>9. Copied'
  <2>1. SUFFICES ASSUME NEW g \in File, g \notin todo', NEW s \in Suffix, disk[Old(s)][g] # NoFile
                 PROVE  disk'[New(s)][g] = disk[Old(s)][g]
    BY <1>1, <1>4 DEF Copied, IsCopied
  <2>2. CASE g = f
    BY <1>3, <1>4, <2>1, <2>2
  <2>3. CASE g # f
    <3>1. IsCopied(g)
      BY <1>0, <1>1, <1>3, <2>1, <2>3 DEF Copied
    <3> QED BY <1>4, <2>1, <2>3, <3>1 DEF IsCopied
  <2> QED BY <2>2, <2>3
<1>10. Arrived'
  <2> SUFFICES ASSUME NEW g \in File, Wanted(g)
               PROVE  /\ Main(g) = Due(g) \/ Gone(g)
                      /\ Gone(g) => disk'[New("")][g] = Due(g)
    BY <1>1, <1>5, OriginalFrame DEF Arrived, Rewriting, Moving
  <2>1. (Main(g) = Due(g) \/ Gone(g)) /\ (Gone(g) => disk[New("")][g] = Due(g))
    BY <1>0, <1>1 DEF Arrived, Moving
  <2>2. Main(g) = NoFile => disk'[New("")][g] = disk[New("")][g]
    BY <1>4, Places DEF Main
  <2> QED BY <2>1, <2>2 DEF Gone
<1>11. Loop' /\ Apps'
  BY <1>1 DEF Loop, Apps, Rewriting
<1> QED BY <1>6, <1>7, <1>8, <1>9, <1>10, <1>11 DEF IInv

(* What is removed has been copied.                                        *)
LEMMA RemoveConfigKeeps ==
    ASSUME IInv, NEW p \in Place, NEW f \in File, RemoveConfig(p, f)
    PROVE  IInv'
<1>0. Types /\ Unsaved /\ Kept /\ Copied /\ Arrived
  BY DEF IInv
<1>1. /\ UNCHANGED <<original, owner, tomcat, apps, trees, cur, crashes, phase, todo, status>>
      /\ phase = "removing" /\ p[1] = "tomcat6" /\ Put(p, f, NoFile)
  BY DEF RemoveConfig, OnConfigs, Leftovers
<1>2. PICK s \in Suffix : p = Old(s)
  <2>1. \A s \in Suffix : New(s)[1] # "tomcat6"
    BY DEF New
  <2> QED BY <1>1, <2>1, Places
<1>3. /\ Types'
      /\ \A t \in Suffix, g \in File :
           /\ disk'[Old(t)][g] = IF t = s /\ g = f THEN NoFile ELSE disk[Old(t)][g]
           /\ disk'[New(t)][g] = disk[New(t)][g]
  <2>1. /\ NoFile \in {NoFile} \cup Had(f) /\ Put(Old(s), f, NoFile)
        /\ phase' \in Phases /\ todo' \subseteq File /\ cur' \in File \cup {NoFile}
    BY <1>0, <1>1, <1>2 DEF Types
  <2>2. Types' /\ OnlyOld(s, f, NoFile)
    <3> HIDE DEF Put
    <3> QED BY <1>1, <2>1, PutOld
  <2> QED BY <2>2 DEF OnlyOld
<1>4. Unsaved'
  BY <1>0, <1>1, <1>3, Places DEF Unsaved, Saved
<1>5. \A g \in File : IsCopied(g)
  BY <1>0, <1>1 DEF Copied
<1>6. Kept'
  <2>1. SUFFICES ASSUME NEW g \in File, original[g] # NoFile
                 PROVE  \E t \in Suffix :
                          \/ disk'[Old(t)][g] \in Intact(g)
                          \/ disk'[Old(t)][g] = NoFile /\ disk'[New(t)][g] \in Intact(g)
    BY <1>1, OriginalFrame DEF Kept
  <2>2. PICK t \in Suffix : \/ disk[Old(t)][g] \in Intact(g)
                            \/ disk[Old(t)][g] = NoFile /\ disk[New(t)][g] \in Intact(g)
    BY <1>0, <2>1 DEF Kept
  <2>3. NoFile \notin Intact(g)
    BY <1>0, <2>1, IntactFacts DEF Types
  <2>4. disk[New(t)][g] \in Intact(g)  \/ disk'[Old(t)][g] \in Intact(g)
    BY <1>3, <1>5, <2>2, <2>3 DEF IsCopied
  <2>5. disk'[Old(t)][g] \in Intact(g) \/ disk'[Old(t)][g] = NoFile
    BY <1>3, <2>2
  <2> QED BY <1>3, <2>4, <2>5
<1>7. Copied'
  BY <1>1, <1>3, <1>5 DEF Copied, IsCopied
<1>8. Arrived'
  <2> SUFFICES ASSUME NEW g \in File, Wanted(g)
               PROVE  disk'[New("")][g] = Due(g)
    BY <1>1, OriginalFrame DEF Arrived, Rewriting, Moving
  <2>1. disk[New("")][g] = Due(g)
    BY <1>0, <1>1 DEF Arrived
  <2> QED BY <1>3, <2>1, Places
<1>9. Loop' /\ Apps'
  BY <1>1 DEF Loop, Apps, Rewriting
<1> QED BY <1>3, <1>4, <1>6, <1>7, <1>8, <1>9 DEF IInv

(* The removed package leaves a changed file under the suffix .rpmsave,    *)
(* where there was none before.                                            *)
LEMMA EraseOldKeeps ==
    ASSUME IInv, EraseOld
    PROVE  IInv'
<1>0. Types /\ Unsaved /\ Kept /\ Arrived
  BY DEF IInv
<1>1. /\ UNCHANGED <<original, tomcat, apps, trees, todo, cur, status, crashes>>
      /\ phase' \in {"done", "failed"}
  BY DEF EraseOld, memory
<1>2. phase' \in Phases /\ phase' \notin Rewriting \cup Moving \cup {"correct", "removing"}
  BY <1>1 DEF Phases, Ended, Rewriting, Moving
<1>3. CASE UNCHANGED <<disk, owner>>
  <2>1. Types'
    BY <1>0, <1>1, <1>2, <1>3, TypesFrame DEF Types
  <2>2. Unsaved' /\ Kept' /\ Loop' /\ Copied' /\ Arrived' /\ Apps'
    BY <1>1, <1>2, <1>3, <2>1, Quiet DEF Moving
  <2> QED BY <2>1, <2>2 DEF IInv
<1>4. CASE ~ UNCHANGED <<disk, owner>>
  <2>1. /\ owner /\ owner' = FALSE
        /\ disk' = [disk EXCEPT
               ![Old(".rpmsave")] = [f \in File |-> IF Exists(Old(""), f) THEN disk[Old("")][f]
                                                    ELSE @[f]],
               ![Old("")] = [f \in File |-> NoFile]]
    BY <1>4 DEF EraseOld
  <2>2. /\ \A t \in Suffix, g \in File :
             /\ disk'[Old(t)][g] = CASE t = "" -> NoFile
                                     [] t = ".rpmsave" -> IF Main(g) # NoFile THEN Main(g) ELSE Saved(g)
                                     [] OTHER -> disk[Old(t)][g]
             /\ disk'[New(t)][g] = disk[New(t)][g]
        /\ disk' \in [Place -> [File -> Contents]]
    <3>1. disk \in [Place -> [File -> Contents]] /\ NoFile \in Contents
      BY <1>0 DEF Types, Contents
    <3>2. /\ \A s \in Suffix : Old(s) \in Place /\ New(s) \in Place
          /\ \A s, t \in Suffix : Old(s) # New(t) /\ (Old(s) = Old(t) => s = t)
          /\ "" \in Suffix /\ ".rpmsave" \in Suffix
      BY Places
    <3> HIDE DEF Old, New
    <3>3. \A q \in Place, g \in File :
            disk'[q][g] = CASE q = Old("") -> NoFile
                            [] q = Old(".rpmsave") -> IF Main(g) # NoFile THEN Main(g) ELSE Saved(g)
                            [] OTHER -> disk[q][g]
      BY <2>1, <3>1, <3>2 DEF Main, Saved, Exists
    <3>4. disk' \in [Place -> [File -> Contents]]
      <4>1. PICK row : row = [f \in File |-> IF Exists(Old(""), f) THEN disk[Old("")][f]
                                             ELSE disk[Old(".rpmsave")][f]]
        OBVIOUS
      <4>2. \A q \in Place : disk[q] \in [File -> Contents]
        BY <3>1
      <4>3. row \in [File -> Contents]
        <5>1. disk[Old("")] \in [File -> Contents] /\ disk[Old(".rpmsave")] \in [File -> Contents]
          BY <3>2, <4>2
        <5> HIDE DEF Old
        <5>2. \A g \in File : disk[Old("")][g] \in Contents /\ disk[Old(".rpmsave")][g] \in Contents
          BY <5>1
        <5> QED BY <4>1, <5>2
      <4>4. disk' = [disk EXCEPT ![Old(".rpmsave")] = row, ![Old("")] = [f \in File |-> NoFile]]
        BY <2>1, <3>1, <3>2, <4>1
      <4> QED BY <3>1, <3>2, <4>3, <4>4
    <3> QED BY <3>2, <3>3, <3>4
  <2>3. \A g \in File : /\ Main(g)' = NoFile
                        /\ Saved(g)' = IF Main(g) # NoFile THEN Main(g) ELSE Saved(g)
    BY <2>2, Places DEF Main, Saved
  <2>4. \A g \in File : Gone(g)' => Gone(g)
    BY <2>3 DEF Gone
  <2>5. Types'
    <3>1. ASSUME NEW g \in File
          PROVE  /\ original'[g] \in {NoFile} \cup Document[g]
                 /\ \A s \in Suffix : /\ disk'[Old(s)][g] \in {NoFile} \cup Had(g)'
                                      /\ disk'[New(s)][g] \in {NoFile, Default} \cup Had(g)'
                 /\ trees'[g] \in {NoTree} \cup (Had(g)' \ {Torn})
      <4>1. Main(g) \in {NoFile} \cup Had(g) /\ Saved(g) \in {NoFile} \cup Had(g)
        BY <1>0, Places DEF Types, Main, Saved
      <4>2. /\ original[g] \in {NoFile} \cup Document[g]
            /\ trees[g] \in {NoTree} \cup (Had(g) \ {Torn})
            /\ \A s \in Suffix : /\ disk[Old(s)][g] \in {NoFile} \cup Had(g)
                                 /\ disk[New(s)][g] \in {NoFile, Default} \cup Had(g)
        BY <1>0 DEF Types
      <4>3. \A s \in Suffix : disk'[Old(s)][g] \in {NoFile} \cup Had(g)
        BY <2>2, <4>1, <4>2
      <4> QED BY <1>1, <2>2, <4>2, <4>3, OriginalFrame
    <3>2. disk' \in [Place -> [File -> Contents']]
      BY <1>1, <2>2, OriginalFrame
    <3> QED BY <1>0, <1>1, <1>2, <2>1, <3>1, <3>2 DEF Types, Dirs
  <2>6. Unsaved'
    BY <2>1 DEF Unsaved
  <2>7. Kept'
    <3>1. SUFFICES ASSUME NEW g \in File, original[g] # NoFile
                   PROVE  \E t \in Suffix :
                            \/ disk'[Old(t)][g] \in Intact(g)
                            \/ disk'[Old(t)][g] = NoFile /\ disk'[New(t)][g] \in Intact(g)
      BY <1>1, OriginalFrame DEF Kept
    <3>2. PICK t \in Suffix : \/ disk[Old(t)][g] \in Intact(g)
                              \/ disk[Old(t)][g] = NoFile /\ disk[New(t)][g] \in Intact(g)
      BY <1>0, <3>1 DEF Kept
    <3>3. NoFile \notin Intact(g)
      BY <1>0, <3>1, IntactFacts DEF Types
    <3>4. Saved(g) = NoFile /\ disk[New(".rpmsave")][g] = NoFile
      BY <1>0, <2>1 DEF Unsaved
    <3>5. CASE t = "" /\ Main(g) \in Intact(g)
      <4>1. disk'[Old(".rpmsave")][g] \in Intact(g)
        BY <2>3, <3>3, <3>5 DEF Saved
      <4> QED BY <4>1, Places
    <3>6. CASE t = "" /\ Main(g) \notin Intact(g)
      BY <2>2, <3>2, <3>6, Places DEF Main
    <3>7. CASE t = ".orig_backup"
      BY <2>2, <3>2, <3>7, Places
    <3>8. t # ".rpmsave"
      BY <3>2, <3>3, <3>4 DEF Saved
    <3> QED BY <3>5, <3>6, <3>7, <3>8 DEF Suffix
  <2>8. Arrived'
    <3> SUFFICES ASSUME NEW g \in File, Wanted(g), Gone(g)'
                 PROVE  disk'[New("")][g] = Due(g)
      BY <1>1, <1>2, OriginalFrame DEF Arrived
    <3> QED BY <1>0, <2>2, <2>4, Places DEF Arrived
  <2>9. Loop' /\ Copied' /\ Apps'
    BY <1>1 DEF Loop, Copied, Apps, Rewriting
  <2> QED BY <2>5, <2>6, <2>7, <2>8, <2>9 DEF IInv
<1> QED BY <1>3, <1>4

----------------------------------------------------------------------------
(* The steps together                                                      *)

LEMMA StepIInv ==
    ASSUME IInv, [Next]_vars
    PROVE  IInv'
<1>1. CASE Start \/ PowerLoss
  BY <1>1, StartKeeps
<1>2. CASE ParseFiles
  BY <1>2, ParseFilesKeeps
<1>3. CASE CheckFiles
  BY <1>3, CheckFilesKeeps
<1>4. CASE \E f \in File : Rewrite(f)
  BY <1>4, RewriteKeeps
<1>5. CASE BackupDone
  BY <1>5, BackupDoneKeeps
<1>6. CASE WriteBegin
  BY <1>6, WriteBeginKeeps
<1>7. CASE WriteEnd
  BY <1>7, WriteEndKeeps
<1>8. CASE YumInstall
  BY <1>8, YumInstallKeeps
<1>9. CASE MoveApps
  BY <1>9, MoveAppsKeeps
<1>10. CASE BetweenConfigs
  BY <1>10, BetweenConfigsKeeps
<1>11. CASE \E f \in File : CopyConfig(f)
  BY <1>11, CopyConfigKeeps
<1>12. CASE \E f \in File : \E p \in Place : RemoveConfig(p, f)
  BY <1>12, RemoveConfigKeeps
<1>13. CASE EraseOld
  BY <1>13, EraseOldKeeps
<1>14. CASE Stopped \/ UNCHANGED vars
  BY <1>14, StoppedKeeps DEF Stopped
<1> QED BY <1>1, <1>2, <1>3, <1>4, <1>5, <1>6, <1>7, <1>8, <1>9, <1>10, <1>11, <1>12, <1>13, <1>14
        DEF Next, Script, MoveApps, BetweenConfigs

(* Every state of the script satisfies the inductive invariant.            *)
THEOREM Invariance == Spec => []IInv
<1>1. Init => IInv
  BY InitIInv
<1>2. IInv /\ [Next]_vars => IInv'
  BY StepIInv
<1> QED BY <1>1, <1>2, PTL DEF Spec

(* A file only ever holds what the user wrote, its correction, the default *)
(* or a part of one of these, and every other variable keeps its type.     *)
THEOREM TypesCorrect == Spec => []TypeOK
<1>1. ASSUME IInv PROVE TypeOK
  <2>0. Types
    BY <1>1 DEF IInv
  <2>1. ASSUME NEW f \in File
        PROVE  Had(f) \subseteq Content(f) /\ Had(f) \cap {NoFile, Default} = {}
    <3>1. CASE original[f] = NoFile
      BY <3>1 DEF Had
    <3>2. CASE original[f] \in Document[f]
      <4>1. Had(f) = {original[f], Due(f)} \cup {Torn}
        BY <3>2, IntactFacts
      <4>2. {NoFile, Default} \cap {original[f], Due(f), Torn} = {}
        BY <3>2, IntactFacts, TomcatAssumption
      <4>3. Due(f) \in {Converted(f, doc) : doc \in Document[f]}
        BY <3>2 DEF Due
      <4> QED BY <3>2, <4>1, <4>2, <4>3 DEF Content
    <3> QED BY <2>0, <3>1, <3>2 DEF Types
  <2>2. \A p \in Place, f \in File : disk[p][f] \in Content(f)
    <3>1. \A f \in File : {NoFile, Default} \cup Had(f) \subseteq Content(f)
      BY <2>1 DEF Content
    <3> QED BY <2>0, <3>1, Places DEF Types
  <2>3. \A f \in File : disk[Old("")][f] # Default
    <3>1. \A f \in File : disk[Old("")][f] \in {NoFile} \cup Had(f)
      BY <2>0, Places DEF Types
    <3>2. NoFile # Default
      BY TomcatAssumption
    <3> QED BY <2>1, <3>1, <3>2
  <2>4. \A f \in File : trees[f] \in {NoTree} \cup (Content(f) \ {NoFile, Torn, Default})
    BY <2>0, <2>1 DEF Types
  <2>5. {apps.old, apps.new, apps.backup} \subseteq {NoDir} \cup SUBSET {"user", "pkg", "part", "nested"}
    BY <2>0 DEF Types, Dirs
  <2> QED BY <2>0, <2>2, <2>3, <2>4, <2>5 DEF Types, TypeOK
<1> QED BY <1>1, Invariance, PTL

(* What the user wrote into a configuration file is complete somewhere at  *)
(* any time, for any files, however often the power is lost.               *)
THEOREM ConfigsAlwaysKept == Spec => []ConfigsKept
<1>1. ASSUME IInv PROVE ConfigsKept
  <2>1. \A s \in Suffix : Old(s) \in Place /\ New(s) \in Place
    BY Places
  <2> HIDE DEF Old, New
  <2>2. Kept
    BY <1>1 DEF IInv
  <2> QED BY <2>1, <2>2 DEF Kept, ConfigsKept
<1> QED BY <1>1, Invariance, PTL

(* A configuration file only leaves the old directory when the new one has *)
(* it complete and corrected, whatever is in it and however often the      *)
(* script started.                                                         *)
THEOREM AlwaysInPlace == Spec => []InPlace
<1>1. ASSUME IInv PROVE InPlace
  <2>1. SUFFICES ASSUME NEW f \in File, Wanted(f), Gone(f)
                 PROVE  /\ disk[New("")][f] \notin {NoFile, Torn, Default}
                        /\ Migrated(f, original[f].tree, disk[New("")][f].tree)
    BY DEF InPlace, Wanted, Gone, Main, Saved, Exists
  <2>2. original[f] \in Document[f]
    BY <1>1, <2>1 DEF IInv, Types, Wanted
  <2>3. disk[New("")][f] = Due(f)
    BY <1>1, <2>1 DEF IInv, Arrived
  <2>4. Due(f) \notin {NoFile, Torn, Default}
    BY <2>2, IntactFacts
  <2>5. PICK tree, trailing : original[f] = [tree |-> tree, trailing |-> trailing] /\ IsTree(tree)
    <3>1. /\ original[f] = [tree |-> original[f].tree, trailing |-> original[f].trailing]
          /\ IsTree(original[f].tree)
      BY <2>2, TomcatAssumption
    <3> QED BY <3>1
  <2>6. Due(f).tree = Corrected(f, tree)
    BY <2>5 DEF Due, Converted
  <2>7. Migrated(f, tree, Corrected(f, tree))
    BY <2>5, TreeCorrected
  <2>8. original[f].tree = tree
    BY <2>5
  <2> QED BY <2>3, <2>4, <2>6, <2>7, <2>8
<1> QED BY <1>1, Invariance, PTL

(* No step loses the last complete copy of the applications of the user,   *)
(* or of those that the new package brought.                               *)
THEOREM WebappsAlwaysKept == Spec => WebappsKept
<1> DEFINE Holds == \A what \in {"user", "pkg"} : Holding(what) # {} => Holding(what)' # {}
<1>1. ASSUME IInv, [Next]_vars PROVE [Holds]_vars
  <2>1. CASE UNCHANGED apps
    <3>1. \A what : Holding(what)' = Holding(what)
      BY <2>1 DEF Holding
    <3> QED BY <3>1
  <2>2. CASE MoveApps
    BY <1>1, <2>2, AppsStep DEF IInv
  <2>3. CASE YumInstall
    BY <1>1, <2>3, YumInstallKeeps
  <2>4. UNCHANGED apps \/ MoveApps \/ YumInstall
    <3>1. CASE \/ Start \/ ParseFiles \/ CheckFiles \/ \E f \in File : Rewrite(f)
               \/ BackupDone \/ WriteBegin \/ WriteEnd
      BY <3>1 DEF Start, ParseFiles, CheckFiles, Rewrite, BackupDone, WriteBegin, WriteEnd, OnDisk, machine
    <3>2. CASE \/ BetweenConfigs \/ \E f \in File : CopyConfig(f)
               \/ \E f \in File : \E p \in Place : RemoveConfig(p, f)
      BY <3>2 DEF BetweenConfigs, NoConfigs, CopyFails, CopyConfigs, CopyDone, RemoveDone, CopyConfig,
                  RemoveConfig, OnConfigs
    <3>3. CASE EraseOld \/ PowerLoss \/ Stopped \/ UNCHANGED vars
      BY <3>3 DEF EraseOld, PowerLoss, Stopped, machine, vars
    <3> QED BY <1>1, <3>1, <3>2, <3>3 DEF Next, Script, MoveApps, BetweenConfigs
  <2> QED BY <2>1, <2>2, <2>3, <2>4
<1> QED BY <1>1, Invariance, PTL DEF Spec, WebappsKept
=============================================================================
