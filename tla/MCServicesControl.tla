-------------------------- MODULE MCServicesControl -------------------------
(* a and cx: services with a unit; c: one that lost its unit and whose     *)
(* name is a prefix of the unit of cx and of a socket; x: an xinetd        *)
(* service.  The socket is enabled and disabled along with the unit of a.  *)
EXTENDS ServicesControl

MCOwn == [s \in Service |->
    CASE s = "a" -> "a.service"
      [] s = "cx" -> "cx.service" [] s = "x" -> "x.service" [] OTHER -> "nounit"]

MCPrefixed == [s \in Service |->
    CASE s = "a" -> {"a.service"}
      [] s = "c" -> {"cx.service", "cx.wants", "cy.socket"} [] s = "cx" -> {"cx.service", "cx.wants"}
      [] OTHER -> {"x.service"}]

MCAlso == [u \in Unit |-> IF u = "a.service" THEN {"cy.socket"} ELSE {}]
============================================================================
