---------------------------- MODULE MCConfigCycle ----------------------------
(***************************************************************************)
(* A node with two services and two sections for TLC.  "net" is gated on   *)
(* mta, restarts mta, and has an if block on "flag"; "web" is gated on     *)
(* proxy and restarts both services.  Each unit asks for the rewrite of    *)
(* the section it is gated on.                                             *)
(***************************************************************************)
EXTENDS ConfigCycle

MCServices == {"mta", "proxy"}
MCSections == {"net", "web"}
MCVars     == {"host", "flag"}
MCValues   == {0, 1}
MCItems    == {"template", "setting", "attribute"}

MCRequiredVars == [s \in MCSections |-> IF s = "net" THEN {"host", "flag"} ELSE {"flag"}]
MCGate         == [s \in MCSections |-> IF s = "net" THEN "mta" ELSE "proxy"]
MCRestartOf    == [s \in MCSections |-> IF s = "net" THEN {"mta"} ELSE MCServices]
MCSectionOf    == [i \in MCItems |-> IF i = "attribute" THEN "web" ELSE "net"]
MCContent      == [i \in MCItems |-> IF i = "attribute" THEN {"flag"} ELSE {"host"}]
MCGuard        == [i \in MCItems |-> IF i = "setting" THEN {"flag"} ELSE {}]
MCStepOf       == [i \in MCItems |->
                     CASE i = "template"  -> "rewrite"
                       [] i = "setting"   -> "postconf"
                       [] i = "attribute" -> "ldap"]
MCUnitSections == [svc \in MCServices |-> IF svc = "mta" THEN {"net"} ELSE {"web"}]
MCBoots        == {{}, MCServices}
Alone          == [svc \in MCServices |-> {}]
=============================================================================
