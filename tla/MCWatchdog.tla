----------------------------- MODULE MCWatchdog -----------------------------
(***************************************************************************)
(* Instances of Watchdog: antivirus, amavis and mta, with the DEPENDS of   *)
(* docs/restart-behavior.md.                                               *)
(***************************************************************************)
EXTENDS Watchdog

CONSTANTS antivirus, amavis, mta

MCStartOrder == [s \in Services |-> CASE s = amavis -> 75 [] s = antivirus -> 90 [] s = mta -> 150]

\* Each service is followed by the next one of the chain that exists.
Chain ==
  [s \in Services |->
     CASE s = antivirus -> IF amavis \in Services THEN {amavis} ELSE {mta} \cap Services
       [] s = amavis -> {mta} \cap Services
       [] s = mta -> {}]

MCDepMaps == {Chain}

Plain == [dry |-> FALSE, enabled |-> TRUE, skip |-> FALSE]

Disabled == [Plain EXCEPT !.enabled = FALSE]

MCDefaults == {Plain}

MCRestarting == {Plain, Disabled, [Plain EXCEPT !.dry = TRUE]}

MCPolling == {Plain, Disabled, [Plain EXCEPT !.skip = TRUE]}
=============================================================================
