----------------------------- MODULE MCMainLoop -----------------------------
(* Values of MainLoop's constants for the model checker.                   *)
EXTENDS MainLoop, TLC

CONSTANTS c1, c2, a, b

NoClient   == {}
OneClient  == {c1}
TwoClients == {c1, c2}
OneSection == {a}
TwoSections == {a, b}

\* A client asks for one section or for both.
AnyRequest == SUBSET Sections \ {{}}
OneRequest == {{a}}

Symmetric == Permutations(Clients) \cup Permutations(Sections)
=============================================================================
