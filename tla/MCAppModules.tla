---------------------------- MODULE MCAppModules ----------------------------
(* Two applications from one library, of which one finds the registry full.*)
EXTENDS AppModules

CONSTANTS x, y

MCApps == {x, y}
=============================================================================
