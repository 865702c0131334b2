---------------------------- MODULE MCWatchSession ----------------------------
(***************************************************************************)
(* WatchSession for TLC: app depends on lib, app is in scope.  Two         *)
(* sessions, two edits of modules with two contents and one overflow:      *)
(* enough for an edit and its undoing around one tool, and for a cache     *)
(* that a session which died left behind.                                  *)
(***************************************************************************)
EXTENDS WatchSession, TLC

CONSTANTS lib, app

MCModules == {lib, app}
MCDeps == (lib :> {}) @@ (app :> {lib})
===============================================================================
