---------------------------- MODULE MC_Dashboard ----------------------------
(***************************************************************************)
(* The app with two admin pages, a command line, one repair, two parts.    *)
(***************************************************************************)
EXTENDS Dashboard

CONSTANTS app, shell, page1, page2, command

MCProcessOf == [w \in {page1, page2, command} |-> IF w = command THEN shell ELSE app]

=============================================================================
