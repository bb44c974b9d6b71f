------------------------------- MODULE MC_Login -------------------------------
(***************************************************************************)
(* Two tabs of one browser, a few passwords typed, a throttle whose        *)
(* window lasts a few seconds.                                             *)
(***************************************************************************)
EXTENDS Login

MCBrowserOf == [s \in Session |-> 1]

=============================================================================
