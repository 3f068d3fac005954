---------------------------- MODULE MCPostClone ----------------------------
(***************************************************************************)
(* PostClone for TLC: two good names, a bad one, two swarms.               *)
(***************************************************************************)
EXTENDS PostClone

CONSTANTS n1, n2, bad, school, home

MCValid == {n1, n2}
MCSwarms == {school, home}
=============================================================================
