---------------------------- MODULE MCNucInstall ----------------------------
(***************************************************************************)
(* NucInstall for TLC: two maintainers' keys.                              *)
(***************************************************************************)
EXTENDS NucInstall

CONSTANTS k1, k2

MCKeys == {k1, k2}
=============================================================================
