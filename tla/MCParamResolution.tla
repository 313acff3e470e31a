------------------------- MODULE MCParamResolution -------------------------
(* A machine listing up to two profile names, among them a dangling one,  *)
(* a stage whose one-profile list may name either profile, a profile and  *)
(* the global profile, and two param names.                               *)
EXTENDS ParamResolution, TLC

CONSTANTS m, p1, g, px, s, nostage, k1, k2

MCProfiles == {p1, g}
MCNames == {k1, k2}

\* Every definition treats the param names alike.
NameSymmetry == Permutations(MCNames)
=============================================================================
