--------------------------- MODULE MCSkillRegistry ---------------------------
(* Instances of SkillRegistry for TLC. *)
EXTENDS SkillRegistry

CONSTANTS p0, s0

MCPackages    == {p0}
MCSkills      == {s0}
MCNameOf(x)   == None
MCCompiles(x) == TRUE
MCTree(g, k)  == p0
=============================================================================
