--------------------------- MODULE MCLabSessions ---------------------------
(* One student, one session or three. *)
EXTENDS LabSessions, TLC

CONSTANTS lab1, lab2, lab3

MCOneLab == {lab1}
MCThreeLabs == {lab1, lab2, lab3}
MCSymmetry == Permutations(MCThreeLabs)
=============================================================================
