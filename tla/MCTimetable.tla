---------------------------- MODULE MCTimetable ----------------------------
(* Instances of Timetable for TLC.                                          *)
EXTENDS Timetable, TLC

RegistrarSymmetry == Permutations(Registrar)
=============================================================================
