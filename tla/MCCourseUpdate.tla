--------------------------- MODULE MCCourseUpdate ---------------------------
(* Small instances of CourseUpdate for TLC.                                *)
EXTENDS CourseUpdate, TLC

Symmetry == Permutations(Workers)
============================================================================
