------------------------------- MODULE MCLessons -------------------------------
(* Two lesson runs and two reviews of one subject.                             *)
EXTENDS Lessons, TLC

CONSTANTS v1, v2, x1, x2

MCReview == {v1, v2}
MCLessonRun == {x1, x2}
===============================================================================
