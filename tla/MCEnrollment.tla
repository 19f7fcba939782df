---------------------------- MODULE MCEnrollment ----------------------------
(***************************************************************************)
(* Instances of Enrollment for TLC.                                         *)
(***************************************************************************)
EXTENDS Enrollment

\* No usable frame, and enough of them for three buckets by yaw (an earlier enrolment
\* has a single template).
FewFrames == {0, 12}
=============================================================================
