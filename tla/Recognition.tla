---------------------------- MODULE Recognition ----------------------------
(***************************************************************************)
(* What enrolment and verification promise together, for one user.  There is *)
(* at most one enrolment in force, always a whole one, and a new one comes    *)
(* into force only when none is.  A verification that concludes match or no   *)
(* match did so against an enrolment that was in force, whole, when it        *)
(* looked; it may conclude on it after that has been replaced or deleted.     *)
(***************************************************************************)
CONSTANTS Procs, Enrollments, None

VARIABLES enrolled,    \* the enrolment in force
          known,       \* the one each verification has loaded
          said         \* what each command concluded

vars == <<enrolled, known, said>>

Verdicts == {"match", "no_match"}

Init ==
    /\ enrolled \in Enrollments \cup {None}
    /\ known = [p \in Procs |-> None]
    /\ said = [p \in Procs |-> "none"]

\* A deletion, or the beginning of a save.
Forget ==
    /\ enrolled' = None
    /\ UNCHANGED <<known, said>>

Install ==
    /\ enrolled = None
    /\ enrolled' \in Enrollments
    /\ UNCHANGED <<known, said>>

Look(p) ==
    /\ known[p] = None /\ enrolled # None
    /\ known' = [known EXCEPT ![p] = enrolled]
    /\ UNCHANGED <<enrolled, said>>

Begin(p) ==
    /\ known[p] = None
    /\ said' = [said EXCEPT ![p] = "none"]
    /\ UNCHANGED <<enrolled, known>>

Conclude(p) ==
    /\ \E v \in {"ok", "error", "unavailable", "cut_off"} \cup
               (IF known[p] = None THEN {} ELSE Verdicts) :
         said' = [said EXCEPT ![p] = v]
    /\ known' = [known EXCEPT ![p] = None]
    /\ UNCHANGED enrolled

Next == Forget \/ Install \/ \E p \in Procs : Look(p) \/ Begin(p) \/ Conclude(p)

Spec == Init /\ [][Next]_vars
=============================================================================
