--------------------------- MODULE CameraConsent ---------------------------
(***************************************************************************)
(* What pam_facial.so promises of one pam_sm_authenticate call, with no     *)
(* process, pipe or terminal in it.  The user is asked, possibly more than  *)
(* once, and answers or not; the camera runs only after the answer "yes"    *)
(* to the question now being asked, or under a policy of never asking; an   *)
(* answer to a question that has been given up counts for nothing; and only *)
(* a match the camera found may be reported as a success.                   *)
(***************************************************************************)

Replies  == {"silent", "yes", "no"}          \* "no": anything but a yes
Findings == {"none", "match", "no_match", "unavailable"}
Results  == {"none", "PAM_SUCCESS", "PAM_AUTH_ERR", "PAM_AUTHINFO_UNAVAIL"}
Stages   == {"idle", "asking", "closed", "allowed", "capturing", "done"}

VARIABLES
    stage,    \* how far the attempt has got
    reply,    \* the user's reply to the latest question
    found,    \* what the verification concluded
    result    \* what the call returned

vars == <<stage, reply, found, result>>

TypeOK ==
    /\ stage \in Stages
    /\ reply \in Replies
    /\ found \in Findings
    /\ result \in Results

Init ==
    /\ stage = "idle"
    /\ reply = "silent"
    /\ found = "none"
    /\ result = "none"

\* Policy says not to ask.
Waive ==
    /\ stage = "idle"
    /\ stage' = "allowed"
    /\ UNCHANGED <<reply, found, result>>

\* A first question, or another one when the last could not be put to the user.
Ask ==
    /\ stage \in {"idle", "asking"}
    /\ stage' = "asking"
    /\ reply' = "silent"
    /\ UNCHANGED <<found, result>>

\* The user may answer late: the question stays answerable until it is taken away.
Reply ==
    /\ stage \in {"asking", "closed"}
    /\ reply = "silent"
    /\ reply' \in {"yes", "no"}
    /\ UNCHANGED <<stage, found, result>>

Accept ==
    /\ stage = "asking"
    /\ reply = "yes"
    /\ stage' = "allowed"
    /\ UNCHANGED <<reply, found, result>>

GiveUp ==
    /\ stage \in {"idle", "asking"}
    /\ stage' = "closed"
    /\ UNCHANGED <<reply, found, result>>

Capture ==
    /\ stage = "allowed"
    /\ stage' = "capturing"
    /\ UNCHANGED <<reply, found, result>>

Conclude ==
    /\ stage = "capturing"
    /\ found = "none"
    /\ found' \in Findings \ {"none"}
    /\ UNCHANGED <<stage, reply, result>>

\* Nothing but a match is a success; the call may always report that it could
\* not authenticate, and must when the camera never ran.
Return ==
    /\ stage # "done"
    /\ stage' = "done"
    /\ result' \in Results \ {"none"}
    /\ result' = "PAM_SUCCESS"  => stage = "capturing" /\ found = "match"
    /\ result' = "PAM_AUTH_ERR" => stage = "capturing" /\ found = "no_match"
    /\ UNCHANGED <<reply, found>>

Next ==
    \/ Waive \/ Ask \/ Reply \/ Accept \/ GiveUp
    \/ Capture \/ Conclude \/ Return

Spec == Init /\ [][Next]_vars
=============================================================================
