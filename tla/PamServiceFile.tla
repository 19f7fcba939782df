-------------------------- MODULE PamServiceFile --------------------------
(***************************************************************************)
(* What the enable and disable commands promise of one file of /etc/pam.d   *)
(* and its backup: whatever fails and whenever the machine stops, the file  *)
(* is at every moment one that an administrator wrote, or a whole edit of   *)
(* one it held before; and the backup is written once, whole, and never     *)
(* changes after that.                                                      *)
(***************************************************************************)
EXTENDS PamServiceConfig

CONSTANTS AdminContents,     \* what an administrator may write
          Missing            \* no such file

VARIABLES service, backup,   \* what the two names hold
          held               \* every content the service file has had

vars == <<service, backup, held>>

Init ==
    /\ service \in AdminContents \cup {Missing}
    /\ backup = Missing
    /\ held = {service} \ {Missing}

Replace(content) ==
    /\ service' = content
    /\ held' = held \cup {content}
    /\ UNCHANGED backup

AdminEdit == \E content \in AdminContents : Replace(content)

Enable ==
    \E content \in held :
        /\ detectPamFacialState(content) = "Absent"
        /\ backup # Missing
        /\ Replace(enableInContent(content))

Disable == \E content \in held : Replace(disableInContent(content))

Save ==
    /\ backup = Missing
    /\ backup' \in held
    /\ UNCHANGED <<service, held>>

Next == AdminEdit \/ Enable \/ Disable \/ Save

Spec == Init /\ [][Next]_vars
=============================================================================
