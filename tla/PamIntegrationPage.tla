------------------------- MODULE PamIntegrationPage -------------------------
(***************************************************************************)
(* The System Login tab: a row for each service, with the state that was    *)
(* read last and a button for it.  A click reads the file again and goes by *)
(* what it finds, not by what the button says.  The dialog that asks for    *)
(* CONFIRM lets nobody use the page while it is up, and the helper reads    *)
(* the file once more after it: the click is one step.                      *)
(***************************************************************************)
EXTENDS EnrollHelperRunner

VARIABLES
    row,       \* what each row shows
    stale      \* history: services changed by others since the rows were refreshed

PamInit == row = service /\ stale = {}

\* Mutant of refreshAll: only a row that said nothing is filled in.
refreshOnce ==
    /\ row' = [s \in Services |-> IF row[s] = "missing" THEN service[s] ELSE row[s]]
    /\ stale' = {}

refreshAll == row' = service /\ stale' = {}

showPam ==
    /\ refreshAll
    /\ UNCHANGED sharedVars

\* Nothing for a file that is not there; enabling is confirmed, removing is not.
onActionClicked ==
    /\ \E s \in Services :
         /\ row[s] # "missing" /\ service[s] # "missing"
         /\ IF service[s] = "absent" THEN enablePam("pam", s) ELSE disablePam("pam", s)
    /\ UNCHANGED <<row, stale, systemVars, historyVars, mishaps>>

onPamFinished ==
    /\ Finished("pam")
    /\ refreshAll
    /\ UNCHANGED <<systemVars, historyVars, trouble, runs, mishaps>>

PamClick == onActionClicked
=============================================================================
