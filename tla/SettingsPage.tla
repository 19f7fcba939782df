---------------------------- MODULE SettingsPage ----------------------------
(***************************************************************************)
(* The Settings tab: the camera and its mode, linked and guarded by the     *)
(* risk dialog, and the confirmation modes.  The file is loaded once, when  *)
(* the window is made; only Refresh looks at the cameras again.  The risk   *)
(* dialog lets nobody use the page while it is up: its answer is part of    *)
(* the step that asks.                                                      *)
(***************************************************************************)
EXTENDS EnrollHelperRunner

CONSTANT Prompts     \* choices of the two confirmation modes, [confirm, greeter]

VARIABLE form        \* shown and last confirmed camera (by index) and mode, the rest;
                     \* history: configured, the path loaded; chose, by the user?

\* Mutant of populated: the camera confirmed last is not the one that is found.
FoundOnly(now, want) ==
    LET s == selectCameraDevice(listCameras(plugged), want) IN
    [now EXCEPT !.cameras = s.devices, !.device = s.index,
                !.sureMode = s.mode, !.mode = selectCameraMode(s.devices[s.index], s.mode)]

\* populateCameraDeviceCombo, with populateCameraModeCombo.
populated(now, want) ==
    LET s == selectCameraDevice(listCameras(plugged), want) IN
    [now EXCEPT !.cameras = s.devices, !.device = s.index, !.sureDevice = s.index,
                !.sureMode = s.mode, !.mode = selectCameraMode(s.devices[s.index], s.mode)]

\* loadCurrentConfig, in the constructor.
FormInit ==
    LET config == IF conf = None THEN defaults ELSE load(conf) IN
    form = populated([cameras |-> <<>>, device |-> 0, sureDevice |-> 0, mode |-> NoMode,
                      sureMode |-> NoMode, confirm |-> config.confirm,
                      greeter |-> config.greeter, configured |-> config.path, chose |-> FALSE],
                     config)

Shown == form.cameras[form.device]

\* The stream that Refresh looks for and Save saves.
shownStream == IF form.mode = "rgb" THEN Shown.rgb ELSE Shown.ir

unchangedBySettings ==
    UNCHANGED <<systemVars, helper, asked, trouble, runs, mishaps>>

-----------------------------------------------------------------------------

onRefreshCamerasClicked ==
    /\ form' = populated(form,
          IF shownStream = None THEN defaults
          ELSE [defaults EXCEPT !.path = shownStream.path, !.format = shownStream.format,
                                !.mode = form.mode, !.size = shownStream.size])
    /\ UNCHANGED acked /\ unchangedBySettings

\* RiskDisclaimerDialog::confirm, where the mode is RGB.
confirmed(mode) == IF mode = "rgb" THEN acked' = TRUE ELSE UNCHANGED acked

onCameraDeviceChanged ==
    /\ \E i \in DOMAIN form.cameras \ {form.device} :
         LET desired == resolveModeForDeviceChange(form.cameras[i], form.sureMode) IN
         /\ confirmed(desired)
         /\ form' = [form EXCEPT !.device = i, !.sureDevice = i, !.sureMode = desired,
                                 !.mode = selectCameraMode(form.cameras[i], desired),
                                 !.chose = TRUE]
    /\ unchangedBySettings

\* The dialog is declined: the camera confirmed last is shown again.
onCameraDeviceDeclined ==
    /\ \E i \in DOMAIN form.cameras \ {form.device} :
         resolveModeForDeviceChange(form.cameras[i], form.sureMode) = "rgb"
    /\ form' = [form EXCEPT !.device = form.sureDevice]
    /\ UNCHANGED acked /\ unchangedBySettings

onCameraModeChanged ==
    /\ \E mode \in Offered(Shown) \ {form.mode} :
         /\ IF mode = form.sureMode THEN UNCHANGED acked ELSE confirmed(mode)
         /\ form' = [form EXCEPT !.mode = mode, !.sureMode = mode, !.chose = TRUE]
    /\ unchangedBySettings

\* Mutant of declinedMode: the combo box is left as the user had it.
keptMode == "rgb"

declinedMode == form.sureMode

onCameraModeDeclined ==
    /\ "rgb" \in Offered(Shown) \ {form.mode, form.sureMode}
    /\ form' = [form EXCEPT !.mode = declinedMode]
    /\ UNCHANGED acked /\ unchangedBySettings

onConfirmationModeChosen ==
    /\ \E p \in Prompts : form' = [form EXCEPT !.confirm = p.confirm, !.greeter = p.greeter]
    /\ UNCHANGED acked /\ unchangedBySettings

savedOverrides ==
    [path |-> shownStream.path, format |-> shownStream.format, mode |-> form.mode,
     size |-> shownStream.size, confirm |-> form.confirm, greeter |-> form.greeter]

onSaveClicked ==
    /\ shownStream # None
    /\ writeConfig("settings", savedOverrides)
    /\ asked' = asked \cup {k \in {"confirm", "greeter"} : form[k] = "none"}
    /\ UNCHANGED <<form, systemVars, acked, mishaps>>

onSettingsFinished ==
    /\ Finished("settings")
    /\ UNCHANGED <<form, systemVars, historyVars, trouble, runs, mishaps>>

SettingsClick ==
    \/ onRefreshCamerasClicked \/ onCameraDeviceChanged \/ onCameraDeviceDeclined
    \/ onCameraModeChanged \/ onCameraModeDeclined \/ onConfirmationModeChosen \/ onSaveClicked
=============================================================================
