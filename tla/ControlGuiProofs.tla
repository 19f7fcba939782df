-------------------------- MODULE ControlGuiProofs --------------------------
(***************************************************************************)
(* Theorems about ControlGui, for all files, cameras, services, sessions    *)
(* and bounds.                                                              *)
(***************************************************************************)
EXTENDS ControlGui, TLAPS

\* Every page has a process, and nothing but these four fields.
Shape ==
    helper = [p \in Pages |-> [at |-> helper[p].at, cmd |-> helper[p].cmd,
                               loaded |-> helper[p].loaded, answer |-> helper[p].answer]]

PamOps == {"pam_enable", "pam_disable"}

\* A process that is not there has no command, and only the PAM page's edits /etc/pam.d.
Commands ==
    \A p \in Pages : /\ helper[p].at = "idle" => helper[p].cmd.op = "none"
                     /\ helper[p].cmd.op \in PamOps => p = "pam"

Processes == Shape /\ Commands

\* Process p goes on with its command; the others are where they were.
Moves(p) ==
    /\ Shape'
    /\ helper[p].at # "idle" /\ helper'[p].at # "idle"
    /\ helper'[p].cmd = helper[p].cmd
    /\ \A q \in Pages \ {p} : helper'[q] = helper[q]

LEMMA GotoMoves ==
    ASSUME Shape, NEW p \in Pages, helper[p].at # "idle",
           NEW step, step # "idle", Goto(p, step)
    PROVE  Moves(p)
BY DEF Shape, Goto, Moves

LEMMA EndMoves ==
    ASSUME Shape, NEW p \in Pages, helper[p].at # "idle", NEW answer, End(p, answer)
    PROVE  Moves(p)
<1>1. helper[p] = [at |-> helper[p].at, cmd |-> helper[p].cmd,
                   loaded |-> helper[p].loaded, answer |-> helper[p].answer]
  BY DEF Shape
<1>2. helper'[p] = [at |-> "ended", cmd |-> helper[p].cmd, loaded |-> None, answer |-> answer]
  BY <1>1 DEF Shape, End
<1>3. \A q \in Pages \ {p} : helper'[q] = helper[q]
  BY DEF Shape, End
<1>4. DOMAIN helper' = Pages /\ helper' = [q \in Pages |-> helper'[q]]
  BY DEF Shape, End
<1>5. Shape'
  BY <1>2, <1>3, <1>4 DEF Shape
<1> QED BY <1>2, <1>3, <1>5 DEF Moves

LEMMA LoadMoves ==
    ASSUME Shape, NEW p \in Pages, Load(p)
    PROVE  Moves(p)
<1>1. CASE Precheck(helper[p].cmd) # None
  BY <1>1, EndMoves DEF Load
<1>2. CASE Precheck(helper[p].cmd) = None
  <2>0. PICK step \in {"truncate", "open"} :
          \E loaded : helper' = [helper EXCEPT ![p].at = step, ![p].loaded = loaded]
    BY <1>2, Zenon DEF Load
  <2>1. PICK loaded : helper' = [helper EXCEPT ![p].at = step, ![p].loaded = loaded]
    BY <2>0
  <2>2. helper[p] = [at |-> helper[p].at, cmd |-> helper[p].cmd,
                     loaded |-> helper[p].loaded, answer |-> helper[p].answer]
    BY DEF Shape
  <2>3. helper'[p] = [at |-> step, cmd |-> helper[p].cmd,
                      loaded |-> loaded, answer |-> helper[p].answer]
    BY <2>1, <2>2 DEF Shape
  <2>4. \A q \in Pages \ {p} : helper'[q] = helper[q]
    BY <2>1 DEF Shape
  <2>5. helper' = [q \in Pages |-> helper'[q]]
    BY <2>1 DEF Shape
  <2>6. Shape'
    BY <2>3, <2>4, <2>5 DEF Shape
  <2> QED BY <2>3, <2>4, <2>6 DEF Load, Moves
<1> QED BY <1>1, <1>2

\* What a helper does leaves every command where it was, and ends none of them.
LEMMA HelperMoves ==
    ASSUME Shape, NEW p \in Pages, Helper(p)
    PROVE  Moves(p)
<1>1. CASE Refused(p)
  BY <1>1, EndMoves DEF Refused
<1>2. CASE Authorised(p)
  BY <1>2, GotoMoves DEF Authorised
<1>3. CASE Load(p)
  BY <1>3, LoadMoves
<1>4. CASE Truncate(p)
  BY <1>4, GotoMoves DEF Truncate
<1>5. CASE WriteConf(p)
  BY <1>5, GotoMoves, EndMoves DEF WriteConf, AfterWrite
<1>6. CASE WriteConfShort(p)
  BY <1>6, GotoMoves, EndMoves DEF WriteConfShort, AfterWrite
<1>7. CASE Open(p)
  BY <1>7, GotoMoves, EndMoves DEF Open
<1>8. CASE Capture(p)
  BY <1>8, GotoMoves, EndMoves DEF Capture
<1>9. CASE Apply(p)
  BY <1>9, EndMoves DEF Apply
<1>10. CASE Fails(p)
  BY <1>10, EndMoves DEF Fails
<1> QED
  BY <1>1, <1>2, <1>3, <1>4, <1>5, <1>6, <1>7, <1>8, <1>9, <1>10 DEF Helper, HelperStep

LEMMA RunMoves ==
    ASSUME Shape, NEW p \in Pages, NEW cmd, run(p, cmd)
    PROVE  /\ Shape'
           /\ helper[p].at = "idle"
           /\ helper'[p].at = "prompt" /\ helper'[p].cmd = cmd
           /\ \A q \in Pages \ {p} : helper'[q] = helper[q]
<1> DEFINE started == [at |-> "prompt", cmd |-> cmd, loaded |-> None, answer |-> "none"]
<1>1. helper' = [helper EXCEPT ![p] = started]
  BY DEF run
<1>2. helper'[p] = started /\ \A q \in Pages \ {p} : helper'[q] = helper[q]
  BY <1>1 DEF Shape
<1>3. helper' = [q \in Pages |-> helper'[q]]
  BY <1>1 DEF Shape
<1>4. Shape'
  BY <1>2, <1>3 DEF Shape
<1> QED BY <1>2, <1>4 DEF run, isBusy

LEMMA FinishedMoves ==
    ASSUME Shape, NEW p \in Pages, Finished(p)
    PROVE  /\ Shape'
           /\ helper'[p].at = "idle" /\ helper'[p].cmd.op = "none"
           /\ \A q \in Pages \ {p} : helper'[q] = helper[q]
BY DEF Shape, Finished, Idle

-----------------------------------------------------------------------------
(* Every step keeps the processes                                            *)

LEMMA InitProcesses == Init => Processes
<1>1. ASSUME Init
      PROVE  helper = [p \in Pages |-> [at |-> "idle", cmd |-> [op |-> "none"],
                                        loaded |-> None, answer |-> "none"]]
  BY <1>1 DEF Init, Idle
<1> QED BY <1>1 DEF Processes, Shape, Commands, PamOps

LEMMA ClickMoves ==
    ASSUME Processes, Click
    PROVE  \/ UNCHANGED helper
           \/ /\ tab = "enrollment"
              /\ \E op \in {"write_config", "enroll", "delete", "test"} :
                   \E cmd : cmd.op = op /\ run("enrollment", cmd)
           \/ tab = "settings" /\ run("settings", [op |-> "write_config", set |-> savedOverrides])
           \/ /\ tab = "pam"
              /\ \E op \in PamOps : \E cmd : cmd.op = op /\ run("pam", cmd)
<1>1. CASE EnrollmentClick /\ tab = "enrollment"
  <2>1. CASE onGainSliderChanged
    BY <2>1 DEF onGainSliderChanged, unchangedRun
  <2>2. CASE onSaveGainClicked
    BY <2>2, <1>1 DEF onSaveGainClicked, writeConfig
  <2>3. CASE onEnrollClicked
    BY <2>3, <1>1 DEF onEnrollClicked, startEnroll, enroll
  <2>4. CASE onDeleteClicked
    BY <2>4, <1>1 DEF onDeleteClicked, remove
  <2>5. CASE onTestClicked
    BY <2>5, <1>1 DEF onTestClicked, test
  <2> QED BY <1>1, <2>1, <2>2, <2>3, <2>4, <2>5 DEF EnrollmentClick
<1>2. CASE SettingsClick /\ tab = "settings"
  <2>1. CASE onSaveClicked
    BY <2>1, <1>2 DEF onSaveClicked, writeConfig
  <2>2. CASE ~onSaveClicked
    BY <2>2, <1>2 DEF SettingsClick, onRefreshCamerasClicked, onCameraDeviceChanged,
       onCameraDeviceDeclined, onCameraModeChanged, onCameraModeDeclined,
       onConfirmationModeChosen, unchangedBySettings
  <2> QED BY <2>1, <2>2
<1>3. CASE PamClick /\ tab = "pam"
  BY <1>3 DEF PamClick, onActionClicked, enablePam, disablePam, PamOps
<1> QED BY <1>1, <1>2, <1>3 DEF Click

LEMMA ProcessesStep == Processes /\ [Next]_vars => Processes'
<1> SUFFICES ASSUME Processes, [Next]_vars PROVE Processes'
  OBVIOUS
<1> USE DEF Processes
<1>1. CASE UNCHANGED helper
  BY <1>1 DEF Shape, Commands
<1>2. CASE SwitchTab
  BY <1>1, <1>2 DEF SwitchTab, showEnrollment, hideEnrollment, showPam, sharedVars, unchangedRun
<1>3. CASE Click
  BY <1>1, <1>3, ClickMoves, RunMoves DEF Commands, Pages, PamOps
<1>4. CASE Tick
  BY <1>1, <1>4 DEF Tick, onPreviewTick, unchangedRun
<1>5. ASSUME NEW p \in Pages, Run(p) PROVE Processes'
  BY <1>5, HelperMoves DEF Run, Moves, Commands
<1>6. ASSUME NEW p \in Pages, Dispatch(p) PROVE Processes'
  BY <1>6, FinishedMoves DEF Dispatch, onEnrollmentFinished, onSettingsFinished, onPamFinished,
     Commands, PamOps, Pages
<1>7. CASE Replug \/ AdminEdit
  BY <1>1, <1>7 DEF Replug, AdminEdit
<1>8. CASE UNCHANGED vars
  BY <1>1, <1>8 DEF vars, sharedVars
<1> QED BY <1>2, <1>3, <1>4, <1>5, <1>6, <1>7, <1>8 DEF Next

-----------------------------------------------------------------------------
(* The preview                                                               *)

PageShape ==
    page = [label |-> page.label, slider |-> page.slider, isEnrolled |-> page.isEnrolled,
            pending |-> page.pending, reshown |-> page.reshown]

StreamShape == streaming = [h \in Holders |-> streaming[h]]

YieldInv == Processes /\ PageShape /\ StreamShape /\ PreviewYields

LEMMA StartKeeps ==
    ASSUME StreamShape, NEW label, NEW slider, NEW isEnrolled, NEW pending, NEW reshown,
           startPreview([label |-> label, slider |-> slider, isEnrolled |-> isEnrolled,
                         pending |-> pending, reshown |-> reshown])
    PROVE  PageShape' /\ StreamShape' /\ page'.reshown = reshown
<1> DEFINE now == [label |-> label, slider |-> slider, isEnrolled |-> isEnrolled,
                   pending |-> pending, reshown |-> reshown]
<1>1. CASE camera_ # None
  BY <1>1 DEF startPreview, PageShape, StreamShape
<1>2. CASE camera_ = None /\ conf = None
  BY <1>2 DEF startPreview, PageShape, StreamShape
<1>3. CASE camera_ = None /\ conf # None
  <2> DEFINE position == SliderFor(load(conf).gain)
  <2>1. /\ \/ page' = [now EXCEPT !.slider = position]
           \/ page' = [[now EXCEPT !.slider = position] EXCEPT !.label = "reason"]
        /\ \/ UNCHANGED streaming
           \/ streaming' = [streaming EXCEPT !["preview"] = load(conf).path]
    BY <1>3 DEF startPreview
  <2> HIDE DEF position
  <2> QED BY <2>1 DEF PageShape, StreamShape
<1> QED BY <1>1, <1>2, <1>3

\* A helper opens and closes its own device only.
LEMMA HelperStreams ==
    ASSUME NEW p \in Pages, Helper(p)
    PROVE  \/ UNCHANGED streaming
           \/ \E path : streaming' = [streaming EXCEPT ![p] = path]
<1>1. CASE Load(p) \/ Truncate(p) \/ Authorised(p)
  BY <1>1 DEF Load, Truncate, Authorised, End, systemVars
<1>2. CASE WriteConf(p) \/ WriteConfShort(p)
  BY <1>2 DEF WriteConf, WriteConfShort, AfterWrite, End
<1>3. CASE Refused(p) \/ Open(p) \/ Fails(p)
  BY <1>3 DEF Refused, Open, Fails, End
<1>4. CASE Capture(p)
  BY <1>4 DEF Capture, End
<1>5. CASE Apply(p)
  BY <1>5 DEF Apply, End
<1> QED BY <1>1, <1>2, <1>3, <1>4, <1>5 DEF Helper, HelperStep

LEMMA YieldStep == YieldInv /\ [Next]_vars => YieldInv'
<1> SUFFICES ASSUME YieldInv, [Next]_vars PROVE PageShape' /\ StreamShape' /\ PreviewYields'
  BY ProcessesStep DEF YieldInv
<1> USE DEF YieldInv
<1> DEFINE op == helper["enrollment"].cmd.op
<1>0. "enrollment" \in Pages /\ "preview" \in Holders /\ Pages \subseteq Holders
  BY DEF Pages, Holders
<1>1. CASE UNCHANGED <<page, streaming>> /\ op' = op
  BY <1>1 DEF PageShape, StreamShape, PreviewYields, camera_
<1>2. CASE SwitchTab
  <2>1. CASE showEnrollment
    <3>1. startPreview([label |-> page.label, slider |-> page.slider,
                        isEnrolled |-> page.isEnrolled, pending |-> page.pending,
                        reshown |-> isBusy("enrollment")])
      BY <2>1 DEF showEnrollment, PageShape
    <3>2. PageShape' /\ StreamShape' /\ page'.reshown = isBusy("enrollment")
      BY <3>1, StartKeeps
    <3>3. UNCHANGED helper
      BY <2>1 DEF showEnrollment, unchangedRun
    <3> QED BY <1>0, <3>2, <3>3 DEF PreviewYields, Processes, Commands, isBusy, Capturers
  <2>2. CASE hideEnrollment
    BY <1>0, <2>2 DEF hideEnrollment, stopPreview, unchangedRun, PageShape, StreamShape,
       PreviewYields, camera_
  <2>3. CASE UNCHANGED <<sharedVars, page>>
    BY <1>1, <2>3 DEF sharedVars, systemVars
  <2> QED BY <1>2, <2>1, <2>2, <2>3 DEF SwitchTab, showPam
<1>3. CASE Click
  <2>1. CASE tab = "enrollment" /\ onGainSliderChanged
    BY <2>1 DEF onGainSliderChanged, unchangedRun, PageShape, StreamShape, PreviewYields, camera_
  <2>2. CASE tab = "enrollment" /\ (onSaveGainClicked \/ onDeleteClicked)
    BY <1>0, <2>2, RunMoves DEF onSaveGainClicked, onDeleteClicked, writeConfig, remove, pend,
       PageShape, StreamShape, PreviewYields, Capturers, Processes
  <2>3. CASE tab = "enrollment" /\ (onEnrollClicked \/ onTestClicked)
    BY <1>0, <2>3 DEF onEnrollClicked, startEnroll, onTestClicked, yieldCamera, stopPreview, pend,
       PageShape, StreamShape, PreviewYields, camera_
  <2>4. CASE tab = "settings" /\ SettingsClick
    <3>1. UNCHANGED <<page, streaming>>
      BY <1>3, <2>4 DEF Click, SettingsClick, onSaveClicked, onRefreshCamerasClicked,
         onCameraDeviceChanged, onCameraDeviceDeclined, onCameraModeChanged,
         onCameraModeDeclined, onConfirmationModeChosen, unchangedBySettings, systemVars
    <3>2. op' = op
      BY <1>0, <1>3, <2>4, ClickMoves, RunMoves DEF Processes, Pages
    <3> QED BY <1>1, <3>1, <3>2
  <2>5. CASE tab = "pam" /\ PamClick
    <3>1. UNCHANGED <<page, streaming>>
      BY <1>3, <2>5 DEF Click, PamClick, onActionClicked, systemVars
    <3>2. op' = op
      BY <1>0, <1>3, <2>5, ClickMoves, RunMoves DEF Processes, Pages
    <3> QED BY <1>1, <3>1, <3>2
  <2> QED BY <1>3, <2>1, <2>2, <2>3, <2>4, <2>5 DEF Click, EnrollmentClick
<1>4. CASE Tick
  BY <1>0, <1>4 DEF Tick, onPreviewTick, stopPreview, unchangedRun, PageShape, StreamShape,
     PreviewYields, camera_
<1>5. ASSUME NEW p \in Pages, Run(p) PROVE PageShape' /\ StreamShape' /\ PreviewYields'
  <2>1. UNCHANGED page /\ op' = op
    BY <1>0, <1>5, HelperMoves DEF Run, Moves, Processes
  <2>2. \/ UNCHANGED streaming
        \/ \E path : streaming' = [streaming EXCEPT ![p] = path]
    BY <1>5, HelperStreams DEF Run
  <2>3. StreamShape' /\ streaming'["preview"] = streaming["preview"]
    BY <1>0, <2>2 DEF StreamShape, Pages
  <2> QED BY <2>1, <2>3 DEF PageShape, PreviewYields, camera_
<1>6. ASSUME NEW p \in Pages, Dispatch(p) PROVE PageShape' /\ StreamShape' /\ PreviewYields'
  <2>1. CASE p = "enrollment"
    <3>1. op' = "none"
      BY <1>0, <1>6, <2>1, FinishedMoves DEF Dispatch, onEnrollmentFinished, Processes
    <3>2. PageShape' /\ StreamShape'
      <4> DEFINE known == Learned(helper["enrollment"].answer)
      <4>1. \/ startPreview([label |-> page.label, slider |-> page.slider, isEnrolled |-> known,
                             pending |-> "none", reshown |-> FALSE])
            \/ /\ page' = [label |-> page.label, slider |-> page.slider, isEnrolled |-> known,
                           pending |-> "none", reshown |-> FALSE]
               /\ UNCHANGED streaming
        BY <1>6, <2>1 DEF Dispatch, onEnrollmentFinished
      <4> HIDE DEF known
      <4> QED BY <4>1, StartKeeps DEF PageShape, StreamShape
    <3> QED BY <3>1, <3>2 DEF PreviewYields, Capturers
  <2>2. CASE p # "enrollment"
    <3>1. op' = op
      BY <1>0, <1>6, <2>2, FinishedMoves DEF Dispatch, onSettingsFinished, onPamFinished, Processes
    <3>2. UNCHANGED <<page, streaming>>
      BY <1>6, <2>2 DEF Dispatch, onSettingsFinished, onPamFinished, systemVars
    <3> QED BY <1>1, <3>1, <3>2
  <2> QED BY <2>1, <2>2
<1>7. CASE Replug \/ AdminEdit
  BY <1>1, <1>7 DEF Replug, AdminEdit
<1>8. CASE UNCHANGED vars
  BY <1>1, <1>8 DEF vars, sharedVars, systemVars
<1> QED BY <1>2, <1>3, <1>4, <1>5, <1>6, <1>7, <1>8 DEF Next

\* Whatever the user, the helpers and the drivers do, a capture that the Enrollment page
\* started and its preview have the camera open together only after the page was shown
\* anew while the helper ran.
THEOREM PreviewIsYielded == Spec => []PreviewYields
<1>1. Init => YieldInv
  BY InitProcesses DEF Init, YieldInv, PageInit, PageShape, StreamShape, PreviewYields, camera_,
     Holders
<1>2. YieldInv => PreviewYields
  BY DEF YieldInv
<1> QED BY <1>1, <1>2, YieldStep, PTL DEF Spec

-----------------------------------------------------------------------------
(* The rows of the PAM page                                                  *)

RowShape == row = [s \in Services |-> row[s]] /\ service = [s \in Services |-> service[s]]

RowInv == Processes /\ RowShape /\ RowsTrue

\* A helper that changes a service file is the PAM page's, which is busy while it does.
LEMMA EditsAreThePages ==
    ASSUME Processes, RowShape, NEW p \in Pages, Helper(p)
    PROVE  /\ service' = [s \in Services |-> service'[s]]
           /\ p = "pam" \/ UNCHANGED service
<1>1. CASE Apply(p)
  <2>1. \/ UNCHANGED service
        \/ /\ helper[p].cmd.op \in PamOps
           /\ \E s, state : service' = [service EXCEPT ![s] = state]
    BY <1>1 DEF Apply, PamOps
  <2> QED BY <2>1 DEF RowShape, Processes, Commands
<1>2. CASE ~Apply(p)
  <2>1. UNCHANGED service
    BY <1>2 DEF Helper, HelperStep, Refused, Authorised, Load, Truncate, WriteConf, WriteConfShort,
       Open, Capture, Fails, systemVars
  <2> QED BY <2>1 DEF RowShape
<1> QED BY <1>1, <1>2

LEMMA RowStep == RowInv /\ [Next]_vars => RowInv'
<1> SUFFICES ASSUME RowInv, [Next]_vars PROVE RowShape' /\ RowsTrue'
  BY ProcessesStep DEF RowInv
<1> USE DEF RowInv
<1> DEFINE busy == isBusy("pam")
<1>0. "pam" \in Pages
  BY DEF Pages
<1>1. CASE UNCHANGED <<row, stale, service>> /\ (tab' = "pam" => tab = "pam") /\ (busy => busy')
  BY <1>1 DEF RowShape, RowsTrue
<1>2. CASE row' = service /\ stale' = {} /\ UNCHANGED service
  BY <1>2 DEF RowShape, RowsTrue
<1>3. CASE SwitchTab
  <2>1. UNCHANGED <<service, helper>>
    BY <1>3 DEF SwitchTab, showEnrollment, hideEnrollment, showPam, sharedVars, systemVars,
       unchangedSystem, unchangedRun
  <2>2. CASE tab' = "pam"
    BY <1>2, <1>3, <2>1, <2>2 DEF SwitchTab, showPam, refreshAll
  <2>3. CASE tab' # "pam"
    <3>1. row' = row \/ row' = service
      BY <1>3, <2>3 DEF SwitchTab, showPam, refreshAll
    <3> QED BY <2>1, <2>3, <3>1 DEF RowShape, RowsTrue
  <2> QED BY <2>2, <2>3
<1>4. CASE Click
  <2>1. UNCHANGED <<row, stale, service>>
    <3>1. CASE tab = "enrollment" /\ EnrollmentClick /\ UNCHANGED <<form, row, stale>>
      BY <3>1 DEF EnrollmentClick, onGainSliderChanged, onSaveGainClicked, onEnrollClicked,
         startEnroll, onDeleteClicked, onTestClicked, unchangedSystem
    <3>2. CASE tab = "settings" /\ SettingsClick /\ UNCHANGED <<page, row, stale>>
      BY <3>2 DEF SettingsClick, onSaveClicked, onRefreshCamerasClicked,
         onCameraDeviceChanged, onCameraDeviceDeclined, onCameraModeChanged,
         onCameraModeDeclined, onConfirmationModeChosen, unchangedBySettings, systemVars
    <3>3. CASE tab = "pam" /\ PamClick
      BY <3>3 DEF PamClick, onActionClicked, systemVars
    <3> QED BY <1>4, <3>1, <3>2, <3>3 DEF Click
  <2>2. busy => busy'
    BY <1>0, <1>4, ClickMoves, RunMoves DEF Processes, Pages, isBusy
  <2> QED BY <1>1, <1>4, <2>1, <2>2 DEF Click, guiVars
<1>5. CASE Tick
  BY <1>1, <1>5 DEF Tick, onPreviewTick, unchangedSystem, unchangedRun, guiVars, isBusy
<1>6. ASSUME NEW p \in Pages, Run(p) PROVE RowShape' /\ RowsTrue'
  <2>1. UNCHANGED <<row, stale, tab>> /\ Helper(p)
    BY <1>6 DEF Run, guiVars
  <2>2. Moves(p)
    BY <2>1, HelperMoves DEF Processes
  <2>3. CASE p = "pam"
    BY <1>0, <2>1, <2>2, <2>3, EditsAreThePages DEF RowShape, RowsTrue, Moves, isBusy
  <2>4. CASE p # "pam"
    BY <1>0, <1>1, <2>1, <2>2, <2>4, EditsAreThePages DEF Moves, isBusy
  <2> QED BY <2>3, <2>4
<1>7. ASSUME NEW p \in Pages, Dispatch(p) PROVE RowShape' /\ RowsTrue'
  <2>1. CASE p = "pam"
    BY <1>2, <1>7, <2>1 DEF Dispatch, onPamFinished, refreshAll, systemVars
  <2>2. CASE p # "pam"
    <3>1. UNCHANGED <<row, stale, service, tab>>
      BY <1>7, <2>2 DEF Dispatch, onEnrollmentFinished, onSettingsFinished, unchangedSystem,
         systemVars, guiVars
    <3>2. helper'["pam"] = helper["pam"]
      BY <1>0, <1>7, <2>2, FinishedMoves DEF Dispatch, onEnrollmentFinished, onSettingsFinished,
         Processes
    <3> QED BY <1>1, <3>1, <3>2 DEF isBusy
  <2> QED BY <2>1, <2>2
<1>8. CASE Replug
  BY <1>1, <1>8 DEF Replug, guiVars, isBusy
<1>9. CASE AdminEdit
  <2>1. PICK s, state : /\ s \in Services
                        /\ service' = [service EXCEPT ![s] = state]
                        /\ stale' = stale \cup {s}
    BY <1>9 DEF AdminEdit
  <2>2. UNCHANGED <<row, helper, tab>>
    BY <1>9 DEF AdminEdit, guiVars
  <2> QED BY <2>1, <2>2 DEF RowShape, RowsTrue, isBusy
<1>10. CASE UNCHANGED vars
  BY <1>1, <1>10 DEF vars, sharedVars, systemVars, guiVars, isBusy
<1> QED BY <1>3, <1>4, <1>5, <1>6, <1>7, <1>8, <1>9, <1>10 DEF Next

\* For every set of services: while the page is on show and runs nothing, its rows show
\* what the files hold, the ones that others changed meanwhile excepted.
THEOREM RowsAreTrue == Spec => []RowsTrue
<1>1. Init => RowInv
  <2>1. Init => RowShape /\ RowsTrue
    BY DEF Init, PamInit, RowShape, RowsTrue
  <2> QED BY <2>1, InitProcesses DEF RowInv
<1>2. RowInv => RowsTrue
  BY DEF RowInv
<1> QED BY <1>1, <1>2, RowStep, PTL DEF Spec

-----------------------------------------------------------------------------
(* The questions of a login                                                  *)

LEMMA TroubleGrows == [Next]_vars => trouble \subseteq trouble'
<1> SUFFICES ASSUME [Next]_vars PROVE trouble \subseteq trouble'
  OBVIOUS
<1>1. ASSUME NEW p, NEW cmd, run(p, cmd) PROVE trouble \subseteq trouble'
  BY <1>1 DEF run
<1>2. CASE SwitchTab \/ Tick \/ Replug \/ AdminEdit \/ UNCHANGED vars
  BY <1>2 DEF SwitchTab, showEnrollment, hideEnrollment, showPam, Tick, onPreviewTick,
     unchangedRun, sharedVars, Replug, AdminEdit, vars
<1>3. CASE Click
  <2>1. CASE EnrollmentClick
    BY <1>1, <2>1 DEF EnrollmentClick, onGainSliderChanged, onSaveGainClicked, onEnrollClicked,
       startEnroll, onDeleteClicked, onTestClicked, unchangedRun, writeConfig, enroll, remove, test
  <2>2. CASE SettingsClick
    BY <1>1, <2>2 DEF SettingsClick, onRefreshCamerasClicked, onCameraDeviceChanged,
       onCameraDeviceDeclined, onCameraModeChanged, onCameraModeDeclined,
       onConfirmationModeChosen, onSaveClicked, unchangedBySettings, writeConfig
  <2>3. CASE PamClick
    BY <1>1, <2>3 DEF PamClick, onActionClicked, enablePam, disablePam
  <2> QED BY <1>3, <2>1, <2>2, <2>3 DEF Click
<1>4. ASSUME NEW p \in Pages, Run(p) PROVE trouble \subseteq trouble'
  BY <1>4 DEF Run, Helper, HelperStep, Refused, Authorised, Load, Truncate, WriteConf,
     WriteConfShort, Open, Capture, Apply, Fails, undisturbed, Fault
<1>5. ASSUME NEW p \in Pages, Dispatch(p) PROVE trouble \subseteq trouble'
  BY <1>5 DEF Dispatch, onEnrollmentFinished, onSettingsFinished, onPamFinished
<1> QED BY <1>2, <1>3, <1>4, <1>5 DEF Next

\* What a helper writes, whole or cut short, is the first lines of its configuration.
LEMMA WrittenLines ==
    ASSUME NEW p \in Pages, WriteConf(p) \/ WriteConfShort(p)
    PROVE  \E n \in 0..Len(ConfigKeys) :
             conf' \in WrittenOver(conf, FirstLines(helper[p].loaded.config, n))
<1>1. Len(ConfigKeys) = 7
  BY DEF ConfigKeys
<1>2. CASE WriteConf(p)
  BY <1>1, <1>2 DEF WriteConf, serialize
<1>3. CASE WriteConfShort(p)
  BY <1>1, <1>3, TornAssumption DEF WriteConfShort
<1> QED BY <1>2, <1>3

\* Nothing follows in a file that was empty.
LEMMA NothingBehind ==
    ASSUME NEW config, NEW n, NEW written, written \in WrittenOver(Empty, FirstLines(config, n))
    PROVE  written = FirstLines(config, n)
<1> DEFINE text == FirstLines(config, n)
<1>1. text = [k \in DOMAIN text |-> text[k]]
  BY DEF FirstLines
<1>2. \A tail \in Tails(Empty) : DOMAIN tail = {}
  BY DEF Tails, Empty
<1> HIDE DEF text
<1>3. PICK tail \in Tails(Empty) :
        written = [k \in DOMAIN text \cup DOMAIN tail |->
                     IF k \in DOMAIN tail THEN tail[k] ELSE text[k]]
  BY DEF WrittenOver, text
<1>4. written = text
  BY <1>1, <1>2, <1>3
<1> QED BY <1>4 DEF text

Questions == {"confirm", "greeter"}

\* A question may be missing: somebody chose so, or, where two commands wrote the file at a
\* time, chose to do without one.
Chosen(k) == k \in asked \/ ("race" \in trouble /\ asked # {})

\* A file, or an override, says "none" only where that was chosen; so does a configuration.
FileOk(file)     == \A k \in Questions : k \in DOMAIN file /\ file[k] = "none" => Chosen(k)
ConfigOk(config) == \A k \in Questions : config[k] = "none" => Chosen(k)

\* What a writer carries from its command to the file.
CarriedOk(p) ==
    /\ helper[p].cmd.op = "write_config" => FileOk(helper[p].cmd.set)
    /\ helper[p].at \in {"truncate", "write"} =>
         helper[p].cmd.op \in Writers /\ ConfigOk(helper[p].loaded.config)
    /\ helper[p].at = "write" => FileOk(conf)

\* A writer that is alone finds the file as it has left it: empty.
AloneInv ==
    "race" \notin trouble =>
        /\ \A p, q \in Pages :
             helper[p].cmd.op \in Writers /\ helper[q].cmd.op \in Writers => p = q
        /\ \A p \in Pages : helper[p].at = "write" => conf = Empty

AskedInv ==
    /\ Processes /\ AloneInv
    /\ conf = None \/ FileOk(conf)
    /\ \A p \in Pages : CarriedOk(p)

LEMMA AskedGrows == [Next]_vars => asked \subseteq asked'
<1> SUFFICES ASSUME [Next]_vars PROVE asked \subseteq asked'
  OBVIOUS
<1>1. CASE SwitchTab \/ Tick \/ Replug \/ AdminEdit \/ UNCHANGED vars
  BY <1>1 DEF SwitchTab, showEnrollment, hideEnrollment, showPam, Tick, onPreviewTick,
     unchangedRun, unchangedSystem, sharedVars, historyVars, Replug, AdminEdit, vars
<1>2. CASE Click
  <2>1. CASE EnrollmentClick
    BY <2>1 DEF EnrollmentClick, onGainSliderChanged, onSaveGainClicked, onEnrollClicked,
       startEnroll, onDeleteClicked, onTestClicked, unchangedSystem, historyVars
  <2>2. CASE SettingsClick
    BY <2>2 DEF SettingsClick, onRefreshCamerasClicked, onCameraDeviceChanged,
       onCameraDeviceDeclined, onCameraModeChanged, onCameraModeDeclined,
       onConfirmationModeChosen, onSaveClicked, unchangedBySettings
  <2>3. CASE PamClick
    BY <2>3 DEF PamClick, onActionClicked, historyVars
  <2> QED BY <1>2, <2>1, <2>2, <2>3 DEF Click
<1>3. ASSUME NEW p \in Pages, Run(p) PROVE asked \subseteq asked'
  BY <1>3 DEF Run, Helper, HelperStep, Refused, Authorised, Load, Truncate, WriteConf,
     WriteConfShort, Open, Capture, Apply, Fails, unchangedByHelper, historyVars
<1>4. ASSUME NEW p \in Pages, Dispatch(p) PROVE asked \subseteq asked'
  BY <1>4 DEF Dispatch, onEnrollmentFinished, onSettingsFinished, onPamFinished,
     unchangedSystem, historyVars
<1> QED BY <1>1, <1>2, <1>3, <1>4 DEF Next

\* What was chosen stays chosen.
LEMMA ChosenStays == [Next]_vars => \A k : Chosen(k) => Chosen(k)'
BY TroubleGrows, AskedGrows DEF Chosen

LEMMA DefaultsAsk == Questions \subseteq DOMAIN defaults /\ ConfigOk(defaults)
BY DEF Questions, defaults, ConfigOk

LEMMA LoadIsOk == ASSUME NEW file, FileOk(file) PROVE ConfigOk(load(file))
BY DefaultsAsk DEF FileOk, ConfigOk, load

LEMMA OverriddenIsOk ==
    ASSUME NEW config, ConfigOk(config), Questions \subseteq DOMAIN config, NEW set, FileOk(set)
    PROVE  ConfigOk(applyConfigOverrides(config, set))
BY DEF FileOk, ConfigOk, applyConfigOverrides

\* What a helper gathers from the file and its command.
LEMMA ConfiguredIsOk ==
    ASSUME AskedInv, NEW p \in Pages, helper[p].cmd.op \in Writers,
           Precheck(helper[p].cmd) = None
    PROVE  ConfigOk(Configured(helper[p].cmd))
<1> DEFINE cmd == helper[p].cmd
<1>1. CASE cmd.op = "enroll"
  <2>1. conf # None
    BY <1>1, NoneAssumption DEF Precheck, Answers
  <2>2. ConfigOk(load(conf))
    BY <2>1, LoadIsOk DEF AskedInv
  <2>3. \A k \in Questions :
          [load(conf) EXCEPT !.mode = cmd.mode, !.gain = cmd.gain][k] = load(conf)[k]
    BY DefaultsAsk DEF load, Questions
  <2> QED BY <1>1, <2>2, <2>3 DEF Configured, ConfigOk
<1>2. CASE cmd.op = "write_config"
  <2>1. FileOk(cmd.set)
    BY <1>2 DEF AskedInv, CarriedOk
  <2>2. ConfigOk(IF conf = None THEN defaults ELSE load(conf))
    BY DefaultsAsk, LoadIsOk DEF AskedInv
  <2>3. Questions \subseteq DOMAIN (IF conf = None THEN defaults ELSE load(conf))
    BY DefaultsAsk DEF load
  <2> QED BY <1>2, <2>1, <2>2, <2>3, OverriddenIsOk DEF Configured
<1> QED BY <1>1, <1>2 DEF Writers

\* What reaches the file is the helper's; or, where another one wrote meanwhile, it was in
\* the file, as the same question or as the other.
LEMMA WrittenIsOk ==
    ASSUME NEW file, FileOk(file), "race" \in trouble \/ file = Empty,
           NEW config, ConfigOk(config), NEW n, NEW written,
           written \in WrittenOver(file, FirstLines(config, n))
    PROVE  FileOk(written)
<1> DEFINE text == FirstLines(config, n)
<1>1. FileOk(text)
  BY DEF FirstLines, FileOk, ConfigOk
<1>2. ASSUME NEW tail \in Tails(file) PROVE FileOk(tail)
  <2>1. CASE \E lines : tail = [k \in DOMAIN file \cap lines |-> file[k]]
    BY <2>1 DEF FileOk
  <2>2. CASE /\ "greeter" \in DOMAIN file
             /\ tail = [confirm |-> file["greeter"]]
    <3>1. "race" \in trouble
      BY <2>2 DEF Empty
    <3>2. file["greeter"] = "none" => Chosen("greeter")
      BY <2>2 DEF FileOk, Questions
    <3>3. file["greeter"] = "none" => Chosen("confirm")
      BY <3>1, <3>2 DEF Chosen
    <3> QED BY <2>2, <3>3 DEF FileOk
  <2> QED BY <2>1, <2>2 DEF Tails
<1> HIDE DEF text
<1>3. PICK tail \in Tails(file) :
        written = [k \in DOMAIN text \cup DOMAIN tail |->
                     IF k \in DOMAIN tail THEN tail[k] ELSE text[k]]
  BY DEF WrittenOver, text
<1> QED BY <1>1, <1>2, <1>3 DEF FileOk

\* A helper's step: the file and what the helper carries stay within what was chosen.
LEMMA HelperAsks ==
    ASSUME AskedInv, [Next]_vars, NEW p \in Pages, Helper(p)
    PROVE  /\ AloneInv' /\ (conf' = None \/ FileOk(conf)')
           /\ \A q \in Pages : CarriedOk(q)'
<1>0. Moves(p) /\ ("race" \in trouble => "race" \in trouble')
      /\ \A k : Chosen(k) => Chosen(k)'
  BY HelperMoves, TroubleGrows, ChosenStays DEF AskedInv, Processes
<1>1. ASSUME conf' = conf \/ (FileOk(conf)' /\ helper[p].cmd.op \in Writers),
             helper'[p].at = "write" => conf' = Empty, CarriedOk(p)'
      PROVE  /\ AloneInv' /\ (conf' = None \/ FileOk(conf)')
             /\ \A q \in Pages : CarriedOk(q)'
  <2>1. conf' = None \/ FileOk(conf)'
    BY <1>0, <1>1 DEF AskedInv, FileOk
  <2>2. ASSUME NEW q \in Pages \ {p} PROVE CarriedOk(q)'
    BY <1>0, <1>1 DEF AskedInv, CarriedOk, Moves, FileOk, ConfigOk
  <2>3. AloneInv'
    BY <1>0, <1>1 DEF AskedInv, AloneInv, CarriedOk, Moves
  <2> QED BY <1>1, <2>1, <2>2, <2>3
<1>2. CASE Load(p)
  <2>1. UNCHANGED conf
    BY <1>2 DEF Load
  <2>2. CASE helper'[p].at \notin {"truncate", "write"}
    BY <1>0, <1>1, <2>1, <2>2 DEF AskedInv, CarriedOk, Moves, FileOk
  <2>3. CASE helper'[p].at \in {"truncate", "write"}
    <3> DEFINE config == Configured(helper[p].cmd)
    <3>1. /\ Precheck(helper[p].cmd) = None /\ helper[p].cmd.op \in Writers
          /\ helper'[p].at = "truncate"
          /\ helper'[p].loaded = [config |-> config, seen |-> "none"]
      <4> HIDE DEF config
      <4>1. \A answer : End(p, answer) => helper'[p].at = "ended"
        BY DEF End, AskedInv, Processes, Shape
      <4>2. Precheck(helper[p].cmd) = None
        BY <1>2, <2>3, <4>1 DEF Load
      <4>3. PICK seen :
              helper' = [helper EXCEPT
                ![p].at = IF helper[p].cmd.op \in Writers THEN "truncate" ELSE "open",
                ![p].loaded = IF helper[p].cmd.op \in Writers
                                THEN [config |-> config, seen |-> "none"]
                                ELSE [config |-> load(conf), seen |-> seen]]
        BY <1>2, <4>2 DEF Load, config
      <4> DEFINE loaded == IF helper[p].cmd.op \in Writers
                             THEN [config |-> config, seen |-> "none"]
                             ELSE [config |-> load(conf), seen |-> seen]
      <4> DEFINE step == IF helper[p].cmd.op \in Writers THEN "truncate" ELSE "open"
      <4>4. helper'[p].at = step /\ helper'[p].loaded = loaded
        <5>1. helper' = [helper EXCEPT ![p].at = step, ![p].loaded = loaded]
          BY <4>3
        <5> HIDE DEF loaded, step
        <5>2. helper[p] = [at |-> helper[p].at, cmd |-> helper[p].cmd,
                           loaded |-> helper[p].loaded, answer |-> helper[p].answer]
          BY DEF AskedInv, Processes, Shape
        <5> QED BY <5>1, <5>2 DEF AskedInv, Processes, Shape
      <4> QED BY <2>3, <4>2, <4>4
    <3>2. ConfigOk(config)
      BY <3>1, ConfiguredIsOk
    <3>3. CarriedOk(p)'
      BY <1>0, <3>1, <3>2 DEF AskedInv, CarriedOk, Moves, FileOk, ConfigOk
    <3> QED BY <1>1, <2>1, <3>1, <3>3
  <2> QED BY <2>2, <2>3
<1>3. CASE Truncate(p)
  <2>1. conf' = Empty /\ FileOk(conf)'
    BY <1>3 DEF Truncate, Empty, FileOk
  <2>2. helper'[p].loaded = helper[p].loaded /\ helper[p].at = "truncate"
    BY <1>3 DEF Truncate, Goto, AskedInv, Processes, Shape
  <2>3. CarriedOk(p)'
    BY <1>0, <2>1, <2>2 DEF AskedInv, CarriedOk, Moves, FileOk, ConfigOk
  <2>4. helper[p].cmd.op \in Writers
    BY <2>2 DEF AskedInv, CarriedOk
  <2> QED BY <1>1, <2>1, <2>3, <2>4
<1>4. CASE WriteConf(p) \/ WriteConfShort(p)
  <2>1. /\ helper[p].at = "write" /\ helper[p].cmd.op \in Writers
        /\ FileOk(conf) /\ ConfigOk(helper[p].loaded.config)
    BY <1>4 DEF WriteConf, WriteConfShort, AskedInv, CarriedOk
  <2>2. "race" \in trouble \/ conf = Empty
    BY <2>1 DEF AskedInv, AloneInv
  <2>3. FileOk(conf)'
    <3>1. PICK n \in 0..Len(ConfigKeys) :
            conf' \in WrittenOver(conf, FirstLines(helper[p].loaded.config, n))
      BY <1>4, WrittenLines
    <3>2. \A k \in Questions : k \in DOMAIN conf' /\ conf'[k] = "none" => Chosen(k)
      BY <2>1, <2>2, <3>1, WrittenIsOk DEF FileOk
    <3> QED BY <1>0, <3>2 DEF FileOk
  <2>4. helper'[p].at \in {"open", "ended"}
    BY <1>4 DEF WriteConf, WriteConfShort, AfterWrite, Goto, End, AskedInv, Processes, Shape
  <2>5. CarriedOk(p)'
    BY <1>0, <2>4 DEF AskedInv, CarriedOk, Moves, FileOk
  <2> QED BY <1>1, <2>1, <2>3, <2>4, <2>5
<1>5. CASE Refused(p) \/ Authorised(p) \/ Open(p) \/ Capture(p) \/ Apply(p) \/ Fails(p)
  <2>1. UNCHANGED conf
    BY <1>5 DEF Refused, Authorised, Open, Capture, Apply, Fails, systemVars
  <2>2. helper'[p].at \in {"load", "apply", "capture", "ended"}
    <3>1. \A answer : End(p, answer) => helper'[p].at = "ended"
      BY DEF End, AskedInv, Processes, Shape
    <3>2. \A step : Goto(p, step) => helper'[p].at = step
      BY DEF Goto, AskedInv, Processes, Shape
    <3> QED BY <1>5, <3>1, <3>2 DEF Refused, Authorised, Open, Capture, Apply, Fails
  <2> QED BY <1>0, <1>1, <2>1, <2>2 DEF AskedInv, CarriedOk, Moves, FileOk
<1> QED BY <1>2, <1>3, <1>4, <1>5 DEF Helper, HelperStep

LEMMA AskedStep == AskedInv /\ [Next]_vars => AskedInv'
<1> DEFINE Rest == AloneInv /\ (conf = None \/ FileOk(conf)) /\ \A p \in Pages : CarriedOk(p)
<1> SUFFICES ASSUME AskedInv, [Next]_vars PROVE Rest'
  BY ProcessesStep DEF AskedInv
<1>0. ("race" \in trouble => "race" \in trouble') /\ \A k : Chosen(k) => Chosen(k)'
  BY TroubleGrows, ChosenStays
<1>1. CASE UNCHANGED <<conf, helper>>
  BY <1>0, <1>1 DEF AskedInv, AloneInv, CarriedOk, FileOk, ConfigOk
<1>2. CASE SwitchTab
  BY <1>1, <1>2 DEF SwitchTab, showEnrollment, hideEnrollment, showPam, sharedVars, systemVars,
     unchangedSystem, unchangedRun
<1>3. CASE Click
  <2>0. ASSUME NEW p \in Pages, NEW cmd, run(p, cmd), UNCHANGED conf,
               cmd.op = "write_config" => \A k \in Questions :
                 k \in DOMAIN cmd.set /\ cmd.set[k] = "none" => k \in asked'
        PROVE  Rest'
    <3>1. /\ helper'[p].at = "prompt" /\ helper'[p].cmd = cmd
          /\ \A q \in Pages \ {p} : helper'[q] = helper[q]
      BY <2>0, RunMoves DEF AskedInv, Processes
    <3>2. CarriedOk(p)'
      BY <2>0, <3>1 DEF CarriedOk, FileOk, Chosen
    <3>3. ASSUME NEW q \in Pages \ {p} PROVE CarriedOk(q)'
      BY <1>0, <2>0, <3>1 DEF AskedInv, CarriedOk, FileOk, ConfigOk
    <3>4. conf' = None \/ FileOk(conf)'
      BY <1>0, <2>0 DEF AskedInv, FileOk
    <3>5. ASSUME "race" \notin trouble', cmd.op \in Writers
          PROVE  \A q \in Pages : helper[q].cmd.op \notin Writers
      BY <2>0, <3>5 DEF run
    <3>6. AloneInv'
      BY <1>0, <2>0, <3>1, <3>5 DEF AskedInv, AloneInv
    <3> QED BY <3>2, <3>3, <3>4, <3>6
  <2>1. CASE tab = "enrollment" /\ EnrollmentClick
    <3>1. UNCHANGED <<conf, asked>>
      BY <2>1 DEF EnrollmentClick, onGainSliderChanged, onSaveGainClicked, onEnrollClicked,
         startEnroll, onDeleteClicked, onTestClicked, unchangedSystem, historyVars
    <3>2. CASE onSaveGainClicked
      <4>1. run("enrollment", [op |-> "write_config", set |-> [gain |-> page.slider]])
        BY <3>2 DEF onSaveGainClicked, writeConfig
      <4>2. \A k \in Questions : k \notin DOMAIN [gain |-> page.slider]
        BY DEF Questions
      <4> QED BY <2>0, <3>1, <4>1, <4>2 DEF Pages
    <3>3. CASE onEnrollClicked \/ onDeleteClicked \/ onTestClicked
      <4>1. \E cmd : cmd.op # "write_config" /\ run("enrollment", cmd)
        BY <3>3 DEF onEnrollClicked, startEnroll, onDeleteClicked, onTestClicked, enroll, remove, test
      <4> QED BY <2>0, <3>1, <4>1 DEF Pages
    <3>4. CASE onGainSliderChanged
      BY <1>1, <3>1, <3>4 DEF onGainSliderChanged, unchangedRun
    <3> QED BY <2>1, <3>2, <3>3, <3>4 DEF EnrollmentClick
  <2>2. CASE tab = "settings" /\ onSaveClicked
    <3>1. /\ run("settings", [op |-> "write_config", set |-> savedOverrides])
          /\ UNCHANGED conf
          /\ asked' = asked \cup {k \in {"confirm", "greeter"} : form[k] = "none"}
      BY <2>2 DEF onSaveClicked, writeConfig, systemVars
    <3>2. \A k \in Questions : savedOverrides[k] = form[k]
      <4>1. savedOverrides.confirm = form["confirm"] /\ savedOverrides.greeter = form["greeter"]
        BY DEF savedOverrides
      <4> QED BY <4>1 DEF Questions
    <3> QED BY <2>0, <3>1, <3>2 DEF Questions, Pages
  <2>3. CASE tab = "settings" /\ SettingsClick /\ ~onSaveClicked
    BY <1>1, <2>3 DEF SettingsClick, onRefreshCamerasClicked, onCameraDeviceChanged,
       onCameraDeviceDeclined, onCameraModeChanged, onCameraModeDeclined,
       onConfirmationModeChosen, unchangedBySettings, systemVars
  <2>4. CASE tab = "pam" /\ PamClick
    <3>1. UNCHANGED <<conf, asked>>
      BY <2>4 DEF PamClick, onActionClicked, systemVars, historyVars
    <3>2. \E cmd : cmd.op # "write_config" /\ run("pam", cmd)
      BY <2>4 DEF PamClick, onActionClicked, enablePam, disablePam
    <3> QED BY <2>0, <3>1, <3>2 DEF Pages
  <2> QED BY <1>3, <2>1, <2>2, <2>3, <2>4 DEF Click
<1>4. CASE Tick
  BY <1>1, <1>4 DEF Tick, onPreviewTick, unchangedSystem, unchangedRun, historyVars
<1>5. ASSUME NEW p \in Pages, Run(p)
      PROVE  Rest'
  <2>1. Helper(p)
    BY <1>5 DEF Run
  <2> QED BY <2>1, HelperAsks
<1>6. ASSUME NEW p \in Pages, Dispatch(p)
      PROVE  Rest'
  <2>1. UNCHANGED conf
    BY <1>6 DEF Dispatch, onEnrollmentFinished, onSettingsFinished, onPamFinished,
       unchangedSystem, systemVars
  <2>2. /\ helper'[p].at = "idle" /\ helper'[p].cmd.op = "none"
        /\ \A q \in Pages \ {p} : helper'[q] = helper[q]
    BY <1>6, FinishedMoves DEF Dispatch, onEnrollmentFinished, onSettingsFinished, onPamFinished,
       AskedInv, Processes
  <2> QED BY <1>0, <2>1, <2>2 DEF AskedInv, AloneInv, Writers, CarriedOk, FileOk, ConfigOk
<1>7. CASE Replug \/ AdminEdit
  BY <1>1, <1>7 DEF Replug, AdminEdit, historyVars
<1>8. CASE UNCHANGED vars
  BY <1>1, <1>8 DEF vars, sharedVars, systemVars, historyVars
<1> QED BY <1>2, <1>3, <1>4, <1>5, <1>6, <1>7, <1>8 DEF Next

\* For every file, wherever a write is cut short or fails: a question that is missing is one
\* that somebody chose to do without.  For every interleaving of two writers too: it is, or
\* somebody chose to do without the other one.
THEOREM NoQuestionIsLost == Spec => []NoConfirmationUnasked
<1>1. Init => AskedInv
  <2> SUFFICES ASSUME Init PROVE AskedInv
    OBVIOUS
  <2>1. conf = None \/ FileOk(conf)
    BY DefaultsAsk DEF Init, FileOk, Chosen, load, Questions
  <2>2. \A p \in Pages : CarriedOk(p)
    BY DEF Init, Idle, CarriedOk
  <2>3. AloneInv
    BY DEF Init, Idle, AloneInv, Writers
  <2> QED BY <2>1, <2>2, <2>3, InitProcesses DEF AskedInv
<1>2. AskedInv => NoConfirmationUnasked
  <2> SUFFICES ASSUME AskedInv PROVE ConfigOk(Saved)
    BY DEF ConfigOk, NoConfirmationUnasked, Chosen, Questions
  <2> QED BY DefaultsAsk, LoadIsOk DEF AskedInv, Saved
<1> QED BY <1>1, <1>2, AskedStep, PTL DEF Spec

-----------------------------------------------------------------------------
(* The picture on the Enrollment page                                        *)

Scanned == session \in Sessions /\ plugged \in session.scans

\* While the page is on show and does nothing that took the camera from it, it has the
\* camera or gives the reason; its slots remember what they wait for.
DarkInv ==
    /\ YieldInv /\ Scanned
    /\ page.pending \in {"enroll", "test"} => isBusy("enrollment")
    /\ tab = "enrollment" /\ page.pending \notin {"enroll", "test"} /\ camera_ = None =>
         page.label = "reason"

\* The preview comes up, or says why not.
LEMMA StartExplains ==
    ASSUME StreamShape, Scanned,
           NEW label, NEW slider, NEW isEnrolled, NEW pending, NEW reshown,
           startPreview([label |-> label, slider |-> slider, isEnrolled |-> isEnrolled,
                         pending |-> pending, reshown |-> reshown])
    PROVE  /\ page'.pending = pending
           /\ camera_' # None \/ page'.label = "reason"
<1> DEFINE now == [label |-> label, slider |-> slider, isEnrolled |-> isEnrolled,
                   pending |-> pending, reshown |-> reshown]
<1>1. CASE camera_ # None
  BY <1>1 DEF startPreview, camera_
<1>2. CASE camera_ = None /\ conf = None
  BY <1>2 DEF startPreview
<1>3. CASE camera_ = None /\ conf # None
  <2> DEFINE position == SliderFor(load(conf).gain)
             path     == load(conf).path
  <2>1. \/ /\ CanOpen(path)
           /\ streaming' = [streaming EXCEPT !["preview"] = path]
           /\ page' = [now EXCEPT !.slider = position]
        \/ page' = [[now EXCEPT !.slider = position] EXCEPT !.label = "reason"]
    BY <1>3 DEF startPreview
  <2>2. CanOpen(path) => path # None
    BY SessionsAssumption DEF CanOpen, Present, Scanned
  <2>3. "preview" \in Holders
    BY DEF Holders
  <2> HIDE DEF position, path
  <2> QED BY <2>1, <2>2, <2>3 DEF StreamShape, camera_
<1> QED BY <1>1, <1>2, <1>3

LEMMA ScannedStep == Scanned /\ [Next]_vars => Scanned'
<1> SUFFICES ASSUME Scanned, [Next]_vars PROVE Scanned'
  OBVIOUS
<1>1. CASE SwitchTab
  BY <1>1 DEF SwitchTab, showEnrollment, hideEnrollment, showPam, Scanned, sharedVars, systemVars,
     unchangedSystem
<1>2. CASE Click
  <2>1. CASE tab = "enrollment" /\ EnrollmentClick
    BY <1>2, <2>1 DEF Click, EnrollmentClick, onGainSliderChanged, onSaveGainClicked,
       onEnrollClicked, startEnroll, onDeleteClicked, onTestClicked, unchangedSystem, Scanned, guiVars
  <2>2. CASE tab = "settings" /\ SettingsClick
    BY <1>2, <2>2 DEF Click, SettingsClick, onSaveClicked, onRefreshCamerasClicked,
       onCameraDeviceChanged, onCameraDeviceDeclined, onCameraModeChanged, onCameraModeDeclined,
       onConfirmationModeChosen, unchangedBySettings, systemVars, Scanned, guiVars
  <2>3. CASE tab = "pam" /\ PamClick
    BY <1>2, <2>3 DEF Click, PamClick, onActionClicked, systemVars, Scanned, guiVars
  <2> QED BY <1>2, <2>1, <2>2, <2>3 DEF Click
<1>3. CASE Tick
  BY <1>3 DEF Tick, onPreviewTick, unchangedSystem, Scanned, guiVars
<1>4. ASSUME NEW p \in Pages, Run(p) PROVE Scanned'
  BY <1>4 DEF Run, Helper, HelperStep, Refused, Authorised, Load, Truncate, WriteConf,
     WriteConfShort, Open, Capture, Apply, Fails, unchangedByHelper, systemVars, Scanned, guiVars
<1>5. ASSUME NEW p \in Pages, Dispatch(p) PROVE Scanned'
  BY <1>5 DEF Dispatch, onEnrollmentFinished, onSettingsFinished, onPamFinished, unchangedSystem,
     systemVars, Scanned, guiVars
<1>6. CASE Replug \/ AdminEdit
  BY <1>6 DEF Replug, AdminEdit, Scanned, guiVars
<1>7. CASE UNCHANGED vars
  BY <1>7 DEF vars, sharedVars, systemVars, Scanned, guiVars
<1> QED BY <1>1, <1>2, <1>3, <1>4, <1>5, <1>6, <1>7 DEF Next

LEMMA DarkStep == DarkInv /\ [Next]_vars => DarkInv'
<1> DEFINE Busy == page.pending \in {"enroll", "test"} => isBusy("enrollment")
           Lit  == tab = "enrollment" /\ page.pending \notin {"enroll", "test"} /\ camera_ = None =>
                     page.label = "reason"
<1> SUFFICES ASSUME DarkInv, [Next]_vars PROVE Busy' /\ Lit'
  BY YieldStep, ScannedStep DEF DarkInv
<1> USE DEF DarkInv
<1> DEFINE at == helper["enrollment"].at
<1>0. "enrollment" \in Pages /\ "preview" \in Holders /\ Pages \subseteq Holders
      /\ "preview" \notin Pages
  BY DEF Pages, Holders
<1>1. CASE UNCHANGED <<page, camera_, tab>> /\ (at # "idle" => at' # "idle")
  BY <1>1 DEF isBusy
<1>2. CASE SwitchTab
  <2>1. CASE showEnrollment
    <3>1. startPreview([label |-> page.label, slider |-> page.slider,
                        isEnrolled |-> page.isEnrolled, pending |-> page.pending,
                        reshown |-> isBusy("enrollment")])
      BY <2>1 DEF showEnrollment, PageShape, YieldInv
    <3>2. page'.pending = page.pending /\ (camera_' # None \/ page'.label = "reason")
      BY <3>1, StartExplains DEF YieldInv
    <3>3. UNCHANGED helper
      BY <2>1 DEF showEnrollment, unchangedRun
    <3> QED BY <3>2, <3>3 DEF isBusy
  <2>2. CASE tab' # "enrollment" /\ UNCHANGED <<page, helper>>
    BY <2>2 DEF isBusy
  <2> QED BY <1>2, <2>1, <2>2 DEF SwitchTab, hideEnrollment, showPam, unchangedRun, sharedVars
<1>3. CASE Click
  <2>1. CASE tab = "enrollment" /\ onGainSliderChanged
    <3>1. UNCHANGED <<streaming, helper, tab>>
      BY <1>3, <2>1 DEF Click, onGainSliderChanged, unchangedRun, guiVars
    <3>2. page'.pending = page.pending /\ page'.label = page.label
      BY <2>1 DEF onGainSliderChanged, PageShape, YieldInv
    <3> QED BY <3>1, <3>2 DEF isBusy, camera_
  <2>2. CASE tab = "enrollment" /\ (onSaveGainClicked \/ onDeleteClicked)
    <3>1. UNCHANGED <<streaming, tab>> /\ ~isBusy("enrollment")
      BY <1>3, <2>2 DEF Click, onSaveGainClicked, onDeleteClicked, writeConfig, remove, run, guiVars
    <3>2. page'.pending \in {"save_gain", "delete"} /\ page'.label = page.label
      BY <2>2 DEF onSaveGainClicked, onDeleteClicked, pend, PageShape, YieldInv
    <3> QED BY <2>2, <3>1, <3>2 DEF camera_
  <2>3. CASE tab = "enrollment" /\ (onEnrollClicked \/ onTestClicked)
    <3>1. page'.pending \in {"enroll", "test"}
      BY <2>3 DEF onEnrollClicked, startEnroll, onTestClicked, pend, PageShape, YieldInv
    <3>2. at' = "prompt"
      BY <1>0, <2>3, RunMoves DEF onEnrollClicked, startEnroll, onTestClicked, enroll, test,
         YieldInv, Processes
    <3> QED BY <3>1, <3>2 DEF isBusy
  <2>4. CASE tab = "settings" /\ SettingsClick
    <3>1. UNCHANGED <<page, streaming, tab>>
      BY <1>3, <2>4 DEF Click, SettingsClick, onSaveClicked, onRefreshCamerasClicked,
         onCameraDeviceChanged, onCameraDeviceDeclined, onCameraModeChanged,
         onCameraModeDeclined, onConfirmationModeChosen, unchangedBySettings, systemVars, guiVars
    <3>2. at' = at
      BY <1>0, <1>3, <2>4, ClickMoves, RunMoves DEF YieldInv, Processes, Pages
    <3> QED BY <1>1, <3>1, <3>2 DEF camera_
  <2>5. CASE tab = "pam" /\ PamClick
    <3>1. UNCHANGED <<page, streaming, tab>>
      BY <1>3, <2>5 DEF Click, PamClick, onActionClicked, systemVars, guiVars
    <3>2. at' = at
      BY <1>0, <1>3, <2>5, ClickMoves, RunMoves DEF YieldInv, Processes, Pages
    <3> QED BY <1>1, <3>1, <3>2 DEF camera_
  <2> QED BY <1>3, <2>1, <2>2, <2>3, <2>4, <2>5 DEF Click, EnrollmentClick
<1>4. CASE Tick
  <2>1. UNCHANGED <<helper, tab>> /\ camera_ # None
    BY <1>4 DEF Tick, onPreviewTick, unchangedRun, guiVars
  <2>2. page'.pending = page.pending /\ (camera_' # None \/ page'.label = "reason")
    BY <1>4, <2>1 DEF Tick, onPreviewTick, PageShape, YieldInv, camera_
  <2> QED BY <2>1, <2>2 DEF isBusy
<1>5. ASSUME NEW p \in Pages, Run(p) PROVE Busy' /\ Lit'
  <2>1. UNCHANGED <<page, tab>> /\ (at # "idle" => at' # "idle")
    BY <1>0, <1>5, HelperMoves DEF Run, Moves, YieldInv, Processes, guiVars
  <2>2. \/ UNCHANGED streaming
        \/ \E path : streaming' = [streaming EXCEPT ![p] = path]
    BY <1>5, HelperStreams DEF Run
  <2>3. camera_' = camera_
    BY <1>0, <2>2 DEF camera_, StreamShape, YieldInv
  <2> QED BY <1>1, <2>1, <2>3
<1>6. ASSUME NEW p \in Pages, Dispatch(p) PROVE Busy' /\ Lit'
  <2>1. CASE p = "enrollment"
    <3> DEFINE known == Learned(helper["enrollment"].answer)
               now   == [label |-> page.label, slider |-> page.slider, isEnrolled |-> known,
                         pending |-> "none", reshown |-> FALSE]
    <3>1. IF page.pending \in {"enroll", "test"} THEN startPreview(now)
          ELSE page' = now /\ UNCHANGED streaming
      BY <1>6, <2>1 DEF Dispatch, onEnrollmentFinished, Resumes
    <3>2. UNCHANGED tab
      BY <1>6 DEF Dispatch, guiVars
    <3> HIDE DEF known
    <3>3. CASE page.pending \in {"enroll", "test"}
      BY <3>1, <3>3, StartExplains DEF YieldInv
    <3>4. CASE page.pending \notin {"enroll", "test"}
      BY <3>1, <3>2, <3>4 DEF camera_
    <3> QED BY <3>3, <3>4
  <2>2. CASE p # "enrollment"
    <3>1. at' = at
      BY <1>0, <1>6, <2>2, FinishedMoves DEF Dispatch, onSettingsFinished, onPamFinished,
         YieldInv, Processes
    <3>2. UNCHANGED <<page, streaming, tab>>
      BY <1>6, <2>2 DEF Dispatch, onSettingsFinished, onPamFinished, systemVars, guiVars
    <3> QED BY <1>1, <3>1, <3>2 DEF camera_
  <2> QED BY <2>1, <2>2
<1>7. CASE Replug \/ AdminEdit
  BY <1>1, <1>7 DEF Replug, AdminEdit, guiVars, camera_
<1>8. CASE UNCHANGED vars
  BY <1>1, <1>8 DEF vars, sharedVars, systemVars, guiVars, camera_
<1> QED BY <1>2, <1>3, <1>4, <1>5, <1>6, <1>7, <1>8 DEF Next

\* Whatever fails, is unplugged or is taken by others, an Enrollment page on show that runs
\* no command has the camera open or says why it has not (startPreview, onPreviewTick).
THEOREM DarkIsExplained == Spec => []DarkPreviewExplained
<1>1. Init => DarkInv
  <2>1. Init => YieldInv
    BY InitProcesses DEF Init, YieldInv, PageInit, PageShape, StreamShape, PreviewYields, camera_,
       Holders
  <2> QED BY <2>1 DEF Init, DarkInv, Scanned, PageInit
<1>2. DarkInv => DarkPreviewExplained
  <2>1. ASSUME DarkInv, ~isBusy("enrollment") PROVE page.pending \notin {"enroll", "test"}
    BY <2>1 DEF DarkInv
  <2> QED BY <2>1 DEF DarkInv, DarkPreviewExplained
<1> QED BY <1>1, <1>2, DarkStep, PTL DEF Spec
=============================================================================
