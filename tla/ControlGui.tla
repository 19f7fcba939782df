----------------------------- MODULE ControlGui -----------------------------
(***************************************************************************)
(* facial-auth-control: the window with its three tabs, each with its own   *)
(* helper, over one config.conf, one set of cameras and one enrolment.       *)
(* Between them the pages, their helpers, somebody who plugs cameras and an  *)
(* administrator take their steps in any order.                              *)
(***************************************************************************)
EXTENDS EnrollmentPage, SettingsPage, PamIntegrationPage, Integers

CONSTANTS
    Sessions     \* how the window may be opened: [tabs, the pages its user works in;
                 \* conf, what config.conf holds; scans, the nodes that may be plugged]

\* What the window meets: nodes that are found by their path and list the sizes they have
\* in order, and a file that load can read, which names a camera or none.
ASSUME SessionsAssumption ==
    \A s \in Sessions :
        /\ s.tabs \subseteq Pages
        /\ \A nodes \in s.scans :
             /\ IsFiniteSet(nodes)
             /\ \A n \in nodes :
                  /\ n.path \notin {None, NoPath} /\ n.index \in Nat
                  /\ \A f \in Formats : n.sizes[f] \in Seq([discrete : BOOLEAN, size : STRING])
        /\ s.conf # None =>
             /\ DOMAIN s.conf \subseteq DOMAIN defaults
             /\ load(s.conf).mode \in CamModes /\ load(s.conf).gain \in Int
             /\ [path |-> load(s.conf).path, format |-> load(s.conf).format,
                 size |-> load(s.conf).size] # None

VARIABLES
    tab,         \* the tab on show; "none" until the window is
    session      \* one of Sessions

guiVars == <<tab, session>>
vars    == <<sharedVars, page, form, row, stale, guiVars>>

TypeOK ==
    /\ conf = None \/ DOMAIN conf \subseteq DOMAIN defaults
    /\ DOMAIN streaming = Holders
    /\ enrolled \in BOOLEAN /\ acked \in BOOLEAN /\ trouble \subseteq {"fault", "race"}
    /\ service \in [Services -> States] /\ row \in [Services -> States]
    /\ \A p \in Pages :
         /\ helper[p].at \in Steps /\ helper[p].cmd.op \in Ops /\ helper[p].answer \in Answers
         /\ helper[p].at \in {"truncate", "write"} => helper[p].cmd.op \in Writers
         /\ streaming[p] # None <=> helper[p].at = "capture"
    /\ \A g, h \in Holders : g # h /\ streaming[g] = streaming[h] => streaming[g] = None
    /\ page.label \in Labels /\ page.slider \in GainMin..GainMax /\ page.pending \in Actions
    /\ page.pending # "none" <=> isBusy("enrollment")
    /\ form.device \in DOMAIN form.cameras /\ form.mode \in CamModes \cup {NoMode}
    /\ form.mode = NoMode <=> Offered(Shown) = {}
    /\ form.device = form.sureDevice
    /\ tab \in Pages \cup {"none"}

Init ==
    /\ session \in Sessions
    /\ conf = session.conf
    /\ plugged \in session.scans
    /\ streaming = [h \in Holders |-> None]
    /\ enrolled \in BOOLEAN
    /\ service \in IF "pam" \in session.tabs THEN [Services -> States]
                   ELSE {[s \in Services |-> "absent"]}
    /\ helper = [p \in Pages |-> Idle]
    /\ acked = (conf # None /\ load(conf).mode = "rgb")
    /\ asked = {k \in {"confirm", "greeter"} : conf # None /\ load(conf)[k] = "none"}
    /\ trouble = {} /\ runs = 0 /\ mishaps = 0
    /\ PageInit /\ FormInit /\ PamInit
    /\ tab = "none"

-----------------------------------------------------------------------------

\* The window appears, or another tab is chosen: one page is hidden, one shown.
SwitchTab ==
    \E t \in session.tabs \ {tab} :
        /\ tab' = t
        /\ \/ t = "enrollment" /\ showEnrollment /\ UNCHANGED <<row, stale>>
           \/ t # "enrollment" /\ tab = "enrollment" /\ hideEnrollment
              /\ IF t = "pam" THEN refreshAll ELSE UNCHANGED <<row, stale>>
           \/ t = "pam" /\ tab # "enrollment" /\ showPam /\ UNCHANGED page
           \/ t = "settings" /\ tab # "enrollment" /\ UNCHANGED <<sharedVars, page, row, stale>>
        /\ UNCHANGED <<form, session>>

Click ==
    /\ \/ tab = "enrollment" /\ EnrollmentClick /\ UNCHANGED <<form, row, stale>>
       \/ tab = "settings" /\ SettingsClick /\ UNCHANGED <<page, row, stale>>
       \/ tab = "pam" /\ PamClick /\ UNCHANGED <<page, form>>
    /\ UNCHANGED guiVars

Tick == onPreviewTick /\ UNCHANGED <<form, row, stale, guiVars>>

Dispatch(p) ==
    /\ \/ p = "enrollment" /\ onEnrollmentFinished /\ UNCHANGED <<form, row, stale>>
       \/ p = "settings" /\ onSettingsFinished /\ UNCHANGED <<page, row, stale>>
       \/ p = "pam" /\ onPamFinished /\ UNCHANGED <<page, form>>
    /\ UNCHANGED guiVars

Run(p) == Helper(p) /\ UNCHANGED <<page, form, row, stale, guiVars>>

Replug ==
    /\ Mishap
    /\ plugged' \in session.scans \ {plugged}
    /\ UNCHANGED <<conf, streaming, enrolled, service, helper, historyVars, trouble, runs,
                   page, form, row, stale, guiVars>>

\* A service file that the user looks at is changed outside the application.
AdminEdit ==
    /\ Mishap /\ "pam" \in session.tabs
    /\ \E s \in Services :
         /\ service' \in {[service EXCEPT ![s] = state] : state \in States \ {service[s]}}
         /\ stale' = stale \cup {s}
    /\ UNCHANGED <<conf, plugged, streaming, enrolled, helper, historyVars, trouble, runs,
                   page, form, row, guiVars>>

Next ==
    \/ SwitchTab \/ Click \/ Tick
    \/ \E p \in Pages : Run(p) \/ Dispatch(p)
    \/ Replug \/ AdminEdit

Spec == Init /\ [][Next]_vars

\* A path belongs to one camera, and the nodes of a camera come and go together.
WholeCameras(s) ==
    \A a, b \in s.scans : \A i \in DOMAIN listCameras(a) : \A j \in DOMAIN listCameras(b) :
        LET c == listCameras(a)[i]
            d == listCameras(b)[j]
        IN  (\E m, o \in CamModes :
               c[m] # None /\ d[o] # None /\ c[m].path = d[o].path) => c = d

\* A file that names the colour stream of a camera that has infrared too says mode "rgb".
ModeIsTold(s) ==
    s.conf # None =>
        \A nodes \in s.scans : \A i \in DOMAIN listCameras(nodes) :
            LET camera == listCameras(nodes)[i]
                config == load(s.conf)
            IN  camera.rgb # None /\ camera.rgb.path = config.path /\ camera.ir # None =>
                  \/ config.mode = "rgb"
                  \/ camera.ir.path = config.path /\ config.format # "YUYV"

\* A helper that is authorised is scheduled, and the event loop delivers its end; the
\* user, who may leave the prompt unanswered, promises nothing.
Proceeds(p) == Dispatch(p) \/ (HelperStep(p) /\ UNCHANGED <<page, form, row, stale, guiVars>>)

FairSpec == Spec /\ \A p \in Pages : WF_vars(Proceeds(p))

-----------------------------------------------------------------------------
(* Properties                                                                *)

Saved == IF conf = None THEN defaults ELSE load(conf)

\* Wherever RGB is a choice, nobody's declining, changing of cameras, refreshing or
\* replugging saves it unasked, and no failure does: as long as no two commands write the
\* file at a time, only a camera without infrared comes to be configured for RGB without
\* an answer (onCameraDeviceChanged, onCameraModeChanged, onSaveClicked, startEnroll).
RgbChosenIsAcknowledged ==
    "race" \notin trouble /\ Saved.mode = "rgb" /\ ~acked =>
        \A nodes \in session.scans : \A i \in DOMAIN listCameras(nodes) :
            LET camera == listCameras(nodes)[i] IN
            camera.rgb # None /\ camera.rgb.path = Saved.path => camera.ir = None

\* Whatever is lost, cut short or fails, load leaves a question out only where somebody
\* chose to do without it.  Where two commands wrote the file at a time, one question may
\* go with the other, but still none where nobody chose to do without either (Config::load,
\* serialize, runWriteConfig, runEnroll).
NoConfirmationUnasked ==
    \A k \in {"confirm", "greeter"} :
        Saved[k] = "none" => k \in asked \/ ("race" \in trouble /\ asked # {})

\* As long as no two commands write the file at a time and none fails, the saved device,
\* format, mode and size belong together: to one stream of one camera, or to the file that
\* the window was opened with (onSaveClicked, startEnroll, runEnroll, runWriteConfig).
SavedStreamIsOne ==
    trouble = {} /\ Saved.path # NoPath =>
        \/ /\ session.conf # None
           /\ \A k \in {"path", "format", "mode", "size"} : Saved[k] = load(session.conf)[k]
        \/ \E n \in UNION session.scans : \E i \in DOMAIN n.sizes[Saved.format] :
             /\ n.path = Saved.path /\ n.sizes[Saved.format][i].size = Saved.size
             /\ Saved.mode = IF Saved.format = "YUYV" THEN "rgb" ELSE "ir"

\* Saving does not change the camera of a user who did not: through every refresh,
\* whatever is plugged, the page stays with the configured path (populateCameraDeviceCombo).
UntouchedCameraKept ==
    ~form.chose /\ form.configured # NoPath =>
        shownStream # None /\ shownStream.path = form.configured

\* The preview and a capture that this page started have the camera at the same time
\* only if the page has been shown anew meanwhile (startEnroll, onTestClicked).
PreviewYields ==
    helper["enrollment"].cmd.op \in Capturers /\ camera_ # None => page.reshown

\* A page on show that does nothing has a picture, or says why not (startPreview).
DarkPreviewExplained ==
    tab = "enrollment" /\ ~isBusy("enrollment") /\ camera_ = None =>
        page.label = "reason"

\* While the tab is on show and nothing runs, every row shows what the file holds, if
\* nobody else changed it meanwhile (refreshAll).
RowsTrue ==
    tab = "pam" /\ ~isBusy("pam") =>
        \A s \in Services \ stale : row[s] = service[s]

\* Again and again each page has no command under way that was authorised, for each of
\* them ends and its page hears of it: a camera that is taken
\* is an error and not a wait (V4L2Camera::open, EnrollHelperRunner).
CommandAnswered ==
    \A p \in Pages : []<>(helper[p].at \in {"idle", "prompt"})

(* What a comment says, and the code does not do                             *)

\* SettingsPage.cpp, the note on a camera without infrared: "you'll be asked to confirm this
\* trade-off before it's saved".
RgbAcknowledged == Saved.mode = "rgb" => acked

\* EnrollmentPage.hpp: the preview camera "is closed before every privileged helper
\* invocation and reopened after".
PreviewClosedForHelper ==
    camera_ # None => helper["enrollment"].cmd.op \notin Capturers
=============================================================================
