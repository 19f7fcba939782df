--------------------------- MODULE EnrollmentPage ---------------------------
(***************************************************************************)
(* The Enrollment tab: the camera preview, the illumination slider and the  *)
(* four commands.  Slots run one at a time; the instructions box of Enroll  *)
(* lets nobody use the page while it is up, so that its slot is one step.   *)
(***************************************************************************)
EXTENDS EnrollHelperRunner

CONSTANT Gains     \* slider positions the user chooses

GainMin == 10      \* kGainSliderMin and kGainSliderMax
GainMax == 600

ASSUME GainsAssumption == Gains \subseteq GainMin..GainMax

VARIABLE page

Actions == {"none", "enroll", "delete", "test", "save_gain"}
Labels  == {"unavailable", "picture", "reason"}     \* what the preview shows

PageInit == page = [label |-> "unavailable", slider |-> 100, isEnrolled |-> FALSE,
                    pending |-> "none", reshown |-> FALSE]

camera_ == streaming["preview"]

\* The hundredths whose decimal text, read back and multiplied by 100, is a double just
\* below the whole number.
ReadsLow == {29, 57, 58, 113, 114, 115, 116, 201, 203, 205, 207, 226, 228, 230, 232, 251, 253,
             255, 402, 406, 410, 414, 427, 431, 435, 439, 452, 456, 460, 464, 477, 481, 485, 489,
             502, 506, 510}

\* static_cast<int>(illuminationGain * 100.0), as the slider takes it.
SliderFor(gain) ==
    LET position == IF gain \in ReadsLow THEN gain - 1 ELSE gain IN
    IF position < GainMin THEN GainMin ELSE IF position > GainMax THEN GainMax ELSE position

\* now is the page as the slot has left it so far.
startPreview(now) ==
    IF camera_ # None THEN page' = now /\ UNCHANGED streaming
    ELSE IF conf = None THEN page' = [now EXCEPT !.label = "reason"] /\ UNCHANGED streaming
    ELSE LET shown == [now EXCEPT !.slider = SliderFor(load(conf).gain)] IN
         \/ /\ CanOpen(load(conf).path)
            /\ streaming' = [streaming EXCEPT !["preview"] = load(conf).path]
            /\ page' = shown
         \/ /\ page' = [shown EXCEPT !.label = "reason"]
            /\ UNCHANGED streaming

stopPreview == streaming' = [streaming EXCEPT !["preview"] = None]

unchangedSystem == UNCHANGED <<conf, plugged, enrolled, service, historyVars, mishaps>>
unchangedRun    == UNCHANGED <<helper, runs, trouble>>

-----------------------------------------------------------------------------

showEnrollment ==
    /\ startPreview([page EXCEPT !.reshown = isBusy("enrollment")])
    /\ unchangedSystem /\ unchangedRun

hideEnrollment ==
    /\ stopPreview
    /\ UNCHANGED page
    /\ unchangedSystem /\ unchangedRun

\* A picture, a frame that did not come in time, or an exception.
onPreviewTick ==
    /\ camera_ # None
    /\ \/ /\ Present(camera_)
          /\ page' = [page EXCEPT !.label = "picture"]
          /\ UNCHANGED streaming
       \/ /\ stopPreview
          /\ page' = [page EXCEPT !.label = "reason"]
    /\ unchangedSystem /\ unchangedRun

onGainSliderChanged ==
    /\ \E value \in Gains : page' = [page EXCEPT !.slider = value]
    /\ UNCHANGED streaming /\ unchangedSystem /\ unchangedRun

pend(action) == page' = [page EXCEPT !.pending = action]

onSaveGainClicked ==
    /\ writeConfig("enrollment", [gain |-> page.slider])
    /\ pend("save_gain")
    /\ UNCHANGED streaming /\ unchangedSystem

\* Mutant of yieldCamera: the preview goes on.
keepCamera == UNCHANGED streaming

\* Before a command that captures.
yieldCamera == stopPreview

\* The mode is the one that is configured now; RGB passes --i-understand-the-risk.
startEnroll(reEnroll) ==
    /\ enroll("enrollment", reEnroll, IF conf = None THEN "ir" ELSE load(conf).mode, page.slider)
    /\ pend("enroll")
    /\ yieldCamera /\ unchangedSystem

onEnrollClicked == startEnroll(page.isEnrolled)

onDeleteClicked ==
    /\ remove("enrollment")
    /\ pend("delete")
    /\ UNCHANGED streaming /\ unchangedSystem

onTestClicked ==
    /\ test("enrollment")
    /\ pend("test")
    /\ yieldCamera /\ unchangedSystem

\* What the result teaches about the enrolment.
Learned(answer) ==
    CASE page.pending = "enroll" /\ answer \in {"ok", "exists"}     -> TRUE
      [] page.pending = "test" /\ answer = "seen"     -> TRUE
      [] page.pending = "delete" /\ answer = "ok"                   -> FALSE
      [] OTHER                                                      -> page.isEnrolled

\* Mutant of Resumes: the preview comes back after what worked.
ResumesIfOk(action, answer) == action \in {"enroll", "test"} /\ answer # "error"

Resumes(action, answer) == action \in {"enroll", "test"}

onEnrollmentFinished ==
    /\ Finished("enrollment")
    /\ LET answer == helper["enrollment"].answer
           now == [label |-> page.label, slider |-> page.slider,
                   isEnrolled |-> Learned(answer), pending |-> "none", reshown |-> FALSE]
       IN  IF Resumes(page.pending, answer) THEN startPreview(now)
           ELSE page' = now /\ UNCHANGED streaming
    /\ unchangedSystem
    /\ UNCHANGED <<runs, trouble>>

EnrollmentClick ==
    \/ onGainSliderChanged \/ onSaveGainClicked \/ onEnrollClicked \/ onDeleteClicked
    \/ onTestClicked
=============================================================================
