------------------------- MODULE EnrollHelperRunner -------------------------
(***************************************************************************)
(* What the pages of facial-auth-control share: config.conf, the cameras,   *)
(* the enrolment, the PAM service files, and one EnrollHelperRunner each,   *)
(* with the facial-auth-enroll it runs through pkexec.                       *)
(*                                                                         *)
(* The helper's commands are here as the control application meets them:     *)
(* config.conf is loaded, emptied and written in three steps, the camera is *)
(* opened and held, the outcome is any that the command can have.  How a     *)
(* capture, a save and an edit go is in Enrollment and PamServiceEdit.       *)
(***************************************************************************)
EXTENDS ConfigFile, CameraSelection

CONSTANTS
    Services,    \* kAllowedPamServices
    MaxRuns,     \* bound on the commands that are run
    MaxMishaps,  \* bound on kills, failed calls, short writes, and on what happens behind
                 \* the application's back
    TornAt       \* after how many lines a short write of config.conf may end

ASSUME RunsAssumption == MaxRuns \in Nat /\ MaxMishaps \in Nat
ASSUME TornAssumption == TornAt \subseteq 0..(Len(ConfigKeys) - 1)

Pages   == {"enrollment", "settings", "pam"}
Holders == Pages \cup {"preview"}
States  == {"absent", "safe", "unsafe", "missing"}   \* detectPamFacialState, or no file

VARIABLES
    conf,        \* config.conf: None, or what it holds
    plugged,     \* the video nodes that are there
    streaming,   \* the path each holder has open, or None
    enrolled,    \* is there an enrolment?
    service,     \* the state of each PAM service file
    helper,      \* each page's process and its helper
    acked,       \* history: has the risk of RGB been accepted?
    asked,       \* history: the confirmations somebody chose to do without
    trouble,     \* history: "fault", and "race": two writers of config.conf at a time
    runs, mishaps

systemVars  == <<conf, plugged, streaming, enrolled, service>>
historyVars == <<acked, asked>>
sharedVars  == <<systemVars, helper, historyVars, trouble, runs, mishaps>>

Idle  == [at |-> "idle", cmd |-> [op |-> "none"], loaded |-> None, answer |-> "none"]
Steps == {"idle", "prompt", "load", "truncate", "write", "open", "capture", "apply", "ended"}
Ops   == {"none", "write_config", "enroll", "test", "delete", "pam_enable", "pam_disable"}
Writers   == {"write_config", "enroll"}
Capturers == {"enroll", "test", "pam_enable"}
Answers   == {"none", "ok", "error", "exists", "seen", "unavailable"}

ASSUME NoneAssumption == None \notin Answers

isBusy(p) == helper[p].at # "idle"

\* run: nothing if the process is still there, else pkexec asks for authorisation.
run(p, cmd) ==
    /\ ~isBusy(p) /\ runs < MaxRuns
    /\ runs' = runs + 1
    /\ helper' = [helper EXCEPT
          ![p] = [at |-> "prompt", cmd |-> cmd, loaded |-> None, answer |-> "none"]]
    /\ trouble' = trouble \cup
          IF cmd.op \in Writers /\ (\E q \in Pages : helper[q].cmd.op \in Writers)
            THEN {"race"} ELSE {}

writeConfig(p, set)           == run(p, [op |-> "write_config", set |-> set])
enroll(p, again, mode, gain)  == run(p, [op |-> "enroll", again |-> again, mode |-> mode,
                                         gain |-> gain])
test(p)                       == run(p, [op |-> "test"])
remove(p)                     == run(p, [op |-> "delete"])
enablePam(p, s)               == run(p, [op |-> "pam_enable", service |-> s])
disablePam(p, s)              == run(p, [op |-> "pam_disable", service |-> s])

-----------------------------------------------------------------------------
(* The helper process                                                        *)

Goto(p, step) == helper' = [helper EXCEPT ![p].at = step]

\* Exit: the result waits for the page, and the device is closed.
End(p, answer) ==
    /\ helper' = [helper EXCEPT ![p].at = "ended", ![p].loaded = None, ![p].answer = answer]
    /\ streaming' = [streaming EXCEPT ![p] = None]

unchangedByHelper == <<plugged, historyVars, runs>>
undisturbed       == <<trouble, mishaps>>

\* The prompt is dismissed or refused, or pkexec does not start: FailedToStart.
Refused(p) ==
    /\ helper[p].at = "prompt"
    /\ End(p, "error")
    /\ UNCHANGED <<conf, enrolled, service, unchangedByHelper, undisturbed>>

Authorised(p) ==
    /\ helper[p].at = "prompt"
    /\ Goto(p, IF helper[p].cmd.op \in {"delete", "pam_disable"} THEN "apply" ELSE "load")
    /\ UNCHANGED <<systemVars, unchangedByHelper, undisturbed>>

\* The configuration a writer is about to save.
Configured(cmd) ==
    IF cmd.op = "enroll" THEN [load(conf) EXCEPT !.mode = cmd.mode, !.gain = cmd.gain]
    ELSE applyConfigOverrides(IF conf = None THEN defaults ELSE load(conf), cmd.set)

\* What ends a command before it does anything, or None.
Precheck(cmd) ==
    CASE cmd.op = "enroll" /\ enrolled /\ ~cmd.again             -> "exists"
      [] cmd.op = "enroll" /\ conf = None                        -> "error"
      [] cmd.op = "test" /\ (conf = None \/ ~enrolled)           -> "unavailable"
      [] cmd.op = "pam_enable" /\
           (service[cmd.service] = "missing" \/ conf = None \/ ~enrolled) -> "error"
      [] OTHER                                                   -> None

Load(p) ==
    /\ helper[p].at = "load"
    /\ LET cmd == helper[p].cmd IN
         IF Precheck(cmd) # None THEN End(p, Precheck(cmd))
         ELSE /\ helper' = [helper EXCEPT
                   ![p].at = IF cmd.op \in Writers THEN "truncate" ELSE "open",
                   ![p].loaded =
                      IF cmd.op \in Writers THEN [config |-> Configured(cmd), seen |-> "none"]
                      ELSE [config |-> load(conf),
                            seen |-> IF cmd.op = "test" THEN "none" ELSE service[cmd.service]]]
              /\ UNCHANGED streaming
    /\ UNCHANGED <<conf, enrolled, service, unchangedByHelper, undisturbed>>

\* ofstream with ios::trunc: from here to the write the file is empty.
Truncate(p) ==
    /\ helper[p].at = "truncate"
    /\ conf' = Empty
    /\ Goto(p, "write")
    /\ UNCHANGED <<plugged, streaming, enrolled, service, unchangedByHelper, undisturbed>>

AfterWrite(p) ==
    IF helper[p].cmd.op = "enroll" THEN Goto(p, "open") /\ UNCHANGED streaming
    ELSE End(p, "ok")

WriteConf(p) ==
    /\ helper[p].at = "write"
    /\ conf' \in WrittenOver(conf, serialize(helper[p].loaded.config))
    /\ AfterWrite(p)
    /\ UNCHANGED <<plugged, enrolled, service, unchangedByHelper, undisturbed>>

Mishap == mishaps < MaxMishaps /\ mishaps' = mishaps + 1

Fault ==
    /\ Mishap
    /\ trouble' = trouble \cup {"fault"}

\* Only a part reaches the disk.  Nobody looks: the command reports success.
WriteConfShort(p) ==
    /\ helper[p].at = "write"
    /\ \E n \in TornAt : conf' \in WrittenOver(conf, FirstLines(helper[p].loaded.config, n))
    /\ AfterWrite(p)
    /\ Fault
    /\ UNCHANGED <<plugged, enrolled, service, unchangedByHelper>>

\* open(trunc), the save or the rename fails, or the process is killed.
Fails(p) ==
    /\ helper[p].at \notin {"idle", "prompt", "ended"}
    /\ End(p, "error")
    /\ Fault
    /\ UNCHANGED <<conf, enrolled, service, unchangedByHelper>>

-----------------------------------------------------------------------------
(* The camera                                                                *)

Present(path) == \E n \in plugged : n.path = path /\ n.capture

\* Most UVC drivers take one streaming process for a node.
CanOpen(path) == Present(path) /\ \A h \in Holders : streaming[h] # path

\* What a command reports that cannot open the camera.
NoCameraAnswer(op) == IF op = "test" THEN "unavailable" ELSE "error"

\* Mutant of Open: a busy camera is waited for.
OpenOrWait(p) ==
    /\ helper[p].at = "open" /\ CanOpen(helper[p].loaded.config.path)
    /\ streaming' = [streaming EXCEPT ![p] = helper[p].loaded.config.path]
    /\ Goto(p, "capture")
    /\ UNCHANGED <<conf, enrolled, service, unchangedByHelper, undisturbed>>

Open(p) ==
    /\ helper[p].at = "open"
    /\ LET path == helper[p].loaded.config.path IN
         \/ /\ CanOpen(path)
            /\ streaming' = [streaming EXCEPT ![p] = path]
            /\ Goto(p, "capture")
         \/ End(p, NoCameraAnswer(helper[p].cmd.op))
    /\ UNCHANGED <<conf, enrolled, service, unchangedByHelper, undisturbed>>

\* The recording, the verification, or the five verifications of the pre-enable check.
Capture(p) ==
    /\ helper[p].at = "capture"
    /\ \/ /\ helper[p].cmd.op = "enroll"
          /\ \/ enrolled' = TRUE /\ End(p, "ok")
             \/ UNCHANGED enrolled /\ End(p, "error")
       \/ /\ helper[p].cmd.op = "test"
          /\ \E answer \in {"seen", "unavailable"} : End(p, answer)
          /\ UNCHANGED enrolled
       \/ /\ helper[p].cmd.op = "pam_enable"
          /\ \/ /\ Goto(p, "apply")
                /\ streaming' = [streaming EXCEPT ![p] = None]
             \/ End(p, "error")
          /\ UNCHANGED enrolled
    /\ UNCHANGED <<conf, service, unchangedByHelper, undisturbed>>

\* The deletion, or the edit of the service file from what was read of it.
Apply(p) ==
    LET cmd == helper[p].cmd IN
    /\ helper[p].at = "apply"
    /\ \/ /\ cmd.op = "delete"
          /\ enrolled' = FALSE /\ End(p, "ok")
          /\ UNCHANGED service
       \/ /\ cmd.op = "pam_enable"
          /\ CASE helper[p].loaded.seen = "absent" ->
                    service' = [service EXCEPT ![cmd.service] = "safe"] /\ End(p, "ok")
               [] helper[p].loaded.seen = "safe"   -> UNCHANGED service /\ End(p, "ok")
               [] OTHER                            -> UNCHANGED service /\ End(p, "error")
          /\ UNCHANGED enrolled
       \/ /\ cmd.op = "pam_disable"
          /\ IF service[cmd.service] = "missing"
               THEN UNCHANGED service /\ End(p, "error")
               ELSE service' = [service EXCEPT ![cmd.service] = "absent"] /\ End(p, "ok")
          /\ UNCHANGED enrolled
    /\ UNCHANGED <<conf, unchangedByHelper, undisturbed>>

\* What the helper itself does once it is authorised.
HelperStep(p) == Load(p) \/ Truncate(p) \/ WriteConf(p) \/ Open(p) \/ Capture(p) \/ Apply(p)

Helper(p) == Refused(p) \/ Authorised(p) \/ HelperStep(p) \/ WriteConfShort(p) \/ Fails(p)

\* finished: the page has its answer, and may run the next command.
Finished(p) ==
    /\ helper[p].at = "ended"
    /\ helper' = [helper EXCEPT ![p] = Idle]
=============================================================================
