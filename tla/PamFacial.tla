----------------------------- MODULE PamFacial -----------------------------
(***************************************************************************)
(* One pam_sm_authenticate call of pam_facial.so, as the processes that     *)
(* take part in it: the host that loaded the module (sudo, login, a         *)
(* greeter), the forked child that puts the question, the GUI helper that   *)
(* child may start, facial-auth-verify, the user, the terminal's foreground *)
(* process group, and whoever rewrites config.conf meanwhile.  Each step    *)
(* is one system call of one process, so every interleaving is there.       *)
(*                                                                         *)
(* A process group is named by its leader: "host", "child", or "other" for  *)
(* any other job of the session.  said and found are what the user and the  *)
(* verification really concluded; no guard of the program's own steps       *)
(* reads said.                                                              *)
(***************************************************************************)
EXTENDS Integers

CONSTANTS
    Sessions,          \* the environments a call may be made in
    MaxConfigWrites,   \* bound on rewrites of config.conf during one call
    JobControlKeys,    \* may the user press Ctrl-Z at the terminal?
    Interrupts         \* has the host signal handlers that interrupt waitpid?

Modes     == {"gui", "text", "none"}         \* ConfirmationMode
Prompts   == {"gui", "text"}
Replies   == {"silent", "yes", "no"}         \* "no": any reply that is not a yes
Findings  == {"none", "match", "no_match", "unavailable"}
Results   == {"none", "PAM_SUCCESS", "PAM_AUTH_ERR", "PAM_AUTHINFO_UNAVAIL"}
Exited    == {"exit_0", "exit_1", "exit_other"}  \* zombies, by how they ended
Groups    == {"host", "child", "other"}
Terminals == {"none", "host", "other"}   \* no /dev/tty, or who is in its foreground
Empty     == -1                              \* no byte in the pipe

SessionSpace ==
    [user        : BOOLEAN,    \* pam_get_user gives a name
     display     : BOOLEAN,    \* DISPLAY or WAYLAND_DISPLAY is set
     conv        : BOOLEAN,    \* PAM_CONV is usable
     tty         : Terminals,
     autoReap    : BOOLEAN,    \* the host ignores SIGCHLD
     ttouIgnored : BOOLEAN]    \* the host ignores or blocks SIGTTOU

ASSUME SessionsAssumption   == Sessions \subseteq SessionSpace
ASSUME WritesAssumption     == MaxConfigWrites \in Nat
ASSUME SwitchesAssumption   == JobControlKeys \in BOOLEAN /\ Interrupts \in BOOLEAN

VARIABLES
    session,       \* where the call is made; never changes
    cfg, writes,   \* the two modes in config.conf, and how often it was rewritten
    host,          \* the host's next step
    stopped,       \* the processes job control has stopped
    mode,          \* the confirmation mode the host read last
    prompt,        \* the question runConfirmationChild is putting, or "none"
    answer,        \* the byte read from the child, Empty while gotAnswer is false
    orig,          \* originalFgPgrp
    timer,         \* the deadline of the window now open
    pipe,          \* the byte in the confirmation pipe
    fg,            \* the terminal's foreground process group
    child, childPg, childByte,                 \* the confirmation child
    helper, helperPg,                          \* facial-auth-confirm
    verify, found,                             \* facial-auth-verify
    said,          \* the user's reply to each prompt
    leftover,      \* the children the host went on without reaping
    result         \* what pam_sm_authenticate returned

configVars  == <<cfg, writes>>
answerVars  == <<answer, orig>>
callVars    == <<mode, prompt, answerVars, result>>
childVars   == <<child, childPg, childByte>>
helperVars  == <<helper, helperPg>>
verifyVars  == <<verify, found>>
otherProcs  == <<childVars, helperVars, verifyVars>>
worldVars   == <<session, configVars, said>>
vars == <<session, cfg, writes, host, stopped, mode, prompt, answer, orig, timer, pipe, fg,
          child, childPg, childByte, helper, helperPg, verify, found, said, leftover, result>>

\* What deciding whether to ask, putting the question, and waiting for the
\* verifier each leave alone.
decideFrame == <<worldVars, otherProcs, stopped, leftover, answerVars, timer, pipe, fg>>
promptFrame == <<worldVars, verifyVars, leftover, mode, prompt, result>>
waitFrame   == <<worldVars, childVars, helperVars, stopped, mode, prompt, answerVars,
                 pipe, fg>>

HostSteps ==
    {"get_user", "never_ask", "get_conv", "read_mode",          \* deciding to ask
     "run_child", "setpgid", "hand_over", "loop", "poll",       \* asking
     "kill", "reap", "restore", "prompted",                     \* closing the prompt
     "fork_verify", "wait_verify", "verify_clock", "reap_verify",
     "returned"}
ChildSteps  == {"none", "forked", "ask", "reading", "gui_fork", "gui_wait",
                "write", "exit", "zombie"}
HelperSteps == {"none", "forked", "shown"} \cup Exited
VerifySteps == {"none", "forked", "running"} \cup Exited

\* What the two mode parsers can answer: a value they do not know is their default.
Configs == [confirm : Modes, greeter : {"text", "none"}]

TypeOK ==
    /\ session \in Sessions
    /\ cfg \in Configs
    /\ writes \in 0..MaxConfigWrites
    /\ host \in HostSteps
    /\ stopped \subseteq {"host", "child"}
    /\ mode \in Modes \cup {"unread"}
    /\ prompt \in Prompts \cup {"none"}
    /\ answer \in {Empty} \cup 0..2
    /\ orig \in Groups \cup {"none"}
    /\ timer \in {"off", "armed", "expired"}
    /\ pipe \in {Empty} \cup 0..2
    /\ fg \in Groups \cup {"none"}
    /\ child \in ChildSteps
    /\ childPg \in Groups
    /\ childByte \in 0..2
    /\ helper \in HelperSteps
    /\ helperPg \in Groups
    /\ verify \in VerifySteps
    /\ found \in Findings
    /\ said \in [Prompts -> Replies]
    /\ leftover \subseteq {"child", "verify"}
    /\ result \in Results

Init ==
    /\ session \in Sessions
    /\ cfg \in Configs
    /\ writes = 0
    /\ host = "get_user"
    /\ stopped = {}
    /\ mode = "unread"
    /\ prompt = "none"
    /\ answer = Empty
    /\ orig = "none"
    /\ timer = "off"
    /\ pipe = Empty
    /\ fg = session.tty
    /\ child = "none" /\ childPg = "host" /\ childByte = 0
    /\ helper = "none" /\ helperPg = "host"
    /\ verify = "none" /\ found = "none"
    /\ said = [p \in Prompts |-> "silent"]
    /\ leftover = {}
    /\ result = "none"

-----------------------------------------------------------------------------
(* The host: authenticateImpl and confirmCameraUseViaPam                     *)

Return(r) ==
    /\ host' = "returned"
    /\ result' = r

\* pam_get_user, or nothing to authenticate.
GetUser ==
    /\ host = "get_user"
    /\ IF session.user
         THEN host' = "never_ask" /\ UNCHANGED result
         ELSE Return("PAM_AUTHINFO_UNAVAIL")
    /\ UNCHANGED <<decideFrame, mode, prompt>>

\* The setting that governs this session is read before PAM_CONV is touched.
NeverAsk ==
    /\ host = "never_ask"
    /\ mode' = IF session.display THEN cfg.confirm ELSE cfg.greeter
    /\ host' = IF mode' = "none" THEN "fork_verify" ELSE "get_conv"
    /\ UNCHANGED <<decideFrame, prompt, result>>

\* Without a conversation the camera is declined; at the login screen the
\* question is always put as text, whatever confirmation_mode says.
GetConv ==
    /\ host = "get_conv"
    /\ \/ /\ ~session.conv
          /\ Return("PAM_AUTHINFO_UNAVAIL")
          /\ UNCHANGED prompt
       \/ /\ session.conv /\ session.display
          /\ host' = "read_mode"
          /\ UNCHANGED <<prompt, result>>
       \/ /\ session.conv /\ ~session.display
          /\ host' = "run_child" /\ prompt' = "text"
          /\ UNCHANGED result
    /\ UNCHANGED <<decideFrame, mode>>

\* confirmation_mode is read from the file a second time.
ReadMode ==
    /\ host = "read_mode"
    /\ mode' = cfg.confirm
    /\ IF mode' = "none"
         THEN host' = "fork_verify" /\ UNCHANGED prompt
         ELSE host' = "run_child" /\ prompt' = mode'
    /\ UNCHANGED <<decideFrame, result>>

\* Mutant of SaysYes: any byte but 0 is a yes.
NotNo(byte) == byte \notin {Empty, 0}

\* Mutant of Answer: a last look into the pipe after giving up.
LateAnswer == IF answer = Empty THEN pipe ELSE answer

SaysYes(byte)  == byte = 1
AsksText(byte) == prompt = "gui" /\ byte = 2     \* "GUI unreachable"
Answer         == answer                         \* what runConfirmationChild returns

\* What the caller makes of the child's byte: 1 is consent, 2 from the GUI
\* attempt asks again as text, and anything else, or no byte at all, declines.
FoldAnswer ==
    /\ host = "prompted"
    /\ \/ /\ SaysYes(Answer)
          /\ host' = "fork_verify"
          /\ UNCHANGED <<prompt, result>>
       \/ /\ ~SaysYes(Answer) /\ AsksText(Answer)
          /\ host' = "run_child" /\ prompt' = "text"
          /\ UNCHANGED result
       \/ /\ ~SaysYes(Answer) /\ ~AsksText(Answer)
          /\ Return("PAM_AUTHINFO_UNAVAIL")
          /\ UNCHANGED prompt
    /\ UNCHANGED <<decideFrame, mode>>

-----------------------------------------------------------------------------
(* The host: runConfirmationChild                                            *)

\* Mutant of NeedsTerminal: the terminal is handed over just in case.
JustInCase == TRUE

NeedsTerminal == prompt = "text"
HasTty        == NeedsTerminal /\ session.tty # "none"       \* ttyFd >= 0
HandsOver     == HasTty /\ orig # "none"                     \* the code's condition

\* pipe, open of /dev/tty, tcgetpgrp and fork; a failure answers nothing.
StartChild ==
    /\ host = "run_child"
    /\ answer' = Empty /\ pipe' = Empty
    /\ \/ /\ host' = "setpgid"
          /\ orig' = IF HasTty THEN fg ELSE "none"
          /\ child' = "forked" /\ childPg' = "host"
          /\ stopped' = stopped \ {"child"} /\ childByte' = 0
       \/ /\ host' = "prompted"
          /\ UNCHANGED <<orig, stopped, childVars>>
    /\ UNCHANGED <<promptFrame, helperVars, timer, fg>>

\* The parent's setpgid(pid, pid); it also succeeds on a zombie.
ParentSetpgid ==
    /\ host = "setpgid"
    /\ host' = "hand_over"
    /\ childPg' = "child"
    /\ UNCHANGED <<promptFrame, helperVars, answerVars, stopped, timer, pipe, fg,
                   child, childByte>>

\* tcsetpgrp(ttyFd, pid), whoever is in the foreground: from the background it
\* stops the host with SIGTTOU unless that is ignored.  Then the window opens.
HandOver ==
    /\ host = "hand_over" /\ "host" \notin stopped
    /\ LET allowed == fg = "host" \/ session.ttouIgnored IN
         \/ /\ HandsOver /\ ~allowed
            /\ stopped' = stopped \cup {"host"}
            /\ UNCHANGED <<host, fg, timer>>
         \/ /\ HandsOver => allowed
            /\ fg' = IF HandsOver THEN "child" ELSE fg
            /\ host' = "loop" /\ timer' = "armed"
            /\ UNCHANGED stopped
    /\ UNCHANGED <<promptFrame, childVars, helperVars, answerVars, pipe>>

\* Mutant of CheckDeadline: every turn of the loop starts the window anew.
RestartWindow ==
    /\ host = "loop"
    /\ host' = "poll" /\ timer' = "armed"
    /\ UNCHANGED <<waitFrame, verifyVars, leftover, result>>

\* The top of the poll loop: the window is closed once the deadline has passed,
\* even over an answer already in the pipe.
CheckDeadline ==
    /\ host = "loop"
    /\ host' = IF timer = "expired" THEN "kill" ELSE "poll"
    /\ UNCHANGED <<decideFrame, mode, prompt, result>>

ChildAlive   == child \notin {"none", "zombie"}
HelperAlive  == helper \in {"forked", "shown"}
WriteEndOpen == ChildAlive \/ HelperAlive     \* the helper inherits the descriptor

\* poll: an answer, a time-out, every writer gone, a signal, or an error.
Poll ==
    /\ host = "poll"
    /\ \/ /\ pipe # Empty
          /\ answer' = pipe /\ pipe' = Empty
          /\ host' = "reap" /\ timer' = "off"
       \/ /\ timer = "expired" \/ ~WriteEndOpen \/ Interrupts
          /\ host' = "loop"
          /\ UNCHANGED <<answer, pipe, timer>>
       \/ /\ host' = "kill"
          /\ UNCHANGED <<answer, pipe, timer>>
    /\ UNCHANGED <<promptFrame, childVars, helperVars, stopped, orig, fg>>

\* The state a process that ends is left in until its parent waits for it.
Ended(zombie) == IF session.autoReap THEN "none" ELSE zombie

\* Mutant of GroupKilled: kill(pid), which spares the helper.
ChildKilled(process) == process = "child"

\* kill(-pid) reaches the processes of the child's group.
GroupKilled(process) == (IF process = "child" THEN childPg ELSE helperPg) = "child"

\* kill(-pid, SIGKILL): the child's whole group; the pipe is closed by now.
KillGroup ==
    /\ host = "kill"
    /\ host' = "reap" /\ timer' = "off"
    /\ child' = IF ChildAlive /\ GroupKilled("child") THEN Ended("zombie") ELSE child
    /\ helper' = IF GroupKilled("helper") THEN "none" ELSE helper
    /\ UNCHANGED <<promptFrame, answerVars, stopped, pipe, fg, childPg,
                   childByte, helperPg>>

\* Mutant of AfterReap: an early return when no answer came.
ReturnUnanswered == IF HandsOver /\ answer # Empty THEN "restore" ELSE "prompted"

AfterReap == IF HandsOver THEN "restore" ELSE "prompted"

\* waitpid(pid, nullptr, 0): blocks while the child lives, and is not retried
\* when a signal interrupts it.
ReapChild ==
    /\ host = "reap"
    /\ host' = AfterReap
    /\ child' = "none"
    /\ \/ ~ChildAlive /\ UNCHANGED leftover
       \/ Interrupts /\ ChildAlive /\ leftover' = leftover \cup {"child"}
    /\ UNCHANGED <<worldVars, callVars, helperVars, verifyVars, stopped, timer,
                   pipe, fg, childPg, childByte>>

\* With SIGTTOU ignored, the terminal goes back to the group that had it.
Restore ==
    /\ host = "restore"
    /\ host' = "prompted"
    /\ fg' = orig
    /\ UNCHANGED <<promptFrame, childVars, helperVars, answerVars, stopped, timer,
                   pipe>>

-----------------------------------------------------------------------------
(* The host: fork of facial-auth-verify and waitForChildWithTimeout           *)

ForkVerify ==
    /\ host = "fork_verify"
    /\ \/ /\ host' = "wait_verify"
          /\ verify' = "forked" /\ timer' = "armed"
          /\ UNCHANGED result
       \/ /\ Return("PAM_AUTHINFO_UNAVAIL")
          /\ UNCHANGED <<verify, timer>>
    /\ UNCHANGED <<waitFrame, found, leftover>>

\* Mutant of ResultOf: without the test of waitpid's own result, the status of a
\* verifier that cannot be waited for keeps its initial 0.
StatusOnly(status) ==
    CASE status \in {"exit_0", "none"} -> "PAM_SUCCESS"
      [] status = "exit_1"             -> "PAM_AUTH_ERR"
      [] OTHER                         -> "PAM_AUTHINFO_UNAVAIL"

ResultOf(status) ==
    CASE status = "exit_0" -> "PAM_SUCCESS"
      [] status = "exit_1" -> "PAM_AUTH_ERR"
      [] OTHER             -> "PAM_AUTHINFO_UNAVAIL"

\* waitpid(WNOHANG): the status, ECHILD if the kernel reaped it, or nothing yet.
WaitVerify ==
    /\ host = "wait_verify"
    /\ IF verify \in Exited \cup {"none"}
         THEN Return(ResultOf(verify)) /\ verify' = "none" /\ timer' = "off"
         ELSE host' = "verify_clock" /\ UNCHANGED <<result, verify, timer>>
    /\ UNCHANGED <<waitFrame, found, leftover>>

VerifyAlive == verify \in {"forked", "running"}

\* The outer deadline; a SIGKILL to a verifier that has just ended changes nothing.
VerifyClock ==
    /\ host = "verify_clock"
    /\ IF timer = "expired"
         THEN /\ host' = "reap_verify"
              /\ verify' = IF VerifyAlive THEN Ended("exit_other") ELSE verify
         ELSE host' = "wait_verify" /\ UNCHANGED verify
    /\ UNCHANGED <<waitFrame, timer, found, leftover, result>>

\* The status of a verifier that ran out of time is not looked at.
ReapVerify ==
    /\ host = "reap_verify"
    /\ Return("PAM_AUTHINFO_UNAVAIL")
    /\ verify' = "none" /\ timer' = "off"
    /\ leftover' \in {leftover} \cup (IF Interrupts THEN {leftover \cup {"verify"}} ELSE {})
    /\ UNCHANGED <<waitFrame, found>>

HostStep ==
    \/ GetUser \/ NeverAsk \/ GetConv \/ ReadMode \/ FoldAnswer
    \/ StartChild \/ ParentSetpgid \/ HandOver \/ CheckDeadline \/ Poll
    \/ KillGroup \/ ReapChild \/ Restore
    \/ ForkVerify \/ WaitVerify \/ VerifyClock \/ ReapVerify

-----------------------------------------------------------------------------
(* The confirmation child                                                    *)

sessionFrame == <<session, configVars, host, callVars, timer, fg, verifyVars, leftover>>
ChildFrame   == <<sessionFrame, stopped>>

ChildRuns(step) == child = step /\ "child" \notin stopped

ChildSetpgid ==
    /\ ChildRuns("forked")
    /\ childPg' = "child"
    /\ child' = IF prompt = "text" THEN "ask" ELSE "gui_fork"
    /\ UNCHANGED <<ChildFrame, pipe, childByte, helperVars, said>>

\* conv() reads the terminal: from the background that is SIGTTIN, and nothing
\* in the module ever continues a stopped child.
ConvReads ==
    /\ ChildRuns("ask")
    /\ IF session.tty # "none" /\ fg # "child"
         THEN stopped' = stopped \cup {"child"} /\ UNCHANGED child
         ELSE child' = "reading" /\ UNCHANGED stopped
    /\ UNCHANGED <<sessionFrame, pipe, childPg, childByte, helperVars, said>>

\* The user replies, or the conversation fails with nothing said: not a yes.
ConvReturns ==
    /\ ChildRuns("reading")
    /\ \E r \in Replies :
         /\ said' = [said EXCEPT !["text"] = r]
         /\ childByte' = IF r = "yes" THEN 1 ELSE 0
    /\ child' = "write"
    /\ UNCHANGED <<ChildFrame, pipe, childPg, helperVars>>

\* tryGuiConfirmation: no passwd entry or no fork means "GUI unreachable".
GuiFork ==
    /\ ChildRuns("gui_fork")
    /\ \/ /\ child' = "gui_wait"
          /\ helper' = "forked" /\ helperPg' = childPg
          /\ UNCHANGED childByte
       \/ /\ child' = "write" /\ childByte' = 2
          /\ UNCHANGED helperVars
    /\ UNCHANGED <<ChildFrame, pipe, childPg, said>>

\* Mutant of ByteOf: a helper that did not say no has said yes.
YesUnlessNo(status) == IF status = "exit_1" THEN 0 ELSE 1

\* Mutant of ByteOf: the raw exit code of a failed exec.
RawCode(status) ==
    CASE status = "exit_0" -> 1
      [] status = "exit_1" -> 0
      [] OTHER             -> 127

\* The child's byte for the way the helper ended.
ByteOf(status) ==
    CASE status = "exit_0" -> 1
      [] status = "exit_1" -> 0
      [] OTHER             -> 2

\* waitpid on the helper: its exit code, or 2 if it was not there to be waited
\* for, or the wait was interrupted.
GuiWait ==
    /\ ChildRuns("gui_wait")
    /\ \/ /\ helper \in Exited
          /\ helper' = "none"
          /\ childByte' = ByteOf(helper)
       \/ /\ helper = "none" \/ Interrupts
          /\ childByte' = 2
          /\ UNCHANGED helper
    /\ child' = "write"
    /\ UNCHANGED <<ChildFrame, pipe, childPg, helperPg, said>>

ReadEndOpen == host \in {"setpgid", "hand_over", "loop", "poll"}

ChildWrite ==
    /\ ChildRuns("write")
    /\ pipe' = IF ReadEndOpen THEN childByte ELSE pipe
    /\ child' = "exit"
    /\ UNCHANGED <<ChildFrame, childPg, childByte, helperVars, said>>

\* The helper of a child that is gone belongs to init, which reaps it.
Orphaned == IF helper \in Exited THEN "none" ELSE helper

ChildExit ==
    /\ ChildRuns("exit")
    /\ child' = Ended("zombie") /\ helper' = Orphaned
    /\ UNCHANGED <<ChildFrame, pipe, childPg, childByte, helperPg, said>>

\* Any signal that ends the child before it has answered, Ctrl-C for one.
ChildDies ==
    /\ ChildAlive
    /\ child' = Ended("zombie") /\ helper' = Orphaned
    /\ UNCHANGED <<ChildFrame, pipe, childPg, childByte, helperPg, said>>

ChildStep == ChildSetpgid \/ ConvReads \/ GuiFork \/ GuiWait \/ ChildWrite \/ ChildExit

-----------------------------------------------------------------------------
(* facial-auth-confirm and facial-auth-verify                                *)

HelperFrame == <<session, configVars, host, stopped, callVars, timer, pipe, fg,
                 childVars, helperPg, verifyVars, leftover>>

HelperEnds(status) == helper' = IF ChildAlive THEN Ended(status) ELSE "none"

\* Privileges dropped and the dialog shown, or _exit(2) on the way.
HelperExec ==
    /\ helper = "forked"
    /\ helper' = "shown" \/ HelperEnds("exit_other")
    /\ UNCHANGED <<HelperFrame, said>>

\* The user answers the dialog; closing it is a no.
HelperAnswers ==
    /\ helper = "shown"
    /\ \E r \in {"yes", "no"} :
         /\ said' = [said EXCEPT !["gui"] = r]
         /\ HelperEnds(IF r = "yes" THEN "exit_0" ELSE "exit_1")
    /\ UNCHANGED HelperFrame

\* The toolkit aborts, or finds no display.
HelperFails ==
    /\ helper = "shown"
    /\ HelperEnds("exit_other")
    /\ UNCHANGED <<HelperFrame, said>>

VerifyFrame == <<session, configVars, host, stopped, callVars, timer, pipe, fg,
                 childVars, helperVars, said, leftover>>

VerifyExec ==
    /\ verify = "forked"
    /\ verify' \in {"running", Ended("exit_other")}
    /\ UNCHANGED <<VerifyFrame, found>>

\* runVerification comes to an outcome.
VerifyFinds ==
    /\ verify = "running" /\ found = "none"
    /\ found' \in Findings \ {"none"}
    /\ UNCHANGED <<VerifyFrame, verify>>

ExitCodeOf(outcome) ==
    CASE outcome = "match"    -> "exit_0"
      [] outcome = "no_match" -> "exit_1"
      [] OTHER                -> "exit_other"

\* main returns the outcome's code, or an exception, a crash or a signal ends it.
VerifyExits ==
    /\ verify = "running"
    /\ verify' \in {Ended(ExitCodeOf(found)), Ended("exit_other")}
    /\ UNCHANGED <<VerifyFrame, found>>

-----------------------------------------------------------------------------
(* The rest of the machine                                                   *)

\* A window's deadline passes.
TimerExpires ==
    /\ timer = "armed"
    /\ timer' = "expired"
    /\ UNCHANGED <<waitFrame, verifyVars, host, leftover, result>>

\* The settings page, or an administrator, rewrites config.conf.
RewriteConfig ==
    /\ writes < MaxConfigWrites /\ host # "returned"
    /\ cfg' \in Configs
    /\ writes' = writes + 1
    /\ UNCHANGED <<otherProcs, callVars, session, host, stopped, timer, pipe, fg,
                   said, leftover>>

\* The shell brings the stopped host to the foreground (fg) and continues it.
ShellForeground ==
    /\ "host" \in stopped
    /\ stopped' = stopped \ {"host"} /\ fg' = "host"
    /\ UNCHANGED <<promptFrame, childVars, helperVars, answerVars, host, timer, pipe>>

\* Ctrl-Z: SIGTSTP to the foreground group.
TerminalStop ==
    /\ JobControlKeys
    /\ fg = "child" /\ childPg = "child" /\ ChildAlive
    /\ stopped' = stopped \cup {"child"}
    /\ UNCHANGED <<promptFrame, helperVars, answerVars, host, timer,
                   pipe, fg, child, childPg, childByte>>

Next ==
    \/ HostStep \/ ChildStep \/ ConvReturns \/ ChildDies
    \/ HelperExec \/ HelperAnswers \/ HelperFails
    \/ VerifyExec \/ VerifyFinds \/ VerifyExits
    \/ TimerExpires \/ RewriteConfig \/ ShellForeground \/ TerminalStop

Spec == Init /\ [][Next]_vars

\* The scheduler runs the host and a runnable child, and time passes.  Nothing is
\* assumed of the user, the helper, the verifier or the shell.
Fairness == WF_vars(HostStep) /\ WF_vars(ChildStep) /\ WF_vars(TimerExpires)

FairSpec == Spec /\ Fairness

-----------------------------------------------------------------------------
(* Safety                                                                    *)

\* The user agreed to this attempt, at the last prompt put to them, or the
\* administrator configured that nobody is asked (confirmCameraUseViaPam).
Consented == mode = "none" \/ (prompt # "none" /\ said[prompt] = "yes")

\* facial-auth-verify, and so the camera, is started only with that consent:
\* whatever byte the children leave, whichever of them fails, however often the
\* question is put and whenever the answer arrives (authenticateImpl).
ConsentBeforeCamera == verify # "none" => Consented

\* PAM_SUCCESS needs that consent and a match the verifier itself concluded; a
\* killed, crashed, unexecutable or kernel-reaped verifier never yields one, and
\* neither does a status read after the outer deadline (waitForChildWithTimeout).
SuccessNeedsConsentAndMatch ==
    result = "PAM_SUCCESS" => Consented /\ found = "match"

\* Once runConfirmationChild has given a prompt up, no answer still on its way
\* to the pipe can turn the camera on in this call.
GaveUpIsFinal == [](host = "kill" => [](verify = "none"))

\* The GUI prompt leaves the terminal's foreground group alone: only a text prompt
\* takes it, and only from where it is returned to (the 2026-08-17 incident).
GuiLeavesTerminalAlone ==
    [][fg' # fg /\ "host" \notin stopped => prompt = "text" /\ (fg = "child" => fg' = orig)]_vars

\* When the call returns no process it started is left: no child unreaped, no
\* dialog on the screen, no verifier holding the camera.
NothingLeftBehind ==
    host = "returned" =>
        child = "none" /\ helper = "none" /\ verify = "none" /\ leftover = {}

\* A host that held the terminal when it called holds it when the call returns,
\* so the next module's password prompt can read it.
TerminalGivenBack ==
    host = "returned" /\ session.tty = "host" => fg = "host"

(* Liveness                                                                  *)

\* The call returns whatever the user, the dialog and the verifier do, or do not
\* do; a host the shell has stopped in the background waits for its shell.
AlwaysReturns == <>(host = "returned") \/ <>[]("host" \in stopped)

(* The abstract promise                                                      *)

Consent == INSTANCE CameraConsent WITH
    stage <-
        CASE host \in {"get_user", "never_ask", "get_conv", "read_mode"} -> "idle"
          [] host \in {"run_child", "setpgid", "hand_over", "loop", "poll"} -> "asking"
          [] host = "kill" -> "closed"
          [] host \in {"reap", "restore", "prompted"} -> IF answer = Empty THEN "closed" ELSE "asking"
          [] host = "fork_verify" -> "allowed"
          [] host \in {"wait_verify", "verify_clock", "reap_verify"} -> "capturing"
          [] host = "returned" -> "done",
    reply <- IF prompt = "none" THEN "silent" ELSE said[prompt]

\* The processes, pipe and terminal of one call implement CameraConsent.
ConsentSpec == Consent!Spec

-----------------------------------------------------------------------------
(* What a comment says, and the code does not do                             *)

\* pam_facial.cpp: the text child is "handed the controlling terminal's
\* foreground process group for the call's duration", so that it can read it: the
\* terminal never stops a child that is about to read the reply.
ForegroundForTheCall == child = "ask" => "child" \notin stopped
=============================================================================
