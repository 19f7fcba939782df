---------------------------- MODULE PamCallProofs ----------------------------
(***************************************************************************)
(* More theorems about PamFacial, for all sessions and bounds: a call       *)
(* implements CameraConsent, a prompt that was given up stays so, the        *)
(* terminal is given back, and without interrupted waits nothing is left.    *)
(***************************************************************************)
EXTENDS PamFacialProofs

\* With a host that held the terminal, who can have it now; and a prompt gives it back
\* only where it took it.
TerminalInv ==
    /\ session.tty = "host" =>
         /\ \/ fg = "host"
            \/ fg = "child" /\ host \in {"loop", "poll", "kill", "reap", "restore"}
         /\ fg = "child" => HandsOver
         /\ orig # "none" => orig = "host"
    /\ host = "restore" => HandsOver

\* From the decision to kill the child on, there is no answer and no verifier.
GivenUp ==
    \/ host = "kill"
    \/ host \in {"reap", "restore", "prompted"} /\ answer = Empty
    \/ host = "returned"

\* The child's group is its own when it is killed, and so is its dialog's; a child that
\* has answered, or is waited for, has nothing more to do than exit.
GroupInv ==
    /\ child \notin {"none", "forked", "zombie"} => childPg = "child"
    /\ host \in {"hand_over", "loop", "poll", "kill"} /\ child # "none" => childPg = "child"
    /\ helper # "none" => helperPg = "child"
    /\ child \notin {"exit", "zombie", "none"} =>
         host \in Asking \cup {"kill"} /\ pipe = Empty

\* Where waits are not interrupted, a dialog is its child's to wait for or is going to be
\* killed with the group.
LeftoverInv ==
    /\ leftover = {}
    /\ helper # "none" =>
         /\ host \in Asking \cup {"kill"} /\ pipe = Empty
         /\ child \in {"gui_wait", "zombie", "none"}

\* Which replies are still to come, and where a dialog can be that may give one: where
\* its child did not wait for it, the answer is that there was none.
ReplyInv ==
    /\ host \in Asking \cup {"kill"} => answer = Empty
    /\ host \in Deciding => prompt = "none"
    /\ prompt = "none" => helper = "none" /\ said["gui"] = "silent"
    /\ prompt # "text" => said["text"] = "silent"
    /\ host = "run_child" => said[prompt] = "silent"
    /\ host = "run_child" /\ prompt = "gui" => helper = "none"
    /\ child \in {"forked", "ask", "reading", "gui_fork"} => said[prompt] = "silent"
    /\ child \in {"forked", "gui_fork"} /\ prompt = "gui" => helper = "none"
    /\ HelperAlive /\ prompt = "gui" =>
         /\ said["gui"] = "silent"
         /\ child \in {"write", "exit"} => childByte = 2
         /\ pipe \in {Empty, 2} /\ answer \in {Empty, 2}
         /\ \/ host \in Asking \cup {"kill"}
            \/ host \in {"reap", "restore", "prompted"} /\ answer = 2
    /\ verify = "exit_1" => found = "no_match"

CallInv == TerminalInv /\ GroupInv /\ ReplyInv /\ (~Interrupts => LeftoverInv)

LEMMA InitCall == Init => CallInv
BY DEF Init, CallInv, TerminalInv, HandsOver, HasTty, NeedsTerminal, GroupInv, LeftoverInv,
   ReplyInv, Deciding, Asking, Prompts, HelperAlive

\* Each step of each process keeps it, and takes no prompt back that was given up.
LEMMA CallStep ==
    ConsentInv /\ CallInv /\ [Next]_vars => CallInv' /\ (GivenUp => GivenUp')
<1> USE DEF CallInv, TerminalInv, GroupInv, LeftoverInv, ReplyInv, GivenUp, HandsOver, HasTty,
        NeedsTerminal, ConsentInv, Phases, Deciding, Asking, Empty, TypeOK, Groups,
        Replies, Prompts, Exited, HelperSteps, ChildSteps, ChildAlive, HelperAlive,
        ReadEndOpen, configVars, answerVars, callVars, childVars, helperVars, verifyVars,
        otherProcs, worldVars, decideFrame, promptFrame, waitFrame, sessionFrame,
        ChildFrame, HelperFrame, VerifyFrame
<1> SUFFICES ASSUME ConsentInv, CallInv, [Next]_vars
             PROVE  CallInv' /\ (GivenUp => GivenUp')
  OBVIOUS
<1>1. CASE GetUser
  BY <1>1 DEF GetUser, Return
<1>2. CASE NeverAsk
  BY <1>2 DEF NeverAsk
<1>3. CASE GetConv
  BY <1>3 DEF GetConv, Return
<1>4. CASE ReadMode
  <2>1. mode' \in Modes
    BY <1>4 DEF ReadMode, Configs
  <2> QED BY <1>4, <2>1 DEF ReadMode, Modes
<1>5. CASE FoldAnswer
  BY <1>5 DEF FoldAnswer, Return, SaysYes, AsksText, Answer
<1>6. CASE StartChild
  BY <1>6 DEF StartChild, HasTty, NeedsTerminal
<1>7. CASE ParentSetpgid
  BY <1>7 DEF ParentSetpgid
<1>8. CASE HandOver
  BY <1>8 DEF HandOver, HandsOver, HasTty, NeedsTerminal
<1>9. CASE CheckDeadline
  BY <1>9 DEF CheckDeadline
<1>10. CASE Poll
  BY <1>10 DEF Poll
<1>11. CASE KillGroup
  BY <1>11 DEF KillGroup, GroupKilled, Ended
<1>12. CASE ReapChild
  <2>1. TerminalInv' /\ GroupInv' /\ (GivenUp => GivenUp')
    BY <1>12 DEF ReapChild, AfterReap, HandsOver, HasTty, NeedsTerminal
  <2>2. ReplyInv'
    BY <1>12 DEF ReapChild, AfterReap, HandsOver, HasTty, NeedsTerminal
  <2>3. ~Interrupts => LeftoverInv'
    BY <1>12 DEF ReapChild
  <2> QED BY <2>1, <2>2, <2>3
<1>13. CASE Restore
  BY <1>13 DEF Restore
<1>14. CASE ForkVerify
  BY <1>14 DEF ForkVerify, Return
<1>15. CASE WaitVerify
  BY <1>15 DEF WaitVerify, Return, ResultOf
<1>16. CASE VerifyClock
  BY <1>16 DEF VerifyClock, VerifyAlive, Ended
<1>17. CASE ReapVerify
  BY <1>17 DEF ReapVerify, Return
<1>18. CASE ChildSetpgid
  BY <1>18 DEF ChildSetpgid, ChildRuns
<1>19. CASE ConvReads
  BY <1>19 DEF ConvReads, ChildRuns
<1>20. CASE GuiFork
  BY <1>20 DEF GuiFork, ChildRuns
<1>21. CASE GuiWait
  BY <1>21 DEF GuiWait, ChildRuns, ByteOf
<1>22. CASE ChildWrite
  BY <1>22 DEF ChildWrite, ChildRuns
<1>23. CASE ChildExit
  BY <1>23 DEF ChildExit, ChildRuns, Ended, Orphaned
<1>24. CASE ConvReturns
  BY <1>24 DEF ConvReturns, ChildRuns
<1>25. CASE ChildDies
  BY <1>25 DEF ChildDies, Ended, Orphaned
<1>26. CASE HelperExec
  BY <1>26 DEF HelperExec, HelperEnds, Ended
<1>27. CASE HelperAnswers
  BY <1>27 DEF HelperAnswers, HelperEnds, Ended
<1>28. CASE HelperFails
  BY <1>28 DEF HelperFails, HelperEnds, Ended
<1>29. CASE VerifyExec
  BY <1>29 DEF VerifyExec, Ended
<1>30. CASE VerifyFinds
  BY <1>30 DEF VerifyFinds
<1>31. CASE VerifyExits
  BY <1>31 DEF VerifyExits, Ended, ExitCodeOf
<1>32. CASE TimerExpires
  BY <1>32 DEF TimerExpires
<1>33. CASE RewriteConfig
  BY <1>33 DEF RewriteConfig
<1>34. CASE ShellForeground
  BY <1>34 DEF ShellForeground
<1>35. CASE TerminalStop
  BY <1>35 DEF TerminalStop
<1>36. CASE UNCHANGED vars
  BY <1>36 DEF vars
<1> QED BY <1>1, <1>2, <1>3, <1>4, <1>5, <1>6, <1>7, <1>8, <1>9, <1>10, <1>11, <1>12,
          <1>13, <1>14, <1>15, <1>16, <1>17, <1>18, <1>19, <1>20, <1>21, <1>22, <1>23,
          <1>24, <1>25, <1>26, <1>27, <1>28, <1>29, <1>30, <1>31, <1>32, <1>33, <1>34,
          <1>35, <1>36
        DEF Next, HostStep, ChildStep

LEMMA CallInvariant == Spec => []CallInv
  BY InitCall, CallStep, ConsentInvariant, PTL DEF Spec

-----------------------------------------------------------------------------

\* Whatever is answered, killed, stopped or interrupted: a host that held the terminal
\* when it called holds it when the call returns (runConfirmationChild).
THEOREM TerminalIsGivenBack == Spec => []TerminalGivenBack
<1>1. CallInv => TerminalGivenBack
  BY DEF CallInv, TerminalInv, TerminalGivenBack
<1> QED BY <1>1, CallInvariant, PTL

\* In every session and interleaving only a text prompt moves the terminal's foreground,
\* and hands it to the child only from where it will be returned to.
THEOREM OnlyTextTakesTheTerminal == Spec => GuiLeavesTerminalAlone
<1> DEFINE Moved == fg' # fg /\ "host" \notin stopped =>
                      prompt = "text" /\ (fg = "child" => fg' = orig)
<1>1. ASSUME CallInv, [Next]_vars PROVE Moved \/ UNCHANGED vars
  <2> SUFFICES ASSUME Next, fg' # fg PROVE Moved
    BY <1>1 DEF vars
  <2>1. HandOver \/ Restore \/ ShellForeground
    BY DEF Next, HostStep, ChildStep, GetUser, NeverAsk, GetConv, ReadMode, FoldAnswer,
       StartChild, ParentSetpgid, CheckDeadline, Poll, KillGroup, ReapChild, ForkVerify,
       WaitVerify, VerifyClock, ReapVerify, ChildSetpgid, ConvReads, GuiFork, GuiWait,
       ChildWrite, ChildExit, ConvReturns, ChildDies, HelperExec, HelperAnswers, HelperFails,
       VerifyExec, VerifyFinds, VerifyExits, TimerExpires, RewriteConfig, TerminalStop,
       decideFrame, waitFrame, ChildFrame, sessionFrame, HelperFrame, VerifyFrame
  <2>2. CASE HandOver
    BY <2>2 DEF HandOver, HandsOver, HasTty, NeedsTerminal
  <2>3. CASE Restore
    BY <1>1, <2>3 DEF Restore, CallInv, TerminalInv, HandsOver, HasTty, NeedsTerminal
  <2>4. CASE ShellForeground
    BY <2>4 DEF ShellForeground
  <2> QED BY <2>1, <2>2, <2>3, <2>4
<1>2. CallInv /\ [Next]_vars => [Moved]_vars
  BY <1>1
<1> QED BY <1>2, CallInvariant, PTL DEF Spec, GuiLeavesTerminalAlone

\* A prompt that was given up cannot start the camera any more, whoever still writes into
\* its pipe (runConfirmationChild, confirmCameraUseViaPam).
THEOREM GivenUpStaysSo == Spec => GaveUpIsFinal
<1>1. ConsentInv /\ GivenUp => verify = "none"
  BY DEF ConsentInv, Phases, GivenUp, Verifying
<1>2. host = "kill" => GivenUp
  BY DEF GivenUp
<1> QED BY <1>1, <1>2, CallStep, CallInvariant, ConsentInvariant, PTL DEF Spec, GaveUpIsFinal

\* Without interrupted waits no call returns before every process that it started has been
\* waited for, in any interleaving, with or without Ctrl-Z (runConfirmationChild,
\* waitForChildWithTimeout).
THEOREM NothingIsLeft ==
    ASSUME ~Interrupts
    PROVE  Spec => []NothingLeftBehind
<1>1. ConsentInv /\ CallInv => NothingLeftBehind
  BY DEF ConsentInv, Phases, CallInv, LeftoverInv, NothingLeftBehind, Asking, Verifying
<1> QED BY <1>1, CallInvariant, ConsentInvariant, PTL

-----------------------------------------------------------------------------
(* The refinement of CameraConsent                                           *)

\* Every step of a process is a step of CameraConsent, or changes nothing there.
LEMMA ConsentRefines ==
    ConsentInv /\ CallInv /\ [Next]_vars => [Consent!Next]_(Consent!vars)
<1> USE DEF CallInv, ReplyInv, ConsentInv, Phases, Chain, Success, Agreed, Deciding, Asking,
        Verifying, Empty, TypeOK, HostSteps, Replies, Prompts, Findings, Results, Exited,
        ChildAlive, HelperAlive, ReadEndOpen, Consent!vars, Consent!Next, Consent!Waive,
        Consent!Ask, Consent!Reply, Consent!Accept, Consent!GiveUp, Consent!Capture,
        Consent!Conclude, Consent!Return, Consent!Findings, Consent!Results, configVars,
        answerVars, callVars, childVars, helperVars, verifyVars, otherProcs, worldVars,
        decideFrame, promptFrame, waitFrame, sessionFrame, ChildFrame, HelperFrame,
        VerifyFrame
<1> SUFFICES ASSUME ConsentInv, CallInv, [Next]_vars
             PROVE  [Consent!Next]_(Consent!vars)
  OBVIOUS
<1>1. CASE GetUser
  BY <1>1 DEF GetUser, Return
<1>2. CASE NeverAsk
  BY <1>2 DEF NeverAsk
<1>3. CASE GetConv
  BY <1>3 DEF GetConv, Return
<1>4. CASE ReadMode
  <2>1. mode' \in Modes
    BY <1>4 DEF ReadMode, Configs
  <2> QED BY <1>4, <2>1 DEF ReadMode, Modes
<1>5. CASE FoldAnswer
  BY <1>5 DEF FoldAnswer, Return, SaysYes, AsksText, Answer
<1>6. CASE StartChild
  BY <1>6 DEF StartChild, HasTty, NeedsTerminal
<1>7. CASE ParentSetpgid
  BY <1>7 DEF ParentSetpgid
<1>8. CASE HandOver
  BY <1>8 DEF HandOver, HandsOver, HasTty, NeedsTerminal
<1>9. CASE CheckDeadline
  BY <1>9 DEF CheckDeadline
<1>10. CASE Poll
  BY <1>10 DEF Poll
<1>11. CASE KillGroup
  BY <1>11 DEF KillGroup, GroupKilled, Ended
<1>12. CASE ReapChild
  BY <1>12 DEF ReapChild, AfterReap, HandsOver, HasTty, NeedsTerminal
<1>13. CASE Restore
  BY <1>13 DEF Restore
<1>14. CASE ForkVerify
  BY <1>14 DEF ForkVerify, Return
<1>15. CASE WaitVerify
  BY <1>15 DEF WaitVerify, Return, ResultOf
<1>16. CASE VerifyClock
  BY <1>16 DEF VerifyClock, VerifyAlive, Ended
<1>17. CASE ReapVerify
  BY <1>17 DEF ReapVerify, Return
<1>18. CASE ChildSetpgid
  BY <1>18 DEF ChildSetpgid, ChildRuns
<1>19. CASE ConvReads
  BY <1>19 DEF ConvReads, ChildRuns
<1>20. CASE GuiFork
  BY <1>20 DEF GuiFork, ChildRuns
<1>21. CASE GuiWait
  BY <1>21 DEF GuiWait, ChildRuns, ByteOf
<1>22. CASE ChildWrite
  BY <1>22 DEF ChildWrite, ChildRuns
<1>23. CASE ChildExit
  BY <1>23 DEF ChildExit, ChildRuns, Ended, Orphaned
<1>24. CASE ConvReturns
  BY <1>24 DEF ConvReturns, ChildRuns
<1>25. CASE ChildDies
  BY <1>25 DEF ChildDies, Ended, Orphaned
<1>26. CASE HelperExec
  BY <1>26 DEF HelperExec, HelperEnds, Ended
<1>27. CASE HelperAnswers
  BY <1>27 DEF HelperAnswers, HelperEnds, Ended
<1>28. CASE HelperFails
  BY <1>28 DEF HelperFails, HelperEnds, Ended
<1>29. CASE VerifyExec
  BY <1>29 DEF VerifyExec, Ended
<1>30. CASE VerifyFinds
  BY <1>30 DEF VerifyFinds
<1>31. CASE VerifyExits
  BY <1>31 DEF VerifyExits, Ended, ExitCodeOf
<1>32. CASE TimerExpires
  BY <1>32 DEF TimerExpires
<1>33. CASE RewriteConfig
  BY <1>33 DEF RewriteConfig
<1>34. CASE ShellForeground
  BY <1>34 DEF ShellForeground
<1>35. CASE TerminalStop
  BY <1>35 DEF TerminalStop
<1>36. CASE UNCHANGED vars
  BY <1>36 DEF vars
<1> QED BY <1>1, <1>2, <1>3, <1>4, <1>5, <1>6, <1>7, <1>8, <1>9, <1>10, <1>11, <1>12,
          <1>13, <1>14, <1>15, <1>16, <1>17, <1>18, <1>19, <1>20, <1>21, <1>22, <1>23,
          <1>24, <1>25, <1>26, <1>27, <1>28, <1>29, <1>30, <1>31, <1>32, <1>33, <1>34,
          <1>35, <1>36
        DEF Next, HostStep, ChildStep

\* One call, with its processes, pipe and terminal, implements CameraConsent: whatever is
\* asked, answered, cut off, stopped or interrupted, at whichever moment
\* (authenticateImpl, confirmCameraUseViaPam, waitForChildWithTimeout).
THEOREM CallImplementsConsent == Spec => ConsentSpec
<1>1. Init => Consent!Init
  BY DEF Init, Consent!Init
<1> QED BY <1>1, ConsentRefines, CallInvariant, ConsentInvariant, PTL
        DEF Spec, ConsentSpec, Consent!Spec
=============================================================================
