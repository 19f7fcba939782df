-------------------------- MODULE PamFacialProofs --------------------------
(***************************************************************************)
(* Proofs about PamFacial, for every set of sessions and of configuration    *)
(* writes: its typing, that the camera needs consent, and that success needs  *)
(* consent and a match.                                                      *)
(***************************************************************************)
EXTENDS PamFacial, TLAPS

\* The terminal of a session the call may be made in is one the model knows.
LEMMA SessionTerminal == session \in Sessions => session.tty \in Terminals
  BY SessionsAssumption DEF SessionSpace

(***************************************************************************)
(* Why the camera needs consent: an inductive invariant.  A byte 1 in the    *)
(* child, in the pipe or in the host's hands was put there by a yes to the   *)
(* prompt now open (Chain); and while somebody may still reply to that       *)
(* prompt no such byte is anywhere (Unspoken), so a reply never goes back on *)
(* a yes that has been passed on.                                            *)
(***************************************************************************)
Deciding  == {"get_user", "never_ask", "get_conv", "read_mode"}
Asking    == {"setpgid", "hand_over", "loop", "poll"}
Verifying == {"wait_verify", "verify_clock", "reap_verify"}

Agreed   == prompt # "none" /\ said[prompt] = "yes"
Unspoken == childByte # 1 /\ pipe # 1 /\ answer # 1

Phases ==
    /\ verify # "none" => host \in Verifying
    /\ child # "none" => host \in Asking \cup {"kill", "reap"} /\ prompt # "none"
    /\ host = "run_child" => prompt # "none"
    /\ child \in {"gui_fork", "gui_wait"} => prompt = "gui"
    /\ child \in {"ask", "reading"} => prompt = "text"
    /\ host \in Deciding => helper = "none"
    /\ host \in Deciding \cup Asking \cup {"run_child", "kill"} => answer # 1

Chain ==
    /\ helper = "exit_0" => said["gui"] = "yes"
    /\ child # "none" /\ childByte = 1 => Agreed
    /\ ReadEndOpen /\ pipe = 1 => Agreed
    /\ answer = 1 => Agreed
    /\ host \in Verifying \cup {"fork_verify"} => mode = "none" \/ answer = 1

StillAsking ==
    /\ child \in {"forked", "ask", "reading", "gui_fork", "gui_wait"} => Unspoken
    /\ HelperAlive /\ prompt = "gui" => Unspoken

Success ==
    /\ verify = "exit_0" => found = "match"
    /\ result = "PAM_SUCCESS" =>
         host = "returned" /\ found = "match" /\ (mode = "none" \/ answer = 1)

ConsentInv == TypeOK /\ Phases /\ Chain /\ StillAsking /\ Success

\* The moment at which pam_sm_authenticate is entered is well typed.
LEMMA TypingInit == Init => TypeOK
BY WritesAssumption, SessionTerminal
   DEF Init, Terminals, TypeOK, HostSteps, ChildSteps, HelperSteps, VerifySteps, Exited,
       Groups, Modes, Prompts, Replies, Findings, Results, Empty

\* Every variable keeps its type in every step of every process.
THEOREM Typing == Spec => []TypeOK
<1> USE DEF TypeOK, Configs, HostSteps, ChildSteps, HelperSteps, VerifySteps, Exited,
        Groups, Modes, Prompts, Replies, Findings, Results, Empty
<1>1. Init => TypeOK
  BY TypingInit
<1>2. TypeOK /\ [Next]_vars => TypeOK'
  <2> USE DEF configVars, answerVars, callVars, childVars, helperVars, verifyVars,
          otherProcs, worldVars, decideFrame, promptFrame, waitFrame, sessionFrame,
          ChildFrame, HelperFrame, VerifyFrame
  <2> SUFFICES ASSUME TypeOK, [Next]_vars PROVE TypeOK'
    OBVIOUS
  <2>1. CASE GetUser
    BY <2>1 DEF GetUser, Return
  <2>2. CASE NeverAsk
    BY <2>2 DEF NeverAsk
  <2>3. CASE GetConv
    BY <2>3 DEF GetConv, Return
  <2>4. CASE ReadMode
    BY <2>4 DEF ReadMode
  <2>5. CASE FoldAnswer
    BY <2>5 DEF FoldAnswer, Return, SaysYes, AsksText, Answer, Empty
  <2>6. CASE StartChild
    <3>1. stopped' \subseteq {"host", "child"}
      BY <2>6 DEF StartChild
    <3> QED BY <2>6, <3>1 DEF StartChild, HasTty, NeedsTerminal
  <2>7. CASE ParentSetpgid
    BY <2>7 DEF ParentSetpgid
  <2>8. CASE HandOver
    <3>1. stopped' \subseteq {"host", "child"}
      BY <2>8 DEF HandOver
    <3> QED BY <2>8, <3>1 DEF HandOver, HandsOver, HasTty, NeedsTerminal
  <2>9. CASE CheckDeadline
    BY <2>9 DEF CheckDeadline
  <2>10. CASE Poll
    BY <2>10 DEF Poll, Empty
  <2>11. CASE KillGroup
    BY <2>11 DEF KillGroup, Ended
  <2>12. CASE ReapChild
    <3>1. leftover' \subseteq {"child", "verify"}
      BY <2>12 DEF ReapChild
    <3> QED BY <2>12, <3>1 DEF ReapChild, AfterReap
  <2>13. CASE Restore
    BY <2>13 DEF Restore
  <2>14. CASE ForkVerify
    BY <2>14 DEF ForkVerify, Return
  <2>15. CASE WaitVerify
    BY <2>15 DEF WaitVerify, Return, ResultOf
  <2>16. CASE VerifyClock
    BY <2>16 DEF VerifyClock, Ended
  <2>17. CASE ReapVerify
    BY <2>17 DEF ReapVerify, Return
  <2>18. CASE ChildSetpgid
    BY <2>18 DEF ChildSetpgid, ChildRuns
  <2>19. CASE ConvReads
    <3>1. stopped' \subseteq {"host", "child"}
      BY <2>19 DEF ConvReads
    <3> QED BY <2>19, <3>1 DEF ConvReads, ChildRuns
  <2>20. CASE GuiFork
    BY <2>20 DEF GuiFork, ChildRuns
  <2>21. CASE GuiWait
    BY <2>21 DEF GuiWait, ChildRuns, ByteOf
  <2>22. CASE ChildWrite
    BY <2>22 DEF ChildWrite, ChildRuns
  <2>23. CASE ChildExit
    BY <2>23 DEF ChildExit, ChildRuns, Ended, Orphaned
  <2>24. CASE ConvReturns
    BY <2>24 DEF ConvReturns, ChildRuns
  <2>25. CASE ChildDies
    BY <2>25 DEF ChildDies, Ended, Orphaned
  <2>26. CASE HelperExec
    BY <2>26 DEF HelperExec, HelperEnds, Ended
  <2>27. CASE HelperAnswers
    BY <2>27 DEF HelperAnswers, HelperEnds, Ended
  <2>28. CASE HelperFails
    BY <2>28 DEF HelperFails, HelperEnds, Ended
  <2>29. CASE VerifyExec
    BY <2>29 DEF VerifyExec, Ended
  <2>30. CASE VerifyFinds
    BY <2>30 DEF VerifyFinds
  <2>31. CASE VerifyExits
    BY <2>31 DEF VerifyExits, Ended, ExitCodeOf
  <2>32. CASE TimerExpires
    BY <2>32 DEF TimerExpires
  <2>33. CASE RewriteConfig
    BY <2>33, WritesAssumption DEF RewriteConfig
  <2>34. CASE ShellForeground
    BY <2>34 DEF ShellForeground
  <2>35. CASE TerminalStop
    BY <2>35 DEF TerminalStop
  <2>36. CASE UNCHANGED vars
    BY <2>36 DEF vars
  <2> QED BY <2>1, <2>2, <2>3, <2>4, <2>5, <2>6, <2>7, <2>8, <2>9, <2>10, <2>11, <2>12,
          <2>13, <2>14, <2>15, <2>16, <2>17, <2>18, <2>19, <2>20, <2>21, <2>22, <2>23,
          <2>24, <2>25, <2>26, <2>27, <2>28, <2>29, <2>30, <2>31, <2>32, <2>33, <2>34,
          <2>35, <2>36 DEF Next, HostStep, ChildStep
<1> QED BY <1>1, <1>2, PTL DEF Spec

\* Each step of each process keeps every part of the chain.
LEMMA ConsentStep == ConsentInv /\ TypeOK' /\ [Next]_vars => ConsentInv'
<1> USE DEF ConsentInv, Phases, Chain, StillAsking, Success, Deciding, Asking,
        Verifying, Agreed, Unspoken, ReadEndOpen, HelperAlive, ChildAlive, TypeOK,
        Exited, Empty, Modes, Prompts, Replies, configVars, answerVars, callVars,
        childVars, helperVars, verifyVars, otherProcs, worldVars, decideFrame,
        promptFrame, waitFrame, sessionFrame, ChildFrame, HelperFrame, VerifyFrame
<1> SUFFICES ASSUME ConsentInv, TypeOK', [Next]_vars PROVE ConsentInv'
  OBVIOUS
<1>1. CASE GetUser
  BY <1>1 DEF GetUser, Return
<1>2. CASE NeverAsk
  BY <1>2 DEF NeverAsk
<1>3. CASE GetConv
  BY <1>3 DEF GetConv, Return
<1>4. CASE ReadMode
  BY <1>4 DEF ReadMode
<1>5. CASE FoldAnswer
  BY <1>5 DEF FoldAnswer, Return, SaysYes, AsksText, Answer, Empty
<1>6. CASE StartChild
  BY <1>6 DEF StartChild, HasTty, NeedsTerminal
<1>7. CASE ParentSetpgid
  BY <1>7 DEF ParentSetpgid
<1>8. CASE HandOver
  BY <1>8 DEF HandOver, HandsOver, HasTty, NeedsTerminal
<1>9. CASE CheckDeadline
  BY <1>9 DEF CheckDeadline
<1>10. CASE Poll
  BY <1>10 DEF Poll, Empty
<1>11. CASE KillGroup
  BY <1>11 DEF KillGroup, Ended
<1>12. CASE ReapChild
  BY <1>12 DEF ReapChild, AfterReap
<1>13. CASE Restore
  BY <1>13 DEF Restore
<1>14. CASE ForkVerify
  BY <1>14 DEF ForkVerify, Return
<1>15. CASE WaitVerify
  BY <1>15 DEF WaitVerify, Return, ResultOf
<1>16. CASE VerifyClock
  BY <1>16 DEF VerifyClock, Ended
<1>17. CASE ReapVerify
  BY <1>17 DEF ReapVerify, Return
<1>18. CASE ChildSetpgid
  BY <1>18 DEF ChildSetpgid, ChildRuns
<1>19. CASE ConvReads
  BY <1>19 DEF ConvReads, ChildRuns
<1>20. CASE GuiFork
  BY <1>20 DEF GuiFork, ChildRuns
<1>21. CASE GuiWait
  BY <1>21 DEF GuiWait, ChildRuns, ByteOf
<1>22. CASE ChildWrite
  BY <1>22 DEF ChildWrite, ChildRuns
<1>23. CASE ChildExit
  BY <1>23 DEF ChildExit, ChildRuns, Ended, Orphaned
<1>24. CASE ConvReturns
  BY <1>24 DEF ConvReturns, ChildRuns
<1>25. CASE ChildDies
  BY <1>25 DEF ChildDies, Ended, Orphaned
<1>26. CASE HelperExec
  BY <1>26 DEF HelperExec, HelperEnds, Ended
<1>27. CASE HelperAnswers
  BY <1>27 DEF HelperAnswers, HelperEnds, Ended
<1>28. CASE HelperFails
  BY <1>28 DEF HelperFails, HelperEnds, Ended
<1>29. CASE VerifyExec
  BY <1>29 DEF VerifyExec, Ended
<1>30. CASE VerifyFinds
  BY <1>30 DEF VerifyFinds
<1>31. CASE VerifyExits
  BY <1>31 DEF VerifyExits, Ended, ExitCodeOf
<1>32. CASE TimerExpires
  BY <1>32 DEF TimerExpires
<1>33. CASE RewriteConfig
  BY <1>33 DEF RewriteConfig
<1>34. CASE ShellForeground
  BY <1>34 DEF ShellForeground
<1>35. CASE TerminalStop
  BY <1>35 DEF TerminalStop
<1>36. CASE UNCHANGED vars
  BY <1>36 DEF vars
<1> QED BY <1>1, <1>2, <1>3, <1>4, <1>5, <1>6, <1>7, <1>8, <1>9, <1>10, <1>11, <1>12,
        <1>13, <1>14, <1>15, <1>16, <1>17, <1>18, <1>19, <1>20, <1>21, <1>22, <1>23,
        <1>24, <1>25, <1>26, <1>27, <1>28, <1>29, <1>30, <1>31, <1>32, <1>33, <1>34,
        <1>35, <1>36 DEF Next, HostStep, ChildStep

\* The chain from the user's yes to the verifier's start is never broken.
THEOREM ConsentInvariant == Spec => []ConsentInv
<1>1. Init => ConsentInv
  <2> SUFFICES ASSUME Init PROVE ConsentInv
    OBVIOUS
  <2>1. TypeOK
    BY TypingInit
  <2> QED BY <2>1 DEF Init, ConsentInv, Phases, Chain, StillAsking, Success, Deciding, Asking,
        Verifying, Agreed, Unspoken, ReadEndOpen, HelperAlive, Empty
<1>2. TypeOK' /\ ConsentInv /\ [Next]_vars => ConsentInv'
  BY ConsentStep
<1> QED BY <1>1, <1>2, Typing, PTL DEF Spec

\* The camera is not started without the user's yes to the prompt put to them, or a
\* configuration that nobody is asked, in any session and with any interleaving.
THEOREM CameraNeedsConsent == Spec => []ConsentBeforeCamera
<1>1. ConsentInv => ConsentBeforeCamera
  BY DEF ConsentInv, Phases, Chain, Verifying, Agreed, ConsentBeforeCamera, Consented
<1> QED BY <1>1, ConsentInvariant, PTL

\* PAM_SUCCESS is returned only after that consent and a match the verifier found.
THEOREM SuccessIsEarned == Spec => []SuccessNeedsConsentAndMatch
<1>1. ConsentInv => SuccessNeedsConsentAndMatch
  BY DEF ConsentInv, Chain, Success, Agreed, SuccessNeedsConsentAndMatch, Consented
<1> QED BY <1>1, ConsentInvariant, PTL
=============================================================================
