-------------------------- MODULE PamServiceProofs --------------------------
(***************************************************************************)
(* Theorems about PamServiceEdit, for any number of helpers, commands,       *)
(* edits and power failures.                                                *)
(***************************************************************************)
EXTENDS PamServiceEdit, FiniteSetTheorems, SequenceTheorems, WellFoundedInduction, TLAPS

\* A helper's job, field by field, and what each variable is a function of.
Job(op, read, new, tries, passes, target, fd, off) ==
    [op |-> op, read |-> read, new |-> new, tries |-> tries, passes |-> passes,
     target |-> target, fd |-> fd, off |-> off]

JobShape ==
    /\ job = [h \in Helpers |-> job[h]]
    /\ \A h \in Helpers :
         job[h] = Job(job[h].op, job[h].read, job[h].new, job[h].tries, job[h].passes,
                      job[h].target, job[h].fd, job[h].off)

Shape == pc = [h \in Helpers |-> pc[h]] /\ tmp = [n \in Names |-> tmp[n]] /\ JobShape

\* Who is past the recognition checks has passed them.
Installing == {"edit", "choose", "open", "write", "rename"}
Earned(h)  == job[h].op = "enable" /\ pc[h] \in Installing =>
                 job[h].tries = Attempts /\ job[h].passes >= MinPasses

\* A temporary file has somebody who is about to rename or to remove it.
Attended(n) == tmp[n] # NoInode =>
                 \E h \in Helpers : pc[h] \in {"write", "rename"} /\ job[h].target = n

EditInv ==
    /\ Shape
    /\ \A h \in Helpers : Earned(h) /\ job[h].target \in Names
    /\ ~killed => \A n \in Names : Attended(n)

\* Helper h takes a step; the jobs and the steps of the others are as they were.
Alone(h) == \A g \in Helpers \ {h} : pc'[g] = pc[g] /\ job'[g] = job[g]

\* The updates of the actions, with the fields they keep.
LEMMA JobField ==
    ASSUME NEW r, NEW v,
           r = Job(r.op, r.read, r.new, r.tries, r.passes, r.target, r.fd, r.off)
    PROVE  /\ [r EXCEPT !.op = v] =
                Job(v, r.read, r.new, r.tries, r.passes, r.target, r.fd, r.off)
           /\ [r EXCEPT !.read = v] =
                Job(r.op, v, r.new, r.tries, r.passes, r.target, r.fd, r.off)
           /\ [r EXCEPT !.new = v] =
                Job(r.op, r.read, v, r.tries, r.passes, r.target, r.fd, r.off)
           /\ [r EXCEPT !.target = v] =
                Job(r.op, r.read, r.new, r.tries, r.passes, v, r.fd, r.off)
           /\ [r EXCEPT !.off = v] =
                Job(r.op, r.read, r.new, r.tries, r.passes, r.target, r.fd, v)
<1>1. [r EXCEPT !.op = v] =
          Job(v, r.read, r.new, r.tries, r.passes, r.target, r.fd, r.off)
  BY DEF Job
<1>2. [r EXCEPT !.read = v] =
          Job(r.op, v, r.new, r.tries, r.passes, r.target, r.fd, r.off)
  BY DEF Job
<1>3. [r EXCEPT !.new = v] =
          Job(r.op, r.read, v, r.tries, r.passes, r.target, r.fd, r.off)
  BY DEF Job
<1>4. [r EXCEPT !.target = v] =
          Job(r.op, r.read, r.new, r.tries, r.passes, v, r.fd, r.off)
  BY DEF Job
<1>5. [r EXCEPT !.off = v] =
          Job(r.op, r.read, r.new, r.tries, r.passes, r.target, r.fd, v)
  BY DEF Job
<1> QED BY <1>1, <1>2, <1>3, <1>4, <1>5

LEMMA JobVotes ==
    ASSUME JobShape, NEW h \in Helpers, NEW v, NEW w
    PROVE  [job[h] EXCEPT !.tries = v, !.passes = w] =
             Job(job[h].op, job[h].read, job[h].new, v, w,
                 job[h].target, job[h].fd, job[h].off)
<1>1. job[h] = Job(job[h].op, job[h].read, job[h].new, job[h].tries, job[h].passes,
                   job[h].target, job[h].fd, job[h].off)
  BY DEF JobShape
<1>2. [job[h]
         EXCEPT !.tries = v] =
          Job(job[h].op, job[h].read, job[h].new, v, job[h].passes,
              job[h].target, job[h].fd, job[h].off)
  BY <1>1 DEF Job
<1>3. [Job(job[h].op, job[h].read, job[h].new, v, job[h].passes,
          job[h].target, job[h].fd, job[h].off)
         EXCEPT !.passes = w] =
          Job(job[h].op, job[h].read, job[h].new, v, w,
              job[h].target, job[h].fd, job[h].off)
  BY DEF Job
<1>4. [job[h] EXCEPT !.tries = v, !.passes = w] =
          [[job[h] EXCEPT !.tries = v] EXCEPT !.passes = w]
  OBVIOUS
<1> QED BY <1>2, <1>3, <1>4

LEMMA JobFile ==
    ASSUME JobShape, NEW h \in Helpers, NEW v, NEW w
    PROVE  [job[h] EXCEPT !.fd = v, !.off = w] =
             Job(job[h].op, job[h].read, job[h].new, job[h].tries, job[h].passes,
                 job[h].target, v, w)
<1>1. job[h] = Job(job[h].op, job[h].read, job[h].new, job[h].tries, job[h].passes,
                   job[h].target, job[h].fd, job[h].off)
  BY DEF JobShape
<1>2. [job[h]
         EXCEPT !.fd = v] =
          Job(job[h].op, job[h].read, job[h].new, job[h].tries, job[h].passes,
              job[h].target, v, job[h].off)
  BY <1>1 DEF Job
<1>3. [Job(job[h].op, job[h].read, job[h].new, job[h].tries, job[h].passes,
          job[h].target, v, job[h].off)
         EXCEPT !.off = w] =
          Job(job[h].op, job[h].read, job[h].new, job[h].tries, job[h].passes,
              job[h].target, v, w)
  BY DEF Job
<1>4. [job[h] EXCEPT !.fd = v, !.off = w] =
          [[job[h] EXCEPT !.fd = v] EXCEPT !.off = w]
  OBVIOUS
<1> QED BY <1>2, <1>3, <1>4

LEMMA JobNext ==
    ASSUME JobShape, NEW h \in Helpers, NEW v, NEW w, NEW x
    PROVE  [job[h] EXCEPT !.target = v, !.fd = w, !.off = x] =
             Job(job[h].op, job[h].read, job[h].new, job[h].tries, job[h].passes,
                 v, w, x)
<1>1. job[h] = Job(job[h].op, job[h].read, job[h].new, job[h].tries, job[h].passes,
                   job[h].target, job[h].fd, job[h].off)
  BY DEF JobShape
<1>2. [job[h]
         EXCEPT !.target = v] =
          Job(job[h].op, job[h].read, job[h].new, job[h].tries, job[h].passes,
              v, job[h].fd, job[h].off)
  BY <1>1 DEF Job
<1>3. [Job(job[h].op, job[h].read, job[h].new, job[h].tries, job[h].passes,
          v, job[h].fd, job[h].off)
         EXCEPT !.fd = w] =
          Job(job[h].op, job[h].read, job[h].new, job[h].tries, job[h].passes,
              v, w, job[h].off)
  BY DEF Job
<1>4. [Job(job[h].op, job[h].read, job[h].new, job[h].tries, job[h].passes,
          v, w, job[h].off)
         EXCEPT !.off = x] =
          Job(job[h].op, job[h].read, job[h].new, job[h].tries, job[h].passes,
              v, w, x)
  BY DEF Job
<1>5. [job[h] EXCEPT !.target = v, !.fd = w, !.off = x] =
          [[[job[h] EXCEPT !.target = v] EXCEPT !.fd = w] EXCEPT !.off = x]
  OBVIOUS
<1> QED BY <1>2, <1>3, <1>4, <1>5

\* Helper h's job becomes this one, and nobody else's changes.
JobBecomes(h, r) ==
    /\ job' = [g \in Helpers |-> job'[g]] /\ job'[h] = r
    /\ \A g \in Helpers \ {h} : job'[g] = job[g]

LEMMA JobSet ==
    ASSUME JobShape, NEW h \in Helpers, NEW op, NEW read, NEW new, NEW tries, NEW passes,
           NEW target, NEW fd, NEW off,
           JobBecomes(h, Job(op, read, new, tries, passes, target, fd, off))
    PROVE  /\ JobShape' /\ \A g \in Helpers \ {h} : job'[g] = job[g]
           /\ job'[h].op = op /\ job'[h].tries = tries /\ job'[h].passes = passes
           /\ job'[h].target = target
           /\ job'[h].read = read /\ job'[h].new = new /\ job'[h].fd = fd /\ job'[h].off = off
<1>1. /\ job'[h] = Job(op, read, new, tries, passes, target, fd, off)
      /\ job' = [i \in Helpers |-> job'[i]]
      /\ \A g \in Helpers \ {h} : job'[g] = job[g]
  BY DEF JobBecomes
<1>2. /\ job'[h].op = op /\ job'[h].read = read /\ job'[h].new = new
      /\ job'[h].tries = tries /\ job'[h].passes = passes /\ job'[h].target = target
      /\ job'[h].fd = fd /\ job'[h].off = off
  BY <1>1 DEF Job
<1> QED BY <1>1, <1>2 DEF JobShape

LEMMA FinishAlone ==
    ASSUME Shape, NEW h \in Helpers, Finish(h)
    PROVE  /\ pc' = [g \in Helpers |-> pc'[g]] /\ pc'[h] = "idle"
           /\ JobShape' /\ job'[h] = NoJob
           /\ Alone(h)
<1>1. NoJob = Job("none", <<>>, <<>>, 0, 0, "service", NoInode, 0)
  BY DEF NoJob, Job
<1>2. JobBecomes(h, NoJob)
  BY DEF Finish, Shape, JobShape, JobBecomes
<1>3. JobShape'
  BY <1>1, <1>2, JobSet DEF Shape
<1>4. pc' = [g \in Helpers |-> pc'[g]] /\ pc'[h] = "idle"
      /\ \A g \in Helpers \ {h} : pc'[g] = pc[g]
  BY DEF Finish, Goto, Shape
<1> QED BY <1>2, <1>3, <1>4 DEF Alone, JobBecomes

Attends(h, n) == pc[h] \in {"write", "rename"} /\ job[h].target = n

\* What one step of a helper may do to all that EditInv is about.
Keeps(h) ==
    /\ Shape' /\ Alone(h)
    /\ Earned(h)' /\ job'[h].target \in Names
    /\ \A n \in Names : tmp'[n] # NoInode =>
         Attends(h, n)' \/ (tmp'[n] = tmp[n] /\ ~Attends(h, n))

LEMMA FinishKeeps ==
    ASSUME EditInv, NEW h \in Helpers, Finish(h),
           tmp' = [n \in Names |-> tmp'[n]],
           \A n \in Names : tmp'[n] # NoInode => tmp'[n] = tmp[n] /\ ~Attends(h, n)
    PROVE  Keeps(h)
<1>1. NoJob.op = "none" /\ NoJob.target = "service"
  BY DEF NoJob
<1> QED BY <1>1, FinishAlone DEF EditInv, Shape, Keeps, Earned, Names

\* Steps that change nothing of the job but the fields that EditInv does not look at.
LEMMA GotoKeeps ==
    ASSUME EditInv, NEW h \in Helpers, NEW step, Goto(h, step), UNCHANGED tmp,
           pc[h] \in {"idle", "read", "verify", "edit", "choose", "open"} \/
             step \in {"write", "rename"},
           JobShape', \A g \in Helpers \ {h} : job'[g] = job[g],
           job'[h].target \in Names,
           pc[h] \in {"write", "rename"} => job'[h].target = job[h].target,
           job'[h].op = "enable" /\ step \in Installing =>
             job'[h].tries = Attempts /\ job'[h].passes >= MinPasses
    PROVE  Keeps(h)
<1>1. pc' = [g \in Helpers |-> pc'[g]] /\ pc'[h] = step
      /\ \A g \in Helpers \ {h} : pc'[g] = pc[g]
  BY DEF Goto, EditInv, Shape
<1>2. Shape' /\ Alone(h)
  BY <1>1 DEF EditInv, Shape, Alone
<1>3. Earned(h)'
  BY <1>1 DEF Earned
<1>4. ASSUME NEW n \in Names PROVE Attends(h, n)' \/ ~Attends(h, n)
  BY <1>1 DEF Attends
<1> QED BY <1>2, <1>3, <1>4 DEF Keeps

LEMMA StepKeeps == ASSUME EditInv, NEW h \in Helpers, HelperStep(h) PROVE Keeps(h)
<1> DEFINE Others == \A g \in Helpers \ {h} : job'[g] = job[g]
<1>0. JobShape /\ job[h].target \in Names /\ Earned(h)
  BY DEF EditInv, Shape
<1>1. CASE Finish(h) /\ UNCHANGED tmp /\ pc[h] \notin {"write", "rename"}
  BY <1>1, FinishKeeps DEF Attends, EditInv, Shape
<1>2. CASE Begin(h)
  <2>1. PICK op : job' = [job EXCEPT ![h].op = op]
    BY <1>2 DEF Begin
  <2>2. JobBecomes(h, [job[h] EXCEPT !.op = op])
    BY <1>0, <2>1 DEF JobShape, JobBecomes
  <2>3. JobBecomes(h, Job(op, job[h].read, job[h].new, job[h].tries,
                            job[h].passes, job[h].target, job[h].fd, job[h].off))
    BY <1>0, <2>2, JobField DEF JobShape
  <2>4. /\ JobShape' /\ Others
        /\ job'[h].op = op
        /\ job'[h].tries = job[h].tries
        /\ job'[h].passes = job[h].passes
        /\ job'[h].target = job[h].target
    BY <1>0, <2>3, JobSet
  <2> HIDE DEF Others
  <2> QED BY <1>0, <1>2, <2>4, GotoKeeps DEF Begin, fsVars, Installing, Others
<1>3. CASE ReadService(h) /\ ~Finish(h)
  <2>1. PICK read : job' = [job EXCEPT ![h].read = read]
    BY <1>3 DEF ReadService
  <2>2. JobBecomes(h, [job[h] EXCEPT !.read = read])
    BY <1>0, <2>1 DEF JobShape, JobBecomes
  <2>3. JobBecomes(h, Job(job[h].op, read, job[h].new, job[h].tries,
                            job[h].passes, job[h].target, job[h].fd, job[h].off))
    BY <1>0, <2>2, JobField DEF JobShape
  <2>4. /\ JobShape' /\ Others
        /\ job'[h].op = job[h].op
        /\ job'[h].tries = job[h].tries
        /\ job'[h].passes = job[h].passes
        /\ job'[h].target = job[h].target
    BY <1>0, <2>3, JobSet
  <2>5. \/ Goto(h, "verify")
        \/ job[h].op # "enable" /\ Goto(h, "edit")
    BY <1>3 DEF ReadService
  <2>6. pc[h] = "read" /\ UNCHANGED tmp
    BY <1>3 DEF ReadService, fsVars
  <2> QED BY <1>0, <2>4, <2>5, <2>6, GotoKeeps DEF Installing
<1>4. CASE VerifyOnce(h) /\ ~Finish(h)
  <2>1. CASE pc' = pc /\ \E tries, passes :
                 job' = [job EXCEPT ![h].tries = tries, ![h].passes = passes]
    <3>1. PICK tries, passes : job' = [job EXCEPT ![h].tries = tries, ![h].passes = passes]
      BY <2>1
    <3>2. JobBecomes(h, [job[h] EXCEPT !.tries = tries, !.passes = passes])
    BY <1>0, <3>1 DEF JobShape, JobBecomes
    <3>3. JobBecomes(h, Job(job[h].op, job[h].read, job[h].new, tries,
                            passes, job[h].target, job[h].fd, job[h].off))
    BY <1>0, <3>2, JobVotes
    <3>4. /\ JobShape' /\ Others
        /\ job'[h].op = job[h].op
        /\ job'[h].tries = tries
        /\ job'[h].passes = passes
        /\ job'[h].target = job[h].target
    BY <1>0, <3>3, JobSet
    <3>5. pc[h] = "verify" /\ UNCHANGED <<pc, tmp>>
      BY <1>4, <2>1 DEF VerifyOnce, fsVars
    <3> QED BY <1>0, <3>4, <3>5
            DEF Keeps, Alone, EditInv, Shape, Earned, Attends, Installing
  <2>2. CASE Goto(h, "edit") /\ UNCHANGED job /\ job[h].tries = Attempts
             /\ Passed(job[h].passes)
    <3>1. pc[h] = "verify" /\ UNCHANGED tmp
      BY <1>4 DEF VerifyOnce, fsVars
    <3> QED BY <1>0, <2>2, <3>1, GotoKeeps DEF JobShape, Passed
  <2> QED BY <1>4, <2>1, <2>2 DEF VerifyOnce
<1>5. CASE (Enable(h) \/ Disable(h)) /\ ~Finish(h)
  <2>1. PICK new : job' = [job EXCEPT ![h].new = new]
    BY <1>5 DEF Enable, Disable, Install
  <2>2. JobBecomes(h, [job[h] EXCEPT !.new = new])
    BY <1>0, <2>1 DEF JobShape, JobBecomes
  <2>3. JobBecomes(h, Job(job[h].op, job[h].read, new, job[h].tries,
                            job[h].passes, job[h].target, job[h].fd, job[h].off))
    BY <1>0, <2>2, JobField DEF JobShape
  <2>4. /\ JobShape' /\ Others
        /\ job'[h].op = job[h].op
        /\ job'[h].tries = job[h].tries
        /\ job'[h].passes = job[h].passes
        /\ job'[h].target = job[h].target
    BY <1>0, <2>3, JobSet
  <2>5. pc[h] = "edit" /\ UNCHANGED tmp /\ (Goto(h, "choose") \/ Goto(h, "open"))
    BY <1>5 DEF Enable, Disable, Install, fsVars
  <2> QED BY <1>0, <2>4, <2>5, GotoKeeps DEF Earned, Installing
<1>6. CASE ChooseTarget(h)
  <2>1. PICK target \in Names : job' = [job EXCEPT ![h].target = target]
    BY <1>6 DEF ChooseTarget, Names
  <2>2. JobBecomes(h, [job[h] EXCEPT !.target = target])
    BY <1>0, <2>1 DEF JobShape, JobBecomes
  <2>3. JobBecomes(h, Job(job[h].op, job[h].read, job[h].new, job[h].tries,
                            job[h].passes, target, job[h].fd, job[h].off))
    BY <1>0, <2>2, JobField DEF JobShape
  <2>4. /\ JobShape' /\ Others
        /\ job'[h].op = job[h].op
        /\ job'[h].tries = job[h].tries
        /\ job'[h].passes = job[h].passes
        /\ job'[h].target = target
    BY <1>0, <2>3, JobSet
  <2>5. pc[h] = "choose" /\ UNCHANGED tmp /\ Goto(h, "open")
    BY <1>6 DEF ChooseTarget, fsVars
  <2> QED BY <1>0, <2>1, <2>4, <2>5, GotoKeeps DEF Earned, Installing
<1>7. CASE OpenTmp(h) /\ ~Finish(h)
  <2>1. PICK inode, off : /\ job' = [job EXCEPT ![h].fd = inode, ![h].off = off]
                          /\ tmp' = [tmp EXCEPT ![job[h].target] = inode]
                          /\ pc[h] = "open" /\ pc' = [pc EXCEPT ![h] = "write"]
    BY <1>7 DEF OpenTmp, Goto
  <2>2. JobBecomes(h, [job[h] EXCEPT !.fd = inode, !.off = off])
    BY <1>0, <2>1 DEF JobShape, JobBecomes
  <2>3. [job[h] EXCEPT !.fd = inode, !.off = off] =
          Job(job[h].op, job[h].read, job[h].new, job[h].tries, job[h].passes,
              job[h].target, inode, off)
    BY <1>0, JobFile
  <2>4. JobBecomes(h, Job(job[h].op, job[h].read, job[h].new, job[h].tries,
                          job[h].passes, job[h].target, inode, off))
    BY <2>2, <2>3
  <2>5. /\ JobShape' /\ Others
        /\ job'[h].op = job[h].op
        /\ job'[h].tries = job[h].tries
        /\ job'[h].passes = job[h].passes
        /\ job'[h].target = job[h].target
    BY <1>0, <2>4, JobSet
  <2> QED BY <1>0, <2>1, <2>5 DEF Keeps, Alone, EditInv, Shape, Earned, Attends, Installing
<1>8. CASE WriteSome(h)
  <2>1. PICK off : job' = [job EXCEPT ![h].off = off]
    BY <1>8 DEF WriteSome
  <2>2. JobBecomes(h, [job[h] EXCEPT !.off = off])
    BY <1>0, <2>1 DEF JobShape, JobBecomes
  <2>3. JobBecomes(h, Job(job[h].op, job[h].read, job[h].new, job[h].tries,
                            job[h].passes, job[h].target, job[h].fd, off))
    BY <1>0, <2>2, JobField DEF JobShape
  <2>4. /\ JobShape' /\ Others
        /\ job'[h].op = job[h].op
        /\ job'[h].tries = job[h].tries
        /\ job'[h].passes = job[h].passes
        /\ job'[h].target = job[h].target
    BY <1>0, <2>3, JobSet
  <2>5. UNCHANGED <<pc, tmp>>
    BY <1>8 DEF WriteSome
  <2> QED BY <1>0, <2>4, <2>5 DEF Keeps, Alone, EditInv, Shape, Earned, Attends, Installing
<1>9. CASE Fsync(h)
  BY <1>0, <1>9, GotoKeeps DEF Fsync, Installing, Earned, JobShape
<1>10. CASE WriteFails(h)
  BY <1>0, <1>10, FinishKeeps DEF WriteFails, CleanUp, EditInv, Shape, Attends
<1>11. CASE RenameTmp(h) /\ ~Finish(h)
  <2>1. /\ job' = [job EXCEPT ![h].target = "service", ![h].fd = NoInode, ![h].off = 0]
        /\ tmp' = [tmp EXCEPT ![job[h].target] = NoInode]
        /\ pc[h] = "rename" /\ pc' = [pc EXCEPT ![h] = "open"]
    BY <1>11 DEF RenameTmp, Goto
  <2>2. JobBecomes(h, [job[h] EXCEPT !.target = "service", !.fd = NoInode, !.off = 0])
    BY <1>0, <2>1 DEF JobShape, JobBecomes
  <2>3. \A v, w, x : [job[h] EXCEPT !.target = v, !.fd = w, !.off = x] =
                       Job(job[h].op, job[h].read, job[h].new, job[h].tries, job[h].passes,
                           v, w, x)
    BY <1>0, JobNext
  <2>4. JobBecomes(h, Job(job[h].op, job[h].read, job[h].new, job[h].tries,
                          job[h].passes, "service", NoInode, 0))
    BY <2>2, <2>3
  <2>5. /\ JobShape' /\ Others
        /\ job'[h].op = job[h].op
        /\ job'[h].tries = job[h].tries
        /\ job'[h].passes = job[h].passes
        /\ job'[h].target = "service"
    BY <1>0, <2>4, JobSet
  <2> QED BY <1>0, <2>1, <2>5
          DEF Keeps, Alone, EditInv, Shape, Earned, Attends, Installing, Names
<1>12. CASE RenameTmp(h) /\ Finish(h)
  BY <1>0, <1>12, FinishKeeps DEF RenameTmp, EditInv, Shape, Attends
<1>13. HelperStep(h) /\ Finish(h)
          => WriteFails(h) \/ RenameTmp(h) \/ (UNCHANGED tmp /\ pc[h] \notin {"write", "rename"})
  BY <1>7 DEF HelperStep, Begin, ReadService, VerifyOnce, Enable, Disable, Install, ChooseTarget,
     OpenTmp, WriteSome, Fsync, fsVars, Finish, Goto, EditInv, Shape
<1> QED
  BY <1>1, <1>2, <1>3, <1>4, <1>5, <1>6, <1>7, <1>8, <1>9, <1>10, <1>11, <1>12, <1>13
     DEF HelperStep

LEMMA InitEdit == Init => EditInv
<1> SUFFICES ASSUME Init PROVE EditInv
  OBVIOUS
<1>1. NoJob = Job("none", <<>>, <<>>, 0, 0, "service", NoInode, 0)
  BY DEF NoJob, Job
<1>2. NoJob.op = "none" /\ NoJob.target = "service"
  BY DEF NoJob
<1>3. /\ pc = [h \in Helpers |-> "idle"] /\ tmp = [n \in Names |-> NoInode]
      /\ job = [h \in Helpers |-> NoJob]
  BY DEF Init
<1>4. NoJob = Job(NoJob.op, NoJob.read, NoJob.new, NoJob.tries, NoJob.passes,
                  NoJob.target, NoJob.fd, NoJob.off)
  BY DEF NoJob, Job
<1>5. Shape
  BY <1>3, <1>4 DEF Shape, JobShape
<1> QED BY <1>2, <1>3, <1>5 DEF EditInv, Earned, Attended, Installing, Names

LEMMA EditStep == EditInv /\ [Next]_vars => EditInv'
<1> SUFFICES ASSUME EditInv, [Next]_vars PROVE EditInv'
  OBVIOUS
<1>1. ASSUME NEW h \in Helpers, HelperStep(h) PROVE EditInv'
  <2>1. Keeps(h)
    BY <1>1, StepKeeps
  <2>2. killed' = killed
    BY <1>1 DEF HelperStep, Begin, ReadService, VerifyOnce, Enable, Disable, Install,
       ChooseTarget, OpenTmp, WriteSome, Fsync, WriteFails, RenameTmp
  <2>3. \A g \in Helpers : Earned(g)' /\ job'[g].target \in Names
    BY <2>1 DEF Keeps, Alone, EditInv, Earned
  <2>4. ASSUME ~killed, NEW n \in Names PROVE Attended(n)'
    <3>1. CASE Attends(h, n)'
      BY <3>1 DEF Attended, Attends
    <3>2. CASE tmp'[n] = tmp[n] /\ ~Attends(h, n) /\ tmp'[n] # NoInode
      <4>1. PICK g \in Helpers : Attends(g, n)
        BY <2>4, <3>2 DEF EditInv, Attended, Attends
      <4>2. pc'[g] = pc[g] /\ job'[g] = job[g]
        BY <2>1, <3>2, <4>1 DEF Keeps, Alone
      <4> QED BY <4>1, <4>2 DEF Attended, Attends
    <3> QED BY <2>1, <3>1, <3>2 DEF Keeps, Attended
  <2> QED BY <2>1, <2>2, <2>3, <2>4 DEF EditInv, Keeps
<1>2. ASSUME NEW h \in Helpers, KillHelper(h) PROVE EditInv'
  <2>1. Finish(h) /\ killed' /\ tmp' = tmp
    BY <1>2 DEF KillHelper, fsVars
  <2>2. NoJob.op = "none" /\ NoJob.target = "service"
    BY DEF NoJob
  <2>3. Shape' /\ job'[h] = NoJob /\ Alone(h)
    BY <2>1, FinishAlone DEF EditInv, Shape
  <2> QED BY <2>1, <2>2, <2>3 DEF EditInv, Alone, Earned, Names
<1>3. CASE AdminEdit \/ UNCHANGED vars
  BY <1>3 DEF AdminEdit, vars, fsVars, EditInv, Shape, JobShape, Earned, Attended
<1>4. CASE PowerLoss
  <2>1. /\ pc' = [h \in Helpers |-> "idle"] /\ job' = [h \in Helpers |-> NoJob]
        /\ tmp' = tmp /\ killed'
    BY <1>4 DEF PowerLoss
  <2>2. /\ NoJob.op = "none" /\ NoJob.target = "service"
        /\ NoJob = Job(NoJob.op, NoJob.read, NoJob.new, NoJob.tries, NoJob.passes,
                       NoJob.target, NoJob.fd, NoJob.off)
    BY DEF NoJob, Job
  <2> QED BY <2>1, <2>2 DEF EditInv, Shape, JobShape, Earned, Names
<1> QED BY <1>1, <1>2, <1>3, <1>4 DEF Next

THEOREM EditInvariant == Spec => []EditInv
  BY InitEdit, EditStep, PTL DEF Spec

\* A command that was not killed leaves no temporary file behind (writeFileAtomic's
\* unlinks), with any number of helpers on the same two names.
THEOREM NoLitterStays == Spec => []NoLitter
<1>1. EditInv => NoLitter
  BY DEF EditInv, Attended, NoLitter
<1> QED BY <1>1, EditInvariant, PTL

\* Whatever other helpers, the administrator and the power do, the line is installed only
\* by a command whose own attempts met the threshold (runPamEnable).
THEOREM EnableAlwaysEarned == Spec => EnableIsEarned
<1> DEFINE Deserved == \A h \in Helpers :
             job[h].op = "enable" /\ Installs(h)
               => job[h].tries = Attempts /\ job[h].passes >= MinPasses
<1>1. ASSUME EditInv, [Next]_vars PROVE Deserved \/ UNCHANGED vars
  <2> SUFFICES ASSUME Next, NEW h \in Helpers, job[h].op = "enable", Installs(h)
               PROVE  job[h].tries = Attempts /\ job[h].passes >= MinPasses
    BY <1>1
  <2>1. CASE \E g \in Helpers : RenameTmp(g)
    <3>1. PICK g \in Helpers : RenameTmp(g)
      BY <2>1
    <3>2. Alone(g)
      BY <1>1, <3>1, StepKeeps DEF HelperStep, Keeps
    <3>3. g = h
      BY <3>2 DEF Alone, Installs
    <3>4. pc[h] = "rename"
      BY <3>1, <3>3 DEF RenameTmp
    <3> QED BY <1>1, <3>4 DEF EditInv, Earned, Installing
  <2>2. CASE AdminEdit
    BY <2>2 DEF AdminEdit, Installs
  <2>3. CASE ~(\E g \in Helpers : RenameTmp(g)) /\ ~AdminEdit
    <3>1. file' = file
      BY <2>3 DEF Next, HelperStep, KillHelper, PowerLoss, Begin, ReadService, VerifyOnce,
         Enable, Disable, Install, ChooseTarget, OpenTmp, WriteSome, Fsync, WriteFails, fsVars
    <3> QED BY <3>1 DEF Installs
  <2> QED BY <2>1, <2>2, <2>3
<1> QED BY <1>1, EditInvariant, PTL DEF Spec, EnableIsEarned
-----------------------------------------------------------------------------
(* What a helper has in hand after its step                                  *)

Hand(h, op, read, new, target, fd, off) ==
    /\ JobShape'
    /\ job'[h].op = op /\ job'[h].read = read /\ job'[h].new = new
    /\ job'[h].target = target /\ job'[h].fd = fd /\ job'[h].off = off
    /\ \A g \in Helpers \ {h} : job'[g] = job[g]

Votes(h, tries, passes) == job'[h].tries = tries /\ job'[h].passes = passes

LEMMA HandSet ==
    ASSUME JobShape, NEW h \in Helpers, NEW r, JobBecomes(h, r),
           NEW op, NEW read, NEW new, NEW tries, NEW passes, NEW target, NEW fd, NEW off,
           r = Job(op, read, new, tries, passes, target, fd, off)
    PROVE  Hand(h, op, read, new, target, fd, off) /\ Votes(h, tries, passes)
<1>1. JobBecomes(h, Job(op, read, new, tries, passes, target, fd, off))
  OBVIOUS
<1> QED BY <1>1, JobSet DEF Hand, Votes

LEMMA HandOne ==
    ASSUME JobShape, NEW h \in Helpers, NEW v
    PROVE  /\ job' = [job EXCEPT ![h].op = v] =>
                Hand(h, v, job[h].read, job[h].new, job[h].target, job[h].fd, job[h].off)
                /\ Votes(h, job[h].tries, job[h].passes)
           /\ job' = [job EXCEPT ![h].read = v] =>
                Hand(h, job[h].op, v, job[h].new, job[h].target, job[h].fd, job[h].off)
                /\ Votes(h, job[h].tries, job[h].passes)
           /\ job' = [job EXCEPT ![h].new = v] =>
                Hand(h, job[h].op, job[h].read, v, job[h].target, job[h].fd, job[h].off)
                /\ Votes(h, job[h].tries, job[h].passes)
           /\ job' = [job EXCEPT ![h].target = v] =>
                Hand(h, job[h].op, job[h].read, job[h].new, v, job[h].fd, job[h].off)
                /\ Votes(h, job[h].tries, job[h].passes)
           /\ job' = [job EXCEPT ![h].off = v] =>
                Hand(h, job[h].op, job[h].read, job[h].new, job[h].target, job[h].fd, v)
                /\ Votes(h, job[h].tries, job[h].passes)
<1>1. job[h] = Job(job[h].op, job[h].read, job[h].new, job[h].tries, job[h].passes,
                   job[h].target, job[h].fd, job[h].off)
  BY DEF JobShape
<1>2. job' = [job EXCEPT ![h].op = v] =>
        Hand(h, v, job[h].read, job[h].new, job[h].target, job[h].fd, job[h].off)
        /\ Votes(h, job[h].tries, job[h].passes)
  <2>1. [job[h] EXCEPT !.op = v] = Job(v, job[h].read, job[h].new, job[h].tries,
            job[h].passes, job[h].target, job[h].fd, job[h].off)
    BY <1>1, JobField
  <2>2. job' = [job EXCEPT ![h].op = v] => JobBecomes(h, [job[h] EXCEPT !.op = v])
    BY DEF JobShape, JobBecomes
  <2> QED BY <2>1, <2>2, HandSet
<1>3. job' = [job EXCEPT ![h].read = v] =>
        Hand(h, job[h].op, v, job[h].new, job[h].target, job[h].fd, job[h].off)
        /\ Votes(h, job[h].tries, job[h].passes)
  <2>1. [job[h] EXCEPT !.read = v] = Job(job[h].op, v, job[h].new, job[h].tries,
            job[h].passes, job[h].target, job[h].fd, job[h].off)
    BY <1>1, JobField
  <2>2. job' = [job EXCEPT ![h].read = v] => JobBecomes(h, [job[h] EXCEPT !.read = v])
    BY DEF JobShape, JobBecomes
  <2> QED BY <2>1, <2>2, HandSet
<1>4. job' = [job EXCEPT ![h].new = v] =>
        Hand(h, job[h].op, job[h].read, v, job[h].target, job[h].fd, job[h].off)
        /\ Votes(h, job[h].tries, job[h].passes)
  <2>1. [job[h] EXCEPT !.new = v] = Job(job[h].op, job[h].read, v, job[h].tries,
            job[h].passes, job[h].target, job[h].fd, job[h].off)
    BY <1>1, JobField
  <2>2. job' = [job EXCEPT ![h].new = v] => JobBecomes(h, [job[h] EXCEPT !.new = v])
    BY DEF JobShape, JobBecomes
  <2> QED BY <2>1, <2>2, HandSet
<1>5. job' = [job EXCEPT ![h].target = v] =>
        Hand(h, job[h].op, job[h].read, job[h].new, v, job[h].fd, job[h].off)
        /\ Votes(h, job[h].tries, job[h].passes)
  <2>1. [job[h] EXCEPT !.target = v] = Job(job[h].op, job[h].read, job[h].new, job[h].tries,
            job[h].passes, v, job[h].fd, job[h].off)
    BY <1>1, JobField
  <2>2. job' = [job EXCEPT ![h].target = v] => JobBecomes(h, [job[h] EXCEPT !.target = v])
    BY DEF JobShape, JobBecomes
  <2> QED BY <2>1, <2>2, HandSet
<1>6. job' = [job EXCEPT ![h].off = v] =>
        Hand(h, job[h].op, job[h].read, job[h].new, job[h].target, job[h].fd, v)
        /\ Votes(h, job[h].tries, job[h].passes)
  <2>1. [job[h] EXCEPT !.off = v] = Job(job[h].op, job[h].read, job[h].new, job[h].tries,
            job[h].passes, job[h].target, job[h].fd, v)
    BY <1>1, JobField
  <2>2. job' = [job EXCEPT ![h].off = v] => JobBecomes(h, [job[h] EXCEPT !.off = v])
    BY DEF JobShape, JobBecomes
  <2> QED BY <2>1, <2>2, HandSet
<1> QED BY <1>2, <1>3, <1>4, <1>5, <1>6

LEMMA HandMore ==
    ASSUME JobShape, NEW h \in Helpers, NEW v, NEW w
    PROVE  /\ job' = [job EXCEPT ![h].tries = v, ![h].passes = w] =>
                Hand(h, job[h].op, job[h].read, job[h].new, job[h].target,
                     job[h].fd, job[h].off)
                /\ Votes(h, v, w)
           /\ job' = [job EXCEPT ![h].fd = v, ![h].off = w] =>
                Hand(h, job[h].op, job[h].read, job[h].new, job[h].target, v, w)
                /\ Votes(h, job[h].tries, job[h].passes)
           /\ job' = [job EXCEPT ![h].target = "service", ![h].fd = v, ![h].off = w] =>
                Hand(h, job[h].op, job[h].read, job[h].new, "service", v, w)
                /\ Votes(h, job[h].tries, job[h].passes)
<1>1. job' = [job EXCEPT ![h].tries = v, ![h].passes = w] =>
        Hand(h, job[h].op, job[h].read, job[h].new, job[h].target, job[h].fd, job[h].off)
        /\ Votes(h, v, w)
  <2>1. [job[h] EXCEPT !.tries = v, !.passes = w] =
            Job(job[h].op, job[h].read, job[h].new, v, w,
                job[h].target, job[h].fd, job[h].off)
    BY JobVotes
  <2>2. job' = [job EXCEPT ![h].tries = v, ![h].passes = w] =>
            JobBecomes(h, [job[h] EXCEPT !.tries = v, !.passes = w])
    BY DEF JobShape, JobBecomes
  <2> QED BY <2>1, <2>2, HandSet
<1>2. job' = [job EXCEPT ![h].fd = v, ![h].off = w] =>
        Hand(h, job[h].op, job[h].read, job[h].new, job[h].target, v, w)
        /\ Votes(h, job[h].tries, job[h].passes)
  <2>1. [job[h] EXCEPT !.fd = v, !.off = w] =
            Job(job[h].op, job[h].read, job[h].new, job[h].tries, job[h].passes,
                job[h].target, v, w)
    BY JobFile
  <2>2. job' = [job EXCEPT ![h].fd = v, ![h].off = w] =>
            JobBecomes(h, [job[h] EXCEPT !.fd = v, !.off = w])
    BY DEF JobShape, JobBecomes
  <2> QED BY <2>1, <2>2, HandSet
<1>3. ASSUME job' = [job EXCEPT ![h].target = "service", ![h].fd = v, ![h].off = w]
      PROVE  Hand(h, job[h].op, job[h].read, job[h].new, "service", v, w)
             /\ Votes(h, job[h].tries, job[h].passes)
  <2>1. JobBecomes(h, [job[h] EXCEPT !.target = "service", !.fd = v, !.off = w])
    BY <1>3 DEF JobShape, JobBecomes
  <2>2. \A x, y, z : [job[h] EXCEPT !.target = x, !.fd = y, !.off = z] =
            Job(job[h].op, job[h].read, job[h].new, job[h].tries, job[h].passes, x, y, z)
    BY JobNext
  <2>3. JobBecomes(h, Job(job[h].op, job[h].read, job[h].new, job[h].tries, job[h].passes,
                          "service", v, w))
    BY <2>1, <2>2
  <2> QED BY <2>3, HandSet
<1> QED BY <1>1, <1>2, <1>3

-----------------------------------------------------------------------------
(* What disabling leaves                                                     *)

\* A set of places that holds 0, and with each place the next one up to n, holds them all.
LEMMA AllPlaces ==
    ASSUME NEW n \in Nat, NEW S, 0 \in S, \A i \in 0..n : i \in S /\ i # n => i + 1 \in S
    PROVE  0..n \subseteq S
<1> SUFFICES ASSUME (0..n) \ S # {} PROVE FALSE
  OBVIOUS
<1> DEFINE missing == (0..n) \ S
           R == {p \in Nat \X Nat : p[1] < p[2]}
<1>1. R = OpToRel(<, Nat)
  BY DEF OpToRel
<1>2. IsWellFoundedOn(R, Nat)
  BY <1>1, NatLessThanWellFounded
<1>3. missing \subseteq Nat
  OBVIOUS
<1> HIDE DEF R
<1>4. PICK m \in missing : \A k \in missing : ~(<<k, m>> \in R)
  BY <1>2, <1>3, WFMin
<1>5. m \in Nat \ {0} /\ m <= n /\ m - 1 \in 0..n /\ m - 1 # n
  OBVIOUS
<1>6. <<m - 1, m>> \in R
  <2>1. <<m - 1, m>> \in Nat \X Nat /\ <<m - 1, m>>[1] = m - 1 /\ <<m - 1, m>>[2] = m
    BY <1>5
  <2> QED BY <1>5, <2>1 DEF R
<1>7. m - 1 \in S
  BY <1>4, <1>5, <1>6
<1> QED BY <1>5, <1>7

\* What is kept of the first i lines, and the loop that gathers it.
Kept(content, i) == {content[j] : j \in {k \in 1..i : NotFacial(content[k])}}

Gathers(F, content, n) ==
    F = [i \in 0..n |-> IF i = 0 THEN <<>>
                        ELSE IF NotFacial(content[i]) THEN Append(F[i - 1], content[i])
                        ELSE F[i - 1]]

LEMMA Gatherer ==
    ASSUME NEW S, NEW content \in Seq(S)
    PROVE  \E F : Gathers(F, content, Len(content))
<1> DEFINE n == Len(content)
           Found == {m \in 0..n : \E F : Gathers(F, content, m)}
<1>0. n \in Nat
  OBVIOUS
<1>1. 0 \in Found
  <2> DEFINE F == [i \in 0..0 |-> <<>>]
  <2>1. Gathers(F, content, 0)
    BY DEF Gathers
  <2> QED BY <1>0, <2>1
<1>2. ASSUME NEW m \in 0..n, m \in Found, m # n PROVE m + 1 \in Found
  <2>1. PICK F : Gathers(F, content, m)
    BY <1>2
  <2> DEFINE last == IF NotFacial(content[m + 1]) THEN Append(F[m], content[m + 1]) ELSE F[m]
             G == [i \in 0..(m + 1) |-> IF i = m + 1 THEN last ELSE F[i]]
             Next1(H, i) == IF i = 0 THEN <<>>
                            ELSE IF NotFacial(content[i]) THEN Append(H[i - 1], content[i])
                            ELSE H[i - 1]
  <2>2. G = [i \in 0..(m + 1) |-> Next1(G, i)]
    <3>1. \A i \in 0..m : F[i] = Next1(F, i)
      BY <2>1 DEF Gathers
    <3>2. m \in Nat /\ \A i \in 0..m : G[i] = F[i]
      BY <1>0
    <3>3. G[m + 1] = last
      BY <3>2
    <3>4. \A i \in 0..m : i # 0 => i - 1 \in 0..m
      BY <3>2
    <3> HIDE DEF G
    <3>5. \A i \in 0..m : Next1(G, i) = Next1(F, i)
      BY <3>2, <3>4
    <3>6. Next1(G, m + 1) = last
      BY <3>2
    <3>7. \A i \in 0..(m + 1) : G[i] = Next1(G, i)
      <4>1. \A i \in 0..(m + 1) : i \in 0..m \/ i = m + 1
        BY <3>2
      <4> HIDE DEF Next1, last
      <4> QED BY <3>1, <3>2, <3>3, <3>5, <3>6, <4>1
    <3> HIDE DEF Next1
    <3> QED BY <3>7 DEF G
  <2>3. Gathers(G, content, m + 1)
    BY <2>2 DEF Gathers
  <2> HIDE DEF G
  <2> QED BY <1>0, <1>2, <2>3
<1> HIDE DEF Found
<1>3. 0..n \subseteq Found
  BY <1>0, <1>1, <1>2, AllPlaces
<1> QED BY <1>0, <1>3 DEF Found

LEMMA GatheredIsKept ==
    ASSUME NEW S, NEW content \in Seq(S), NEW F, Gathers(F, content, Len(content)),
           NEW i \in 0..Len(content)
    PROVE  /\ F[i] \in Seq(Kept(content, i))
           /\ \A line \in Kept(content, i) : \E k \in DOMAIN F[i] : F[i][k] = line
<1> DEFINE n == Len(content)
           Right(m) == /\ F[m] \in Seq(Kept(content, m))
                       /\ \A line \in Kept(content, m) : \E k \in DOMAIN F[m] : F[m][k] = line
           Good == {m \in 0..n : Right(m)}
<1>0. n \in Nat
  OBVIOUS
<1>1. 0 \in Good
  <2>1. F[0] = <<>> /\ Kept(content, 0) = {}
    BY <1>0 DEF Gathers, Kept
  <2>2. <<>> \in Seq(Kept(content, 0))
    OBVIOUS
  <2>3. Right(0)
    BY <2>1, <2>2
  <2> QED BY <1>0, <2>3
<1>2. ASSUME NEW m \in 0..n, m \in Good, m # n PROVE m + 1 \in Good
  <2> DEFINE old == F[m]
             new == F[m + 1]
             line == content[m + 1]
  <2>0. m \in Nat /\ m + 1 \in 0..n /\ m + 1 # 0 /\ (m + 1) - 1 = m
    BY <1>0, <1>2
  <2>1. new = IF NotFacial(line) THEN Append(old, line) ELSE old
    <3>1. F[m + 1] = IF NotFacial(content[m + 1]) THEN Append(F[(m + 1) - 1], content[m + 1])
                     ELSE F[(m + 1) - 1]
      BY <2>0 DEF Gathers
    <3> QED BY <2>0, <3>1
  <2>2. /\ NotFacial(line) => Kept(content, m + 1) = Kept(content, m) \cup {line}
        /\ ~NotFacial(line) => Kept(content, m + 1) = Kept(content, m)
    <3>1. \A k : k \in 1..(m + 1) <=> k \in 1..m \/ k = m + 1
      BY <2>0
    <3> QED BY <3>1 DEF Kept
  <2>3. /\ old \in Seq(Kept(content, m))
        /\ \A x \in Kept(content, m) : \E k \in DOMAIN old : old[k] = x
    BY <1>2
  <2> DEFINE before == Kept(content, m)
             after  == Kept(content, m + 1)
             Whole(left, rest) == /\ left \in Seq(rest)
                                  /\ \A x \in rest : \E k \in DOMAIN left : left[k] = x
  <2>4. Whole(old, before)
    BY <2>3
  <2>5. /\ NotFacial(line) => new = Append(old, line) /\ after = before \cup {line}
        /\ ~NotFacial(line) => new = old /\ after = before
    BY <2>1, <2>2
  <2> HIDE DEF old, new, line, before, after
  <2>6. Whole(new, after)
    <3>1. CASE ~NotFacial(line)
      BY <2>4, <2>5, <3>1
    <3>2. CASE NotFacial(line)
      <4>1. old \in Seq(after)
        BY <2>4, <2>5, <3>2
      <4>2. new \in Seq(after) /\ Len(new) = Len(old) + 1 /\ new[Len(old) + 1] = line
            /\ \A k \in 1..Len(old) : new[k] = old[k]
        BY <2>5, <3>2, <4>1
      <4>3. ASSUME NEW x \in after PROVE \E k \in DOMAIN new : new[k] = x
        <5>1. DOMAIN new = 1..Len(new) /\ DOMAIN old = 1..Len(old) /\ Len(old) \in Nat
          BY <4>1, <4>2
        <5>2. CASE x = line
          BY <4>2, <5>1, <5>2
        <5>3. CASE x \in before
          <6>1. PICK k \in DOMAIN old : old[k] = x
            BY <2>4, <5>3
          <6> QED BY <4>2, <5>1, <6>1
        <5> QED BY <2>5, <3>2, <5>2, <5>3
      <4> QED BY <4>2, <4>3
    <3> QED BY <3>1, <3>2
  <2>7. Right(m + 1)
    BY <2>6 DEF new, after
  <2> QED BY <2>0, <2>7
<1> HIDE DEF Good
<1>3. 0..n \subseteq Good
  BY <1>0, <1>1, <1>2, AllPlaces
<1> QED BY <1>3 DEF Good

\* Disabling leaves lines that are to be kept, and all of them.
LEMMA DisableSelects ==
    ASSUME NEW S, NEW content \in Seq(S)
    PROVE  LET left == disableInContent(content)
               kept == {content[i] : i \in {j \in DOMAIN content : NotFacial(content[j])}}
           IN  left \in Seq(kept) /\ \A line \in kept : \E k \in DOMAIN left : left[k] = line
<1> DEFINE n == Len(content)
           F == CHOOSE G : Gathers(G, content, n)
           kept == {content[i] : i \in {j \in DOMAIN content : NotFacial(content[j])}}
<1>1. Gathers(F, content, n)
  BY Gatherer
<1>2. disableInContent(content) = F[n]
  BY DEF disableInContent, Gathers
<1> HIDE DEF F
<1>3. n \in 0..n /\ kept = Kept(content, n)
  BY DEF Kept
<1>4. /\ F[n] \in Seq(Kept(content, n))
      /\ \A line \in Kept(content, n) : \E k \in DOMAIN F[n] : F[n][k] = line
  BY <1>1, <1>3, GatheredIsKept
<1> QED BY <1>2, <1>3, <1>4

-----------------------------------------------------------------------------
(* Typing                                                                    *)

FileLines == Lines \cup {"nul"}

\* A file holds lines and holes.
FilesTyped ==
    /\ file \in [Names -> Inodes \cup {NoInode}]
    /\ tmp \in [Names -> Inodes \cup {NoInode}]
    /\ disk \in [Inodes -> Seq(FileLines)] /\ synced \subseteq Inodes

\* What a helper may have in hand at its step.
HandTyped(h) ==
    /\ job[h].read \in Seq(FileLines) /\ job[h].new \in Seq(FileLines)
    /\ job[h].tries \in 0..Attempts /\ job[h].passes \in 0..job[h].tries
    /\ job[h].target \in Names
    /\ job[h].fd \in Inodes \cup {NoInode} /\ job[h].off \in Nat
    /\ pc[h] \in {"write", "rename"} <=> job[h].fd # NoInode

CountsTyped ==
    /\ ops \in 0..MaxOps /\ edits \in 0..MaxEdits /\ losses \in 0..MaxLosses
    /\ killed \in BOOLEAN

HandsTyped ==
    /\ pc \in [Helpers -> Steps] /\ JobShape
    /\ \A h \in Helpers : HandTyped(h)

\* Somebody's descriptor is one of a name, or none: a helper that leaves others with the
\* descriptor of a file without a name has given up its own.
Fresh ==
    \/ Helpers = {} /\ \A n \in Names : tmp[n] = NoInode
    \/ \E g \in Helpers : job[g].fd = NoInode \/ \E n \in Names : job[g].fd = tmp[n]

TypeInv == FilesTyped /\ HandsTyped /\ CountsTyped /\ Fresh

\* There are two inodes for each name, and one for each helper.
LEMMA InodesCount == Inodes = 1..(4 + Cardinality(Helpers)) /\ Cardinality(Helpers) \in Nat
<1>1. Cardinality(Names) = 2
  <2>1. IsFiniteSet({"service"}) /\ Cardinality({"service"}) = 1
    BY FS_Singleton
  <2>2. Names = {"service"} \cup {"backup"} /\ "backup" \notin {"service"}
    BY DEF Names
  <2> QED BY <2>1, <2>2, FS_AddElement
<1>2. Cardinality(Helpers) \in Nat
  BY HelpersAssumption, FS_CardinalityType
<1> QED BY <1>1, <1>2 DEF Inodes

LEMMA FourAtMost ==
    ASSUME NEW a, NEW b, NEW c, NEW d
    PROVE  IsFiniteSet({a, b, c, d}) /\ Cardinality({a, b, c, d}) <= 4
<1>1. IsFiniteSet({a}) /\ Cardinality({a}) = 1
  BY FS_Singleton
<1>2. IsFiniteSet({a} \cup {b}) /\ Cardinality({a} \cup {b}) \in 1..2
  BY <1>1, FS_AddElement
<1>3. IsFiniteSet({a} \cup {b} \cup {c}) /\ Cardinality({a} \cup {b} \cup {c}) \in 1..3
  BY <1>2, FS_AddElement
<1>4. /\ IsFiniteSet({a} \cup {b} \cup {c} \cup {d})
      /\ Cardinality({a} \cup {b} \cup {c} \cup {d}) \in 1..4
  BY <1>3, FS_AddElement
<1>5. {a, b, c, d} = {a} \cup {b} \cup {c} \cup {d}
  OBVIOUS
<1> QED BY <1>4, <1>5

\* So there is always one for a new file.
LEMMA InodeLeft ==
    ASSUME Fresh
    PROVE  /\ FreeInode \in Inodes
           /\ \A n \in Names : FreeInode # file[n] /\ FreeInode # tmp[n]
<1> DEFINE Left(i) == /\ \A n \in Names : i # file[n] /\ i # tmp[n]
                      /\ \A h \in Helpers : i # job[h].fd
           card == Cardinality(Helpers)
<1>0. Inodes = 1..(4 + card) /\ card \in Nat
  BY InodesCount
<1>1. CASE Helpers = {} /\ \A n \in Names : tmp[n] = NoInode
  <2>1. 1 \in Inodes /\ 2 \in Inodes /\ 3 \in Inodes
    BY <1>0
  <2>2. \E i \in Inodes : i # file["service"] /\ i # file["backup"] /\ i # NoInode
    BY <1>0, <2>1, NoneAssumption
  <2>3. \E i \in Inodes : Left(i)
    BY <1>1, <2>2 DEF Names
  <2> QED BY <2>3 DEF FreeInode
<1>2. CASE \E g \in Helpers : job[g].fd = NoInode \/ \E n \in Names : job[g].fd = tmp[n]
  <2>1. PICK g \in Helpers : job[g].fd = NoInode \/ \E n \in Names : job[g].fd = tmp[n]
    BY <1>2
  <2> DEFINE others == Helpers \ {g}
             open   == {job[h].fd : h \in others}
             named  == {file["service"], file["backup"], tmp["service"], tmp["backup"]}
  <2>2. IsFiniteSet(others) /\ Cardinality(others) = card - 1 /\ card >= 1
    <3>1. IsFiniteSet(others) /\ Cardinality(others) = card - 1
      BY HelpersAssumption, FS_RemoveElement
    <3>2. Cardinality(others) \in Nat
      BY <3>1, FS_CardinalityType
    <3> QED BY <1>0, <3>1, <3>2
  <2>3. IsFiniteSet(open) /\ Cardinality(open) <= card - 1
    <3>1. [h \in others |-> job[h].fd] \in Surjection(others, open)
      BY DEF Surjection
    <3> QED BY <2>2, <3>1, FS_Surjection
  <2>4. IsFiniteSet(named) /\ Cardinality(named) <= 4
    BY FourAtMost
  <2> HIDE DEF others, open, named
  <2>5. Cardinality(open) \in Nat /\ Cardinality(named) \in Nat
        /\ IsFiniteSet(named \cap open)
    BY <2>3, <2>4, FS_CardinalityType, FS_Intersection
  <2>6. IsFiniteSet(named \cup open) /\ Cardinality(named \cup open) <= 3 + card
    <3>1. /\ IsFiniteSet(named \cup open)
          /\ Cardinality(named \cup open)
               = Cardinality(named) + Cardinality(open) - Cardinality(named \cap open)
      BY <2>3, <2>4, FS_Union
    <3>2. Cardinality(named \cap open) \in Nat
      BY <2>5, FS_CardinalityType
    <3> QED BY <1>0, <2>3, <2>4, <2>5, <3>1, <3>2
  <2>7. ~(Inodes \subseteq named \cup open)
    <3> SUFFICES ASSUME Inodes \subseteq named \cup open PROVE FALSE
      OBVIOUS
    <3>1. Cardinality(Inodes) <= Cardinality(named \cup open)
      BY <2>6, FS_Subset
    <3>2. Cardinality(Inodes) = 4 + card
      BY <1>0, FS_Interval
    <3>3. Cardinality(named \cup open) \in Nat
      BY <2>6, FS_CardinalityType
    <3> HIDE DEF card
    <3> QED BY <1>0, <2>6, <3>1, <3>2, <3>3
  <2>8. PICK i \in Inodes : i \notin named /\ i \notin open
    BY <2>7
  <2>9. i # NoInode
    BY <1>0, NoneAssumption
  <2>10. \A n \in Names : i # file[n] /\ i # tmp[n]
    BY <2>8 DEF named, Names
  <2>11. \A h \in Helpers : i # job[h].fd
    BY <2>1, <2>8, <2>9, <2>10 DEF open, others
  <2>12. Left(i)
    BY <2>10, <2>11
  <2> QED BY <2>12 DEF FreeInode
<1> QED BY <1>1, <1>2 DEF Fresh

\* A helper whose files are typed, and whose descriptor is as it was, none, or that of a
\* name, leaves everything typed.
LEMMA TypedAfter ==
    ASSUME TypeInv, NEW h \in Helpers, Alone(h), FilesTyped', CountsTyped', HandTyped(h)',
           JobShape', pc' = [g \in Helpers |-> pc'[g]], pc'[h] \in Steps,
           \/ UNCHANGED tmp /\ job'[h].fd = job[h].fd
           \/ job'[h].fd = NoInode
           \/ \E n \in Names : job'[h].fd = tmp'[n]
    PROVE  TypeInv'
<1>1. \A g \in Helpers : pc'[g] \in Steps /\ HandTyped(g)'
  BY DEF TypeInv, HandsTyped, HandTyped, Alone, Inodes
<1>2. pc' \in [Helpers -> Steps]
  BY <1>1
<1>3. Fresh'
  BY DEF TypeInv, Fresh, Alone
<1> QED BY <1>1, <1>2, <1>3 DEF TypeInv, HandsTyped

\* A helper before its command, and after it, has nothing in hand.
LEMMA NoJobTyped ==
    /\ NoJob.read \in Seq(FileLines) /\ NoJob.new \in Seq(FileLines)
    /\ NoJob.tries \in 0..Attempts /\ NoJob.passes \in 0..NoJob.tries
    /\ NoJob.target \in Names /\ NoJob.fd = NoInode /\ NoJob.off \in Nat
    /\ NoJob = Job(NoJob.op, NoJob.read, NoJob.new, NoJob.tries, NoJob.passes,
                   NoJob.target, NoJob.fd, NoJob.off)
<1>1. /\ NoJob.read = <<>> /\ NoJob.new = <<>> /\ NoJob.tries = 0 /\ NoJob.passes = 0
      /\ NoJob.target = "service" /\ NoJob.fd = NoInode /\ NoJob.off = 0
  BY DEF NoJob
<1>2. <<>> \in Seq(FileLines) /\ 0 \in 0..Attempts /\ 0 \in 0..0 /\ 0 \in Nat
  BY DEF Attempts
<1>3. NoJob = Job(NoJob.op, NoJob.read, NoJob.new, NoJob.tries, NoJob.passes,
                  NoJob.target, NoJob.fd, NoJob.off)
  BY DEF NoJob, Job
<1> QED BY <1>1, <1>2, <1>3 DEF Names

\* A helper that has done with its command holds nothing.
LEMMA FinishTyped ==
    ASSUME TypeInv, NEW h \in Helpers, Finish(h)
    PROVE  /\ HandTyped(h)' /\ JobShape' /\ Alone(h) /\ job'[h].fd = NoInode
           /\ pc' = [g \in Helpers |-> pc'[g]] /\ pc'[h] \in Steps
<1>1. Shape
  BY DEF TypeInv, HandsTyped, FilesTyped, Shape
<1>2. pc'[h] = "idle" /\ job'[h] = NoJob /\ JobShape' /\ Alone(h)
      /\ pc' = [g \in Helpers |-> pc'[g]]
  BY <1>1, FinishAlone
<1> QED BY <1>2, NoJobTyped DEF HandTyped, Steps

LEMMA FilesStay ==
    ASSUME TypeInv, UNCHANGED fsVars
    PROVE  FilesTyped'
BY DEF TypeInv, FilesTyped, fsVars, Inodes

LEMMA ReadingTyped ==
    ASSUME TypeInv, NEW h \in Helpers, Begin(h) \/ ReadService(h) \/ VerifyOnce(h)
    PROVE  TypeInv'
<1>1. /\ HandTyped(h) /\ JobShape /\ pc = [g \in Helpers |-> pc[g]] /\ FilesTyped'
      /\ UNCHANGED tmp /\ CountsTyped
  BY FilesStay DEF TypeInv, HandsTyped, Begin, ReadService, VerifyOnce, fsVars
<1>2. CountsTyped'
  BY <1>1, BoundsAssumption DEF CountsTyped, Begin, ReadService, VerifyOnce, bounds
<1>3. CASE Finish(h)
  BY <1>1, <1>2, <1>3, FinishTyped, TypedAfter
<1>4. CASE Begin(h)
  <2>1. PICK op : job' = [job EXCEPT ![h].op = op]
    BY <1>4 DEF Begin
  <2>2. /\ Hand(h, op, job[h].read, job[h].new, job[h].target, job[h].fd, job[h].off)
        /\ Votes(h, job[h].tries, job[h].passes)
    BY <1>1, <2>1, HandOne
  <2>3. pc[h] = "idle" /\ pc'[h] = "read" /\ pc' = [g \in Helpers |-> pc'[g]] /\ Alone(h)
    BY <1>1, <1>4, <2>2 DEF Begin, Goto, Alone, Hand
  <2>4. HandTyped(h)'
    BY <1>1, <2>2, <2>3 DEF HandTyped, Hand, Votes, Inodes
  <2> QED BY <1>1, <1>2, <2>2, <2>3, <2>4, TypedAfter DEF Hand, Steps
<1>5. CASE ReadService(h) /\ ~Finish(h)
  <2>1. /\ file["service"] # NoInode /\ pc[h] = "read"
        /\ job' = [job EXCEPT ![h].read = disk[file["service"]]]
        /\ Goto(h, IF job[h].op = "enable" THEN "verify" ELSE "edit")
    BY <1>5 DEF ReadService
  <2>2. /\ Hand(h, job[h].op, disk[file["service"]], job[h].new, job[h].target,
                job[h].fd, job[h].off)
        /\ Votes(h, job[h].tries, job[h].passes)
    BY <1>1, <2>1, HandOne
  <2>3. pc'[h] \in {"verify", "edit"} /\ pc' = [g \in Helpers |-> pc'[g]] /\ Alone(h)
    BY <1>1, <2>1, <2>2 DEF Goto, Alone, Hand
  <2>4. disk[file["service"]] \in Seq(FileLines)
    BY <2>1 DEF TypeInv, FilesTyped, Names
  <2>5. HandTyped(h)'
    BY <1>1, <2>1, <2>2, <2>3, <2>4 DEF HandTyped, Hand, Votes, Inodes
  <2> QED BY <1>1, <1>2, <2>2, <2>3, <2>5, TypedAfter DEF Hand, Steps
<1>6. CASE VerifyOnce(h) /\ ~Finish(h)
  <2>1. pc[h] = "verify"
    BY <1>6 DEF VerifyOnce
  <2>2. CASE /\ job[h].tries < Attempts /\ UNCHANGED pc
             /\ \E match \in {0, 1} :
                  job' = [job EXCEPT ![h].tries = @ + 1, ![h].passes = @ + match]
    <3>1. PICK match \in {0, 1} :
             job' = [job EXCEPT ![h].tries = @ + 1, ![h].passes = @ + match]
      BY <2>2
    <3> DEFINE v == job[h].tries + 1
               w == job[h].passes + match
    <3>2. job' = [job EXCEPT ![h].tries = v, ![h].passes = w]
      BY <1>1, <3>1 DEF JobShape
    <3>3. v \in 0..Attempts /\ w \in 0..v
      <4>1. job[h].tries \in 0..Attempts /\ job[h].passes \in 0..job[h].tries
        BY <1>1 DEF HandTyped
      <4> QED BY <2>2, <4>1 DEF Attempts
    <3> HIDE DEF v, w
    <3>4. /\ Hand(h, job[h].op, job[h].read, job[h].new, job[h].target, job[h].fd, job[h].off)
          /\ Votes(h, v, w)
      BY <1>1, <3>2, HandMore
    <3>5. HandTyped(h)'
      BY <1>1, <2>2, <3>3, <3>4 DEF HandTyped, Hand, Votes, Inodes
    <3>6. Alone(h) /\ pc' = [g \in Helpers |-> pc'[g]] /\ pc'[h] \in Steps
      BY <1>1, <2>1, <2>2, <3>4 DEF Alone, Hand, Steps
    <3> QED BY <1>1, <1>2, <3>4, <3>5, <3>6, TypedAfter DEF Hand
  <2>3. CASE Goto(h, "edit") /\ UNCHANGED job
    <3>1. pc'[h] = "edit" /\ pc' = [g \in Helpers |-> pc'[g]] /\ Alone(h) /\ JobShape'
      BY <1>1, <2>3 DEF Goto, Alone, JobShape
    <3>2. HandTyped(h)'
      BY <1>1, <2>1, <2>3, <3>1 DEF HandTyped, Inodes
    <3> QED BY <1>1, <1>2, <2>3, <3>1, <3>2, TypedAfter DEF Steps
  <2> QED BY <1>6, <2>2, <2>3 DEF VerifyOnce
<1> QED BY <1>3, <1>4, <1>5, <1>6

\* The edits turn lines, and holes, into such.
LEMMA EditsTyped ==
    ASSUME NEW content \in Seq(FileLines)
    PROVE  enableInContent(content) \in Seq(FileLines)
           /\ disableInContent(content) \in Seq(FileLines)
<1>1. enableInContent(content) \in Seq(FileLines)
  <2>1. <<"sufficient">> \in Seq(FileLines)
    BY DEF FileLines, Lines, FacialLines
  <2>2. <<"sufficient">> \o content \in Seq(FileLines)
    BY <2>1
  <2> QED BY <2>2 DEF enableInContent
<1>2. disableInContent(content) \in Seq(FileLines)
  <2> DEFINE kept == {content[i] : i \in {j \in DOMAIN content : NotFacial(content[j])}}
  <2>1. disableInContent(content) \in Seq(kept)
    BY DisableSelects
  <2>2. kept \subseteq FileLines
    OBVIOUS
  <2> HIDE DEF kept
  <2> QED BY <2>1, <2>2
<1> QED BY <1>1, <1>2

LEMMA ChoosingTyped ==
    ASSUME TypeInv, NEW h \in Helpers,
           Enable(h) \/ Disable(h) \/ ChooseTarget(h)
    PROVE  TypeInv'
<1>1. /\ HandTyped(h) /\ JobShape /\ pc = [g \in Helpers |-> pc[g]] /\ FilesTyped'
      /\ UNCHANGED tmp
  BY FilesStay DEF TypeInv, HandsTyped, Enable, Disable, Install, ChooseTarget, fsVars
<1>2. CountsTyped'
  BY DEF TypeInv, CountsTyped, Enable, Disable, Install, ChooseTarget, bounds
<1>3. CASE Finish(h)
  BY <1>1, <1>2, <1>3, FinishTyped, TypedAfter
<1>4. CASE (Enable(h) \/ Disable(h)) /\ ~Finish(h)
  <2>1. PICK new \in Seq(FileLines) :
          /\ pc[h] = "edit" /\ job' = [job EXCEPT ![h].new = new]
          /\ Goto(h, "choose") \/ Goto(h, "open")
    <3>1. job[h].read \in Seq(FileLines)
      BY <1>1 DEF HandTyped
    <3>2. enableInContent(job[h].read) \in Seq(FileLines)
          /\ disableInContent(job[h].read) \in Seq(FileLines)
      BY <3>1, EditsTyped
    <3> QED BY <1>4, <3>2 DEF Enable, Disable, Install
  <2>2. /\ Hand(h, job[h].op, job[h].read, new, job[h].target, job[h].fd, job[h].off)
        /\ Votes(h, job[h].tries, job[h].passes)
    BY <1>1, <2>1, HandOne
  <2>3. pc'[h] \in {"choose", "open"} /\ pc' = [g \in Helpers |-> pc'[g]] /\ Alone(h)
    BY <1>1, <2>1, <2>2 DEF Goto, Alone, Hand
  <2>4. HandTyped(h)'
    BY <1>1, <2>1, <2>2, <2>3 DEF HandTyped, Hand, Votes, Inodes
  <2> QED BY <1>1, <1>2, <2>2, <2>3, <2>4, TypedAfter DEF Hand, Steps
<1>5. CASE ChooseTarget(h)
  <2>1. PICK target \in Names :
          pc[h] = "choose" /\ job' = [job EXCEPT ![h].target = target] /\ Goto(h, "open")
    BY <1>5 DEF ChooseTarget, Names
  <2>2. /\ Hand(h, job[h].op, job[h].read, job[h].new, target, job[h].fd, job[h].off)
        /\ Votes(h, job[h].tries, job[h].passes)
    BY <1>1, <2>1, HandOne
  <2>3. pc'[h] = "open" /\ pc' = [g \in Helpers |-> pc'[g]] /\ Alone(h)
    BY <1>1, <2>1, <2>2 DEF Goto, Alone, Hand
  <2>4. HandTyped(h)'
    BY <1>1, <2>1, <2>2, <2>3 DEF HandTyped, Hand, Votes, Inodes
  <2> QED BY <1>1, <1>2, <2>2, <2>3, <2>4, TypedAfter DEF Hand, Steps
<1> QED BY <1>3, <1>4, <1>5

\* The file that is opened has the temporary name from then on.
LEMMA OpeningTyped ==
    ASSUME TypeInv, NEW h \in Helpers, OpenTmp(h)
    PROVE  TypeInv'
<1> DEFINE name  == job[h].target
           inode == IF tmp[name] = NoInode THEN FreeInode ELSE tmp[name]
<1>1. /\ HandTyped(h) /\ JobShape /\ pc = [g \in Helpers |-> pc[g]] /\ FilesTyped /\ Fresh
      /\ name \in Names /\ pc[h] = "open" /\ UNCHANGED file
  BY DEF TypeInv, HandsTyped, HandTyped, OpenTmp
<1>2. CountsTyped'
  BY DEF TypeInv, CountsTyped, OpenTmp, bounds
<1>3. inode \in Inodes /\ inode # NoInode
  <2>1. FreeInode \in Inodes
    BY <1>1, InodeLeft
  <2>2. tmp[name] \in Inodes \cup {NoInode}
    BY <1>1 DEF FilesTyped
  <2> QED BY <2>1, <2>2, NoneAssumption DEF Inodes
<1>4. CASE Finish(h) /\ UNCHANGED <<tmp, disk, synced>>
  <2>1. FilesTyped'
    BY <1>1, <1>4 DEF FilesTyped, Inodes
  <2> QED BY <1>2, <1>4, <2>1, FinishTyped, TypedAfter
<1>5. CASE /\ tmp' = [tmp EXCEPT ![name] = inode]
           /\ disk' = [disk EXCEPT ![inode] = <<>>]
           /\ synced' = synced \ {inode}
           /\ job' = [job EXCEPT ![h].fd = inode, ![h].off = 0]
           /\ Goto(h, "write")
  <2> HIDE DEF name, inode
  <2>1. FilesTyped'
    <3>1. <<>> \in Seq(FileLines)
      OBVIOUS
    <3>2. tmp' \in [Names -> Inodes \cup {NoInode}]
      BY <1>1, <1>3, <1>5 DEF FilesTyped
    <3>3. disk' \in [Inodes -> Seq(FileLines)] /\ synced' \subseteq Inodes
      BY <1>1, <1>3, <1>5, <3>1 DEF FilesTyped
    <3> QED BY <1>1, <3>2, <3>3 DEF FilesTyped, Inodes
  <2>2. /\ Hand(h, job[h].op, job[h].read, job[h].new, job[h].target, inode, 0)
        /\ Votes(h, job[h].tries, job[h].passes)
    BY <1>1, <1>5, HandMore
  <2>3. pc'[h] = "write" /\ pc' = [g \in Helpers |-> pc'[g]] /\ Alone(h)
    BY <1>1, <1>5, <2>2 DEF Goto, Alone, Hand
  <2>4. HandTyped(h)'
    BY <1>1, <1>3, <2>2, <2>3 DEF HandTyped, Hand, Votes, Inodes
  <2>5. job'[h].fd = tmp'[name]
    BY <1>1, <1>5, <2>2 DEF Hand, FilesTyped
  <2> QED BY <1>1, <1>2, <2>1, <2>2, <2>3, <2>4, <2>5, TypedAfter DEF Hand, Steps
<1> QED BY <1>1, <1>4, <1>5 DEF OpenTmp

\* What a write leaves behind, the hole included.
LEMMA WriteTyped ==
    ASSUME NEW S, NEW old \in Seq(S), NEW chunk \in Seq(S), NEW off \in Nat, NEW hole \in S
    PROVE  WriteAt(old, off, chunk, hole) \in Seq(S)
<1> DEFINE end  == off + Len(chunk)
           size == IF Len(old) > end THEN Len(old) ELSE end
<1>1. /\ Len(old) \in Nat /\ Len(chunk) \in Nat /\ end \in Nat /\ size \in Nat
      /\ DOMAIN old = 1..Len(old) /\ DOMAIN chunk = 1..Len(chunk)
  OBVIOUS
<1>2. \A n \in 1..size : (IF n \in (off + 1)..end THEN chunk[n - off]
                          ELSE IF n \in DOMAIN old THEN old[n] ELSE hole) \in S
  <2> SUFFICES ASSUME NEW n \in 1..size
               PROVE  (IF n \in (off + 1)..end THEN chunk[n - off]
                       ELSE IF n \in DOMAIN old THEN old[n] ELSE hole) \in S
    OBVIOUS
  <2>1. CASE n \in (off + 1)..end
    <3>1. n - off \in 1..Len(chunk)
      BY <1>1, <2>1
    <3> QED BY <1>1, <2>1, <3>1
  <2>2. CASE n \notin (off + 1)..end
    BY <1>1, <2>2
  <2> QED BY <2>1, <2>2
<1>3. WriteAt(old, off, chunk, hole) =
        [n \in 1..size |-> IF n \in (off + 1)..end THEN chunk[n - off]
                           ELSE IF n \in DOMAIN old THEN old[n] ELSE hole]
  BY DEF WriteAt
<1> HIDE DEF end, size
<1>4. WriteAt(old, off, chunk, hole) \in [1..size -> S]
  BY <1>2, <1>3
<1> QED BY <1>1, <1>4

LEMMA PartTyped ==
    ASSUME NEW S, NEW lines \in Seq(S), NEW m \in Nat \ {0}, NEW n \in Nat, n <= Len(lines)
    PROVE  SubSeq(lines, m, n) \in Seq(S)
<1>1. \A k \in m..n : lines[k] \in S
  OBVIOUS
<1> QED BY <1>1

LEMMA WritingTyped ==
    ASSUME TypeInv, NEW h \in Helpers, WriteSome(h) \/ Fsync(h) \/ WriteFails(h)
    PROVE  TypeInv'
<1>1. /\ HandTyped(h) /\ JobShape /\ pc = [g \in Helpers |-> pc[g]] /\ FilesTyped
      /\ job[h].target \in Names /\ UNCHANGED file
      /\ job[h].fd \in Inodes
  BY DEF TypeInv, HandsTyped, HandTyped, WriteSome, Fsync, WriteFails
<1>2. CountsTyped'
  BY DEF TypeInv, CountsTyped, WriteSome, Fsync, WriteFails, bounds
<1>3. CASE WriteSome(h)
  <2>1. PICK upto \in (job[h].off + 1)..Len(Payload(h)) :
          /\ disk' = [disk EXCEPT ![job[h].fd] =
                        WriteAt(@, job[h].off, SubSeq(Payload(h), job[h].off + 1, upto), "nul")]
          /\ job' = [job EXCEPT ![h].off = upto]
    BY <1>3 DEF WriteSome
  <2>2. pc[h] = "write" /\ synced' = synced \ {job[h].fd} /\ UNCHANGED <<tmp, pc>>
    BY <1>3 DEF WriteSome
  <2>3. Payload(h) \in Seq(FileLines) /\ job[h].off \in Nat
    BY <1>1 DEF HandTyped, Payload
  <2>4. upto \in Nat /\ upto <= Len(Payload(h)) /\ job[h].off + 1 \in Nat \ {0}
    BY <2>3
  <2>5. SubSeq(Payload(h), job[h].off + 1, upto) \in Seq(FileLines)
    BY <2>3, <2>4, PartTyped
  <2>6. disk[job[h].fd] \in Seq(FileLines) /\ "nul" \in FileLines
    BY <1>1 DEF FilesTyped, FileLines
  <2>7. WriteAt(disk[job[h].fd], job[h].off,
                SubSeq(Payload(h), job[h].off + 1, upto), "nul") \in Seq(FileLines)
    BY <2>3, <2>5, <2>6, WriteTyped
  <2>8. FilesTyped'
    <3>1. disk' \in [Inodes -> Seq(FileLines)]
      BY <1>1, <2>1, <2>7 DEF FilesTyped
    <3> QED BY <1>1, <2>2, <3>1 DEF FilesTyped, Inodes
  <2>9. /\ Hand(h, job[h].op, job[h].read, job[h].new, job[h].target, job[h].fd, upto)
        /\ Votes(h, job[h].tries, job[h].passes)
    BY <1>1, <2>1, HandOne
  <2>10. HandTyped(h)' /\ Alone(h)
    BY <1>1, <2>2, <2>4, <2>9 DEF HandTyped, Hand, Votes, Inodes, Alone
  <2> QED BY <1>1, <1>2, <2>2, <2>8, <2>9, <2>10, TypedAfter DEF Hand, Steps
<1>4. CASE Fsync(h)
  <2>1. /\ pc[h] = "write" /\ synced' = synced \cup {job[h].fd} /\ Goto(h, "rename")
        /\ UNCHANGED <<tmp, disk, job>>
    BY <1>4 DEF Fsync
  <2>2. FilesTyped'
    BY <1>1, <2>1 DEF FilesTyped, Inodes
  <2>3. pc'[h] = "rename" /\ pc' = [g \in Helpers |-> pc'[g]] /\ Alone(h) /\ JobShape'
    BY <1>1, <2>1 DEF Goto, Alone, JobShape
  <2>4. HandTyped(h)'
    BY <1>1, <2>1, <2>3 DEF HandTyped, Inodes
  <2> QED BY <1>2, <2>1, <2>2, <2>3, <2>4, TypedAfter DEF Steps
<1>5. CASE WriteFails(h)
  <2>1. /\ tmp' = [tmp EXCEPT ![job[h].target] = NoInode] /\ Finish(h)
        /\ UNCHANGED <<disk, synced>>
    BY <1>5 DEF WriteFails, CleanUp
  <2>2. FilesTyped'
    BY <1>1, <2>1 DEF FilesTyped, Inodes
  <2> QED BY <1>2, <2>1, <2>2, FinishTyped, TypedAfter
<1> QED BY <1>3, <1>4, <1>5

LEMMA RenamingTyped ==
    ASSUME TypeInv, NEW h \in Helpers, RenameTmp(h)
    PROVE  TypeInv'
<1>1. /\ HandTyped(h) /\ JobShape /\ pc = [g \in Helpers |-> pc[g]] /\ FilesTyped
      /\ job[h].target \in Names /\ tmp[job[h].target] \in Inodes
      /\ UNCHANGED <<disk, synced>>
  BY DEF TypeInv, HandsTyped, HandTyped, FilesTyped, RenameTmp
<1>2. CountsTyped'
  BY DEF TypeInv, CountsTyped, RenameTmp, bounds
<1>3. FilesTyped'
  <2>1. /\ file' = [file EXCEPT ![job[h].target] = tmp[job[h].target]]
        /\ tmp' = [tmp EXCEPT ![job[h].target] = NoInode]
    BY DEF RenameTmp
  <2> QED BY <1>1, <2>1 DEF FilesTyped, Inodes
<1>4. CASE Finish(h)
  BY <1>2, <1>3, <1>4, FinishTyped, TypedAfter
<1>5. CASE /\ job' = [job EXCEPT ![h].target = "service", ![h].fd = NoInode, ![h].off = 0]
           /\ Goto(h, "open")
  <2>1. /\ Hand(h, job[h].op, job[h].read, job[h].new, "service", NoInode, 0)
        /\ Votes(h, job[h].tries, job[h].passes)
    <3>1. job' = [job EXCEPT ![h].target = "service", ![h].fd = NoInode, ![h].off = 0]
      BY <1>5
    <3> QED BY <1>1, <3>1, HandMore
  <2>2. pc'[h] = "open" /\ pc' = [g \in Helpers |-> pc'[g]] /\ Alone(h)
    BY <1>1, <1>5, <2>1 DEF Goto, Alone, Hand
  <2>3. HandTyped(h)'
    BY <1>1, <2>1, <2>2 DEF HandTyped, Hand, Votes, Inodes, Names
  <2> QED BY <1>2, <1>3, <2>1, <2>2, <2>3, TypedAfter DEF Hand, Steps
<1> QED BY <1>4, <1>5 DEF RenameTmp

LEMMA AdminTyped == ASSUME TypeInv, AdminEdit PROVE TypeInv'
<1>1. FilesTyped /\ HandsTyped /\ Fresh /\ UNCHANGED <<tmp, pc, job>>
  BY DEF TypeInv, AdminEdit
<1>2. FreeInode \in Inodes
  BY <1>1, InodeLeft
<1>3. PICK content \in AdminContents :
        /\ file' = [file EXCEPT !["service"] = FreeInode]
        /\ disk' = [disk EXCEPT ![FreeInode] = content]
        /\ synced' = synced \cup {FreeInode}
  BY DEF AdminEdit
<1>4. content \in Seq(FileLines)
  <2>1. content \in Seq(Lines) /\ Lines \subseteq FileLines
    BY ContentsAssumption DEF FileLines
  <2> QED BY <2>1
<1>5. FilesTyped'
  <2>1. file' \in [Names -> Inodes \cup {NoInode}]
    BY <1>1, <1>2, <1>3 DEF FilesTyped
  <2>2. disk' \in [Inodes -> Seq(FileLines)]
    BY <1>1, <1>2, <1>3, <1>4 DEF FilesTyped
  <2> QED BY <1>1, <1>2, <1>3, <2>1, <2>2 DEF FilesTyped, Inodes
<1>6. CountsTyped'
  BY BoundsAssumption DEF TypeInv, CountsTyped, AdminEdit
<1>7. HandsTyped' /\ Fresh'
  BY <1>1 DEF HandsTyped, HandTyped, JobShape, Fresh, Inodes
<1> QED BY <1>5, <1>6, <1>7 DEF TypeInv

\* What a helper holds before it begins.
LEMMA IdleTyped ==
    ASSUME pc' = [h \in Helpers |-> "idle"], job' = [h \in Helpers |-> NoJob],
           \A n \in Names : Helpers = {} => tmp'[n] = NoInode
    PROVE  HandsTyped' /\ Fresh'
<1>1. \A h \in Helpers : HandTyped(h)'
  BY NoJobTyped DEF HandTyped
<1>2. pc' \in [Helpers -> Steps] /\ JobShape'
  BY NoJobTyped DEF Steps, JobShape
<1>3. Fresh'
  BY NoJobTyped DEF Fresh
<1> QED BY <1>1, <1>2, <1>3 DEF HandsTyped

LEMMA LossTyped == ASSUME TypeInv, PowerLoss PROVE TypeInv'
<1>1. FilesTyped /\ UNCHANGED <<file, tmp>> /\ synced' = Inodes
  BY DEF TypeInv, PowerLoss
<1>2. PICK kept \in [Inodes \ synced -> UNION {0..Len(disk[i]) : i \in Inodes}] :
        /\ \A i \in Inodes \ synced : kept[i] <= Len(disk[i])
        /\ disk' = [i \in Inodes |->
                      IF i \in synced THEN disk[i] ELSE SubSeq(disk[i], 1, kept[i])]
  BY DEF PowerLoss
<1>3. \A i \in Inodes : disk'[i] \in Seq(FileLines)
  <2> SUFFICES ASSUME NEW i \in Inodes, i \notin synced
               PROVE  SubSeq(disk[i], 1, kept[i]) \in Seq(FileLines)
    BY <1>1, <1>2 DEF FilesTyped
  <2>1. disk[i] \in Seq(FileLines) /\ \A j \in Inodes : Len(disk[j]) \in Nat
    BY <1>1 DEF FilesTyped
  <2>2. kept[i] \in UNION {0..Len(disk[j]) : j \in Inodes}
    BY <1>2
  <2>3. PICK j \in Inodes : kept[i] \in 0..Len(disk[j])
    BY <2>2
  <2>4. kept[i] \in Nat /\ kept[i] <= Len(disk[i])
    BY <1>2, <2>1, <2>3
  <2> QED BY <2>1, <2>4, PartTyped
<1>4. FilesTyped'
  <2>1. disk' \in [Inodes -> Seq(FileLines)]
    BY <1>2, <1>3
  <2> QED BY <1>1, <2>1 DEF FilesTyped, Inodes
<1>5. CountsTyped'
  BY BoundsAssumption DEF TypeInv, CountsTyped, PowerLoss
<1>6. \A n \in Names : Helpers = {} => tmp'[n] = NoInode
  BY <1>1 DEF TypeInv, Fresh
<1>7. HandsTyped' /\ Fresh'
  BY <1>6, IdleTyped DEF PowerLoss
<1> QED BY <1>4, <1>5, <1>7 DEF TypeInv

LEMMA TypeInit == Init => TypeInv
<1> SUFFICES ASSUME Init PROVE TypeInv
  OBVIOUS
<1>1. PICK here \in BOOLEAN, content \in AdminContents :
         /\ file = [n \in Names |-> IF here /\ n = "service" THEN 1 ELSE NoInode]
         /\ disk = [i \in Inodes |-> IF here /\ i = 1 THEN content ELSE <<>>]
  BY DEF Init
<1>2. content \in Seq(FileLines) /\ <<>> \in Seq(FileLines)
  <2>1. content \in Seq(Lines) /\ Lines \subseteq FileLines
    BY ContentsAssumption DEF FileLines
  <2> QED BY <2>1
<1>3. 1 \in Inodes
  BY InodesCount
<1>4. FilesTyped
  <2>1. disk \in [Inodes -> Seq(FileLines)]
    BY <1>1, <1>2
  <2> QED BY <1>1, <1>3, <2>1 DEF Init, FilesTyped
<1>5. \A h \in Helpers : HandTyped(h)
  BY NoJobTyped DEF Init, HandTyped
<1>6. HandsTyped /\ Fresh
  BY <1>5, NoJobTyped DEF Init, HandsTyped, JobShape, Steps, Fresh
<1>7. CountsTyped
  <2>1. ops \in 0..MaxOps /\ edits \in 0..MaxEdits /\ losses \in 0..MaxLosses
    BY BoundsAssumption DEF Init
  <2> QED BY <2>1 DEF Init, CountsTyped
<1> QED BY <1>4, <1>6, <1>7 DEF TypeInv

LEMMA TypeStep == TypeInv /\ [Next]_vars => TypeInv'
<1> SUFFICES ASSUME TypeInv, [Next]_vars PROVE TypeInv'
  OBVIOUS
<1>1. ASSUME NEW h \in Helpers, HelperStep(h) PROVE TypeInv'
  BY <1>1, ReadingTyped, ChoosingTyped, OpeningTyped, WritingTyped, RenamingTyped
     DEF HelperStep
<1>2. ASSUME NEW h \in Helpers, KillHelper(h) PROVE TypeInv'
  <2>1. Finish(h) /\ UNCHANGED fsVars
    BY <1>2 DEF KillHelper
  <2>2. CountsTyped'
    BY <1>2 DEF TypeInv, CountsTyped, KillHelper, bounds
  <2> QED BY <2>1, <2>2, FilesStay, FinishTyped, TypedAfter
<1>3. CASE UNCHANGED vars
  BY <1>3 DEF vars, fsVars, bounds, TypeInv, FilesTyped, HandsTyped, HandTyped, JobShape,
     CountsTyped, Fresh, Inodes
<1> QED BY <1>1, <1>2, <1>3, AdminTyped, LossTyped DEF Next

\* The types, for any number of helpers at any step: in particular there is always an inode
\* for a new file, and a helper has a descriptor exactly between opening and renaming.
THEOREM ServiceTyping == Spec => []TypeOK
<1>1. TypeInv => TypeOK
  <2> SUFFICES ASSUME TypeInv PROVE TypeOK
    OBVIOUS
  <2>1. \A h \in Helpers :
           /\ DOMAIN job[h] = DOMAIN NoJob
           /\ job[h].passes <= job[h].tries /\ job[h].tries <= Attempts
           /\ job[h].target \in Names
           /\ job[h].fd \in Inodes \cup {NoInode}
           /\ pc[h] \in {"write", "rename"} <=> job[h].fd # NoInode
    <3> SUFFICES ASSUME NEW h \in Helpers
                 PROVE  /\ DOMAIN job[h] = DOMAIN NoJob
                        /\ job[h].passes <= job[h].tries /\ job[h].tries <= Attempts
                        /\ job[h].target \in Names
                        /\ job[h].fd \in Inodes \cup {NoInode}
                        /\ pc[h] \in {"write", "rename"} <=> job[h].fd # NoInode
      OBVIOUS
    <3>1. HandTyped(h)
      BY DEF TypeInv, HandsTyped
    <3>2. \A a, b, c, d, e, f, g, i : DOMAIN Job(a, b, c, d, e, f, g, i) = DOMAIN NoJob
      BY DEF Job, NoJob
    <3>3. DOMAIN job[h] = DOMAIN NoJob
      BY <3>2 DEF TypeInv, HandsTyped, JobShape
    <3>4. job[h].passes <= job[h].tries /\ job[h].tries <= Attempts
      BY <3>1 DEF HandTyped, Attempts
    <3> QED BY <3>1, <3>3, <3>4 DEF HandTyped
  <2>2. \A i \in Inodes : \A n \in DOMAIN disk[i] : disk[i][n] \in Lines \cup {"nul"}
    BY DEF TypeInv, FilesTyped, FileLines
  <2> QED BY <2>1, <2>2 DEF TypeInv, FilesTyped, HandsTyped, CountsTyped, JobShape, TypeOK
<1>2. Init => TypeInv
  BY TypeInit
<1>3. TypeInv /\ [Next]_vars => TypeInv'
  BY TypeStep
<1> QED BY <1>1, <1>2, <1>3, PTL DEF Spec

=============================================================================
