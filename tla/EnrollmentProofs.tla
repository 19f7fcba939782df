-------------------------- MODULE EnrollmentProofs --------------------------
(***************************************************************************)
(* Theorems about Enrollment, for any number of processes and commands, any  *)
(* recordings and any models and modes; the first two are on one camera.     *)
(***************************************************************************)
EXTENDS Enrollment, FiniteSetTheorems, TLAPS

OneCamera == \A c, d \in Devices : c = d

\* What each variable is a function of.
Shape ==
    /\ camera = [d \in Devices |-> camera[d]] /\ disk = [i \in Inodes |-> disk[i]]
    /\ pc = [p \in Procs |-> pc[p]] /\ using = [p \in Procs |-> using[p]]
    /\ made = [p \in Procs |-> made[p]] /\ fd = [p \in Procs |-> fd[p]]
    /\ off = [p \in Procs |-> off[p]] /\ said = [p \in Procs |-> said[p]]

\* The steps at which a process has the camera open: it keeps it over the save.
Streaming == {"record", "attempt"} \cup Saving
Lock(p)   == pc[p] \in Streaming => \E d \in Devices : camera[d] = p

\* The camera it is about to open.
Aims(p) == pc[p] \in {"open_enroll", "load_all", "open_verify"} => using[p].device \in Devices

\* The beginning of an enrolment's file.
Part(e, upto) == [k \in 1..upto |-> [of |-> e, n |-> k - 1]]

\* A descriptor is open only while embedding.bin is written, and that file then holds
\* what this process has written, and nothing else.
Opened(p) == fd[p] # None => pc[p] = "write_bin"
Wrote(p)  == pc[p] = "write_bin" /\ fd[p] \in Inodes =>
                 off[p] \in Nat /\ disk[fd[p]] = Part(made[p], off[p])
Counted(p) == pc[p] \in Saving => made[p].count \in Nat

\* A command has said nothing before it is over.
Silent(p) == pc[p] # "idle" => said[p] = "none"

ProcInv(p) == Lock(p) /\ Aims(p) /\ Opened(p) /\ Wrote(p) /\ Counted(p) /\ Silent(p)

EnrollInv ==
    /\ Shape /\ config \in Setups
    /\ \A p \in Procs : ProcInv(p)
    /\ NoMixedTemplates

\* Process p takes a step; what the others are at and have open is as it was.
Alone(p) ==
    \A q \in Procs \ {p} :
        /\ pc'[q] = pc[q] /\ using'[q] = using[q] /\ made'[q] = made[q]
        /\ fd'[q] = fd[q] /\ off'[q] = off[q] /\ said'[q] = said[q]
        /\ pc[q] \in Streaming => \A d \in Devices : camera[d] = q => camera'[d] = q
        /\ pc[q] = "write_bin" /\ fd[q] \in Inodes => disk'[fd[q]] = disk[fd[q]]

LEMMA OthersKeep ==
    ASSUME EnrollInv, NEW p \in Procs, Alone(p), Shape', config' \in Setups,
           ProcInv(p)', NoMixedTemplates'
    PROVE  EnrollInv'
<1>1. ASSUME NEW q \in Procs \ {p} PROVE ProcInv(q)'
  <2>1. Lock(q)'
    BY DEF EnrollInv, ProcInv, Alone, Lock
  <2>2. Aims(q)' /\ Opened(q)' /\ Counted(q)' /\ Silent(q)'
    BY DEF EnrollInv, ProcInv, Alone, Aims, Opened, Counted, Silent
  <2>3. Wrote(q)'
    BY DEF EnrollInv, ProcInv, Alone, Wrote
  <2> QED BY <2>1, <2>2, <2>3 DEF ProcInv
<1> QED BY <1>1 DEF EnrollInv

\* The camera is a lock: two processes never have it open at once.
LEMMA OnlyOneStreams ==
    ASSUME OneCamera, EnrollInv, NEW p \in Procs, NEW q \in Procs,
           pc[p] \in Streaming, pc[q] \in Streaming
    PROVE  p = q
  BY DEF OneCamera, EnrollInv, ProcInv, Lock

LEMMA EndKeeps ==
    ASSUME EnrollInv, NEW p \in Procs, NEW ending, End(p, ending), UNCHANGED disk,
           config' \in Setups
    PROVE  EnrollInv'
<1>1. /\ pc'[p] = "idle" /\ fd'[p] = None
      /\ \A q \in Procs \ {p} :
            /\ pc'[q] = pc[q] /\ using'[q] = using[q] /\ made'[q] = made[q]
            /\ fd'[q] = fd[q] /\ off'[q] = off[q] /\ said'[q] = said[q]
  BY DEF EnrollInv, Shape, End, Exit
<1>2. \A q \in Procs \ {p} : \A d \in Devices : camera[d] = q => camera'[d] = q
  BY DEF End, ReleaseCamera
<1>3. Alone(p)
  BY <1>1, <1>2 DEF Alone
<1>4. Shape'
  BY DEF EnrollInv, Shape, End, Exit, ReleaseCamera
<1>5. ProcInv(p)'
  BY <1>1 DEF ProcInv, Lock, Aims, Opened, Wrote, Counted, Silent, Streaming, Saving
<1>6. NoMixedTemplates'
  BY DEF EnrollInv, NoMixedTemplates
<1> QED BY <1>3, <1>4, <1>5, <1>6, OthersKeep

\* A step that changes neither the files nor the cameras.
LEMMA GotoKeeps ==
    ASSUME EnrollInv, NEW p \in Procs, NEW step, Goto(p, step),
           UNCHANGED <<disk, camera, made, fd, off, said>>, config' \in Setups,
           using' = [q \in Procs |-> using'[q]],
           \A q \in Procs \ {p} : using'[q] = using[q],
           step \in Streaming => pc[p] \in Streaming,
           step \in {"open_enroll", "load_all", "open_verify"} => using'[p].device \in Devices,
           fd[p] = None, step # "write_bin",
           step \in Saving => pc[p] \in Saving,
           pc[p] # "idle"
    PROVE  EnrollInv'
<1>1. /\ pc' = [q \in Procs |-> pc'[q]] /\ pc'[p] = step
      /\ \A q \in Procs \ {p} : pc'[q] = pc[q]
  BY DEF Goto, EnrollInv, Shape
<1>2. Alone(p) /\ Shape'
  BY <1>1 DEF Alone, EnrollInv, Shape
<1>3. ProcInv(p)'
  BY <1>1 DEF EnrollInv, ProcInv, Lock, Aims, Opened, Wrote, Counted, Silent
<1>4. NoMixedTemplates'
  BY DEF EnrollInv, NoMixedTemplates
<1> QED BY <1>2, <1>3, <1>4, OthersKeep

LEMMA OpenKeeps ==
    ASSUME EnrollInv, NEW p \in Procs, NEW step \in {"record", "attempt"}, NEW failure,
           OpenCamera(p, step, failure), pc[p] \in {"open_enroll", "open_verify"},
           UNCHANGED <<config, disk>>
    PROVE  EnrollInv'
<1>1. config' \in Setups
  BY DEF EnrollInv
<1>2. CASE End(p, failure)
  BY <1>1, <1>2, EndKeeps
<1>3. CASE /\ camera[using[p].device] = None
           /\ camera' = [camera EXCEPT ![using[p].device] = p]
           /\ Goto(p, step)
           /\ UNCHANGED <<using, saveVars, verifyVars, said>>
  <2>1. using[p].device \in Devices
    BY DEF EnrollInv, ProcInv, Aims
  <2>2. /\ pc' = [q \in Procs |-> pc'[q]] /\ pc'[p] = step
        /\ \A q \in Procs \ {p} : pc'[q] = pc[q]
    BY <1>3 DEF Goto, EnrollInv, Shape
  <2>3. /\ camera' = [d \in Devices |-> camera'[d]] /\ camera'[using[p].device] = p
        /\ \A q \in Procs : \A d \in Devices : camera[d] = q => camera'[d] = q
    BY <1>3, <2>1, NoneAssumption DEF EnrollInv, Shape
  <2>4. UNCHANGED <<using, made, fd, off, said>>
    BY <1>3 DEF saveVars
  <2>5. Alone(p) /\ Shape'
    BY <2>2, <2>3, <2>4 DEF Alone, EnrollInv, Shape
  <2>6. ProcInv(p)'
    BY <2>1, <2>2, <2>3, <2>4
       DEF EnrollInv, ProcInv, Lock, Aims, Opened, Wrote, Counted, Silent, Saving
  <2>7. NoMixedTemplates'
    BY DEF EnrollInv, NoMixedTemplates
  <2> QED BY <1>1, <2>5, <2>6, <2>7, OthersKeep
<1> QED BY <1>2, <1>3 DEF OpenCamera

LEMMA PartIsSeq ==
    ASSUME NEW e, NEW n \in Nat
    PROVE  /\ Part(e, n) \in Seq([of : {e}, n : Nat])
           /\ Len(Part(e, n)) = n /\ DOMAIN Part(e, n) = 1..n
<1>1. \A k \in 1..n : [of |-> e, n |-> k - 1] \in [of : {e}, n : Nat]
  OBVIOUS
<1> QED BY <1>1 DEF Part

\* Writing on where this process stopped.
LEMMA WriteOn ==
    ASSUME NEW e, e.count \in Nat, NEW start \in Nat, NEW upto \in (start + 1)..(e.count + 1)
    PROVE  WriteAt(Part(e, start), start, SubSeq(serializeEmbeddings(e), start + 1, upto), Hole)
             = Part(e, upto)
<1> DEFINE bytes == serializeEmbeddings(e)
           chunk == SubSeq(bytes, start + 1, upto)
           old   == Part(e, start)
           S     == [of : {e}, n : Nat]
<1>1. \A n \in Nat : Part(e, n) \in Seq(S) /\ Len(Part(e, n)) = n /\ DOMAIN Part(e, n) = 1..n
  BY PartIsSeq
<1>2. bytes = Part(e, e.count + 1)
  BY DEF serializeEmbeddings, Part
<1> HIDE DEF bytes, S
<1>3. bytes \in Seq(S) /\ Len(bytes) = e.count + 1
  <2>1. e.count + 1 \in Nat
    OBVIOUS
  <2>2. Part(e, e.count + 1) \in Seq(S) /\ Len(Part(e, e.count + 1)) = e.count + 1
    BY <1>1, <2>1
  <2> QED BY <1>2, <2>2
<1>4. \A k \in 1..(e.count + 1) : bytes[k] = [of |-> e, n |-> k - 1]
  BY <1>2 DEF Part
<1>5. start \in Nat /\ upto \in Nat /\ start < upto /\ upto <= e.count + 1
  OBVIOUS
<1>6. Len(old) = start /\ DOMAIN old = 1..start
  BY <1>1, <1>5
<1> HIDE DEF old
<1>7. Len(chunk) = upto - start /\ \A k \in 1..(upto - start) : chunk[k] = bytes[start + k]
  <2>1. \A m, n \in Nat : 1 <= m /\ m <= n /\ n <= Len(bytes) =>
           /\ Len(SubSeq(bytes, m, n)) = n - m + 1
           /\ \A k \in 1..(n - m + 1) : SubSeq(bytes, m, n)[k] = bytes[m + k - 1]
    BY <1>3
  <2>2. start + 1 \in Nat /\ 1 <= start + 1 /\ start + 1 <= upto /\ upto <= Len(bytes)
    BY <1>3, <1>5
  <2>3. /\ Len(chunk) = upto - (start + 1) + 1
        /\ \A k \in 1..(upto - (start + 1) + 1) : chunk[k] = bytes[(start + 1) + k - 1]
    BY <1>5, <2>1, <2>2
  <2>4. upto - (start + 1) + 1 = upto - start
        /\ \A k \in 1..(upto - start) : (start + 1) + k - 1 = start + k
    BY <1>5
  <2> QED BY <2>3, <2>4
<1> HIDE DEF chunk
<1>8. WriteAt(old, start, chunk, Hole) =
        [n \in 1..upto |-> IF n \in (start + 1)..upto THEN chunk[n - start]
                           ELSE IF n \in DOMAIN old THEN old[n] ELSE Hole]
  <2>1. start + Len(chunk) = upto /\ ~(Len(old) > upto)
    BY <1>5, <1>6, <1>7
  <2> QED BY <2>1 DEF WriteAt
<1>9. ASSUME NEW n \in 1..upto
      PROVE  (IF n \in (start + 1)..upto THEN chunk[n - start]
              ELSE IF n \in DOMAIN old THEN old[n] ELSE Hole) = [of |-> e, n |-> n - 1]
  <2>1. CASE n \in (start + 1)..upto
    <3>1. n - start \in 1..(upto - start) /\ start + (n - start) = n
      BY <1>5, <2>1
    <3>2. chunk[n - start] = bytes[n]
      BY <1>7, <3>1
    <3> QED BY <1>4, <1>5, <2>1, <3>2
  <2>2. CASE n \in 1..start
    BY <1>5, <1>6, <2>2 DEF old, Part
  <2> QED BY <1>5, <2>1, <2>2
<1>10. WriteAt(old, start, chunk, Hole) = Part(e, upto)
  BY <1>8, <1>9 DEF Part
<1> QED BY <1>10 DEF old, chunk, bytes

LEMMA OpenBinKeeps ==
    ASSUME OneCamera, EnrollInv, NEW p \in Procs, OpenBin(p)
    PROVE  EnrollInv'
<1>1. PICK inode : /\ disk' = [disk EXCEPT ![inode] = <<>>]
                   /\ fd' = [fd EXCEPT ![p] = inode]
  BY DEF OpenBin
<1>2. /\ pc[p] = "open_bin" /\ pc' = [pc EXCEPT ![p] = "write_bin"]
      /\ off' = [off EXCEPT ![p] = 0]
      /\ UNCHANGED <<config, camera, using, made, said>>
  BY DEF OpenBin, Goto
<1>3. \A q \in Procs \ {p} : pc[q] \notin Streaming
  BY <1>2, OnlyOneStreams DEF Streaming, Saving
<1>4. Alone(p) /\ Shape'
  BY <1>1, <1>2, <1>3 DEF Alone, EnrollInv, Shape, Streaming, Saving
<1>5. \A i \in Inodes : disk'[i] = IF i = inode THEN <<>> ELSE disk[i]
  BY <1>1 DEF EnrollInv, Shape
<1>6. ProcInv(p)'
  <2>1. pc'[p] = "write_bin" /\ fd'[p] = inode /\ off'[p] = 0
    BY <1>1, <1>2 DEF EnrollInv, Shape
  <2>2. ASSUME inode \in Inodes
        PROVE  disk'[inode] = <<>>
    BY <1>5, <2>2
  <2>4. \A e : Part(e, 0) = <<>>
    BY DEF Part
  <2>3. Wrote(p)'
    BY <2>1, <2>2, <2>4 DEF Wrote
  <2> QED BY <1>2, <2>1, <2>3
          DEF EnrollInv, ProcInv, Lock, Aims, Opened, Counted, Silent, Streaming, Saving
<1>7. NoMixedTemplates'
  BY <1>5 DEF EnrollInv, NoMixedTemplates
<1> QED BY <1>2, <1>4, <1>6, <1>7, OthersKeep DEF EnrollInv

LEMMA WriteBinKeeps ==
    ASSUME OneCamera, EnrollInv, NEW p \in Procs, WriteBin(p)
    PROVE  EnrollInv'
<1> DEFINE e == made[p]
<1>1. PICK upto \in (off[p] + 1)..Len(serializeEmbeddings(e)) :
           /\ disk' = [disk EXCEPT ![fd[p]] =
                 WriteAt(@, off[p], SubSeq(serializeEmbeddings(e), off[p] + 1, upto), Hole)]
           /\ off' = [off EXCEPT ![p] = upto]
  BY DEF WriteBin
<1>2. pc[p] = "write_bin" /\ UNCHANGED <<config, camera, pc, using, made, fd, said>>
  BY DEF WriteBin
<1>3. \A q \in Procs \ {p} : pc[q] \notin Streaming
  BY <1>2, OnlyOneStreams DEF Streaming, Saving
<1>4. Alone(p) /\ Shape'
  BY <1>1, <1>2, <1>3 DEF Alone, EnrollInv, Shape, Streaming, Saving
<1>5. e.count \in Nat
  BY <1>2 DEF EnrollInv, ProcInv, Counted, Saving
<1>6. Len(serializeEmbeddings(e)) = e.count + 1
  BY <1>5 DEF serializeEmbeddings
<1>7. off'[p] = upto /\ \A i \in Inodes : i # fd[p] => disk'[i] = disk[i]
  BY <1>1 DEF EnrollInv, Shape
<1>8. CASE fd[p] \in Inodes
  <2>1. off[p] \in Nat /\ disk[fd[p]] = Part(e, off[p])
    BY <1>2, <1>8 DEF EnrollInv, ProcInv, Wrote
  <2>2. disk'[fd[p]] = WriteAt(disk[fd[p]], off[p],
                               SubSeq(serializeEmbeddings(e), off[p] + 1, upto), Hole)
    BY <1>1, <1>8 DEF EnrollInv, Shape
  <2>3. upto \in (off[p] + 1)..(e.count + 1) /\ upto \in Nat
    BY <1>5, <1>6, <2>1
  <2>4. disk'[fd[p]] = Part(e, upto)
    BY <1>5, <2>1, <2>2, <2>3, WriteOn
  <2>5. Wrote(p)'
    BY <1>2, <1>7, <2>3, <2>4 DEF Wrote
  <2>6. \A j \in DOMAIN disk'[fd[p]] : disk'[fd[p]][j].of = e
    BY <2>4 DEF Part
  <2>7. NoMixedTemplates'
    BY <1>7, <1>8, <2>6 DEF EnrollInv, NoMixedTemplates
  <2> QED BY <1>2, <1>4, <2>5, <2>7, OthersKeep
          DEF EnrollInv, ProcInv, Lock, Aims, Opened, Counted, Silent
<1>9. CASE fd[p] \notin Inodes
  <2>1. NoMixedTemplates'
    BY <1>7, <1>9 DEF EnrollInv, NoMixedTemplates
  <2>2. Wrote(p)'
    BY <1>2, <1>9 DEF Wrote
  <2> QED BY <1>2, <1>4, <2>1, <2>2, OthersKeep
          DEF EnrollInv, ProcInv, Lock, Aims, Opened, Counted, Silent
<1> QED BY <1>8, <1>9

LEMMA UnlinkKeeps ==
    ASSUME EnrollInv, NEW p \in Procs, UnlinkBin(p)
    PROVE  EnrollInv'
<1>1. /\ disk' = [i \in Inodes |->
                    IF i = bin /\ \A q \in Procs : fd[q] # i THEN <<>> ELSE disk[i]]
      /\ pc[p] = "unlink_bin" /\ pc' = [pc EXCEPT ![p] = "unlink_meta"]
      /\ UNCHANGED <<config, camera, using, made, fd, off, said>>
  BY DEF UnlinkBin, Goto, saveVars
<1>2. \A q \in Procs : fd[q] \in Inodes => disk'[fd[q]] = disk[fd[q]]
  BY <1>1
<1>3. Alone(p) /\ Shape'
  BY <1>1, <1>2 DEF Alone, EnrollInv, Shape
<1>4. pc'[p] = "unlink_meta"
  BY <1>1 DEF EnrollInv, Shape
<1>5. ProcInv(p)'
  BY <1>1, <1>4
     DEF EnrollInv, ProcInv, Lock, Aims, Opened, Wrote, Counted, Silent, Streaming, Saving
<1>6. NoMixedTemplates'
  BY <1>1 DEF EnrollInv, NoMixedTemplates
<1> QED BY <1>1, <1>3, <1>5, <1>6, OthersKeep DEF EnrollInv

LEMMA BeginKeeps ==
    ASSUME EnrollInv, NEW p \in Procs, Begin(p)
    PROVE  EnrollInv'
<1>1. PICK step \in {"check", "unlink_bin", "load_config"} : pc' = [pc EXCEPT ![p] = step]
  BY DEF Begin, Goto
<1>2. /\ pc[p] = "idle" /\ said' = [said EXCEPT ![p] = "none"]
      /\ UNCHANGED <<config, camera, disk, using, made, fd, off>>
  BY DEF Begin, saveVars, storeVars
<1>3. pc'[p] = step /\ said'[p] = "none"
  BY <1>1, <1>2 DEF EnrollInv, Shape
<1>4. Alone(p) /\ Shape'
  BY <1>1, <1>2 DEF Alone, EnrollInv, Shape
<1>5. ProcInv(p)'
  BY <1>2, <1>3
     DEF EnrollInv, ProcInv, Lock, Aims, Opened, Wrote, Counted, Silent, Streaming, Saving
<1>6. NoMixedTemplates'
  BY <1>2 DEF EnrollInv, NoMixedTemplates
<1> QED BY <1>2, <1>4, <1>5, <1>6, OthersKeep DEF EnrollInv

\* The recording is over: what is to be saved is made of it, and nothing is open yet.
LEMMA RecordKeeps ==
    ASSUME EnrollInv, NEW p \in Procs, Record(p)
    PROVE  EnrollInv'
<1>1. CASE End(p, "error")
  BY <1>1, EndKeeps DEF Record, storeVars, EnrollInv
<1>2. CASE ~End(p, "error")
  <2>1. PICK n \in Frames : \E count \in TemplateCounts(n) :
               made' = [made EXCEPT ![p] = [by |-> p, model |-> using[p].model,
                                            mode |-> using[p].mode, count |-> count]]
    BY <1>2 DEF Record
  <2>2. PICK count \in TemplateCounts(n) :
               made' = [made EXCEPT ![p] = [by |-> p, model |-> using[p].model,
                                            mode |-> using[p].mode, count |-> count]]
    BY <2>1
  <2>3. /\ pc[p] = "record" /\ pc' = [pc EXCEPT ![p] = "mkdir"]
        /\ UNCHANGED <<config, disk, camera, using, fd, off, said>>
    BY <1>2 DEF Record, Goto, KeepCamera, storeVars
  <2>4. count \in Nat
    BY DEF TemplateCounts
  <2>5. pc'[p] = "mkdir" /\ made'[p].count \in Nat
    BY <2>2, <2>3, <2>4 DEF EnrollInv, Shape
  <2>6. Alone(p) /\ Shape'
    BY <2>2, <2>3 DEF Alone, EnrollInv, Shape
  <2>7. ProcInv(p)'
    BY <2>3, <2>5
       DEF EnrollInv, ProcInv, Lock, Aims, Opened, Wrote, Counted, Silent, Streaming, Saving
  <2>8. NoMixedTemplates'
    BY <2>3 DEF EnrollInv, NoMixedTemplates
  <2> QED BY <2>3, <2>6, <2>7, <2>8, OthersKeep DEF EnrollInv
<1> QED BY <1>1, <1>2

\* embedding.bin is closed.
LEMMA OpenMetaKeeps ==
    ASSUME EnrollInv, NEW p \in Procs, OpenMeta(p)
    PROVE  EnrollInv'
<1>1. /\ pc[p] = "write_bin" /\ pc' = [pc EXCEPT ![p] = "write_meta"]
      /\ fd' = [fd EXCEPT ![p] = None]
      /\ UNCHANGED <<config, disk, camera, using, made, off, said>>
  BY DEF OpenMeta, Goto
<1>2. pc'[p] = "write_meta" /\ fd'[p] = None
  BY <1>1 DEF EnrollInv, Shape
<1>3. Alone(p) /\ Shape'
  BY <1>1 DEF Alone, EnrollInv, Shape
<1>4. ProcInv(p)'
  BY <1>1, <1>2
     DEF EnrollInv, ProcInv, Lock, Aims, Opened, Wrote, Counted, Silent, Streaming, Saving
<1>5. NoMixedTemplates'
  BY <1>1 DEF EnrollInv, NoMixedTemplates
<1> QED BY <1>1, <1>3, <1>4, <1>5, OthersKeep DEF EnrollInv

LEMMA ConfigureKeeps ==
    ASSUME EnrollInv, NEW p \in Procs, Configure(p)
    PROVE  EnrollInv'
<1>1. CASE End(p, "error")
  BY <1>1, EndKeeps DEF Configure, storeVars, EnrollInv
<1>2. CASE ~End(p, "error")
  <2>1. PICK setup \in Setups : /\ using' = [using EXCEPT ![p] = setup]
                                /\ config' \in {config, setup}
    BY <1>2 DEF Configure
  <2>2. /\ pc[p] = "configure" /\ Goto(p, "open_enroll")
        /\ UNCHANGED <<disk, camera, made, fd, off, said>>
    BY <1>2 DEF Configure, storeVars, saveVars
  <2>3. using'[p].device \in Devices
    BY <2>1 DEF Setups, EnrollInv, Shape
  <2>4. config' \in Setups /\ fd[p] = None
    BY <2>1, <2>2 DEF EnrollInv, ProcInv, Opened
  <2>5. /\ using' = [q \in Procs |-> using'[q]]
        /\ \A q \in Procs \ {p} : using'[q] = using[q]
    BY <2>1 DEF EnrollInv, Shape
  <2> QED BY <2>2, <2>3, <2>4, <2>5, GotoKeeps DEF Streaming, Saving
<1> QED BY <1>1, <1>2

LEMMA LoadConfigKeeps ==
    ASSUME EnrollInv, NEW p \in Procs, LoadConfig(p)
    PROVE  EnrollInv'
<1>1. CASE End(p, "unavailable")
  BY <1>1, EndKeeps DEF LoadConfig, storeVars, EnrollInv
<1>2. CASE ~End(p, "unavailable")
  <2>1. /\ using' = [using EXCEPT ![p] = config]
        /\ pc[p] = "load_config" /\ Goto(p, "load_all")
        /\ UNCHANGED <<config, disk, camera, made, fd, off, said>>
    BY <1>2 DEF LoadConfig, storeVars, saveVars
  <2>2. using'[p].device \in Devices
    BY <2>1 DEF Setups, EnrollInv, Shape
  <2>3. config' \in Setups /\ fd[p] = None
    BY <2>1 DEF EnrollInv, ProcInv, Opened
  <2>4. /\ using' = [q \in Procs |-> using'[q]]
        /\ \A q \in Procs \ {p} : using'[q] = using[q]
    BY <2>1 DEF EnrollInv, Shape
  <2> QED BY <2>1, <2>2, <2>3, <2>4, GotoKeeps DEF Streaming, Saving
<1> QED BY <1>1, <1>2

\* The steps that only move on, from one step to the next.
LEMMA MoveKeeps ==
    ASSUME EnrollInv, NEW p \in Procs, NEW step, Goto(p, step),
           UNCHANGED <<config, disk, camera, using, made, fd, off, said>>,
           \/ pc[p] = "check" /\ step = "configure"
           \/ pc[p] = "mkdir" /\ step = "open_bin"
           \/ pc[p] = "unlink_meta" /\ step = "rmdir"
           \/ pc[p] = "load_all" /\ step = "open_verify"
    PROVE  EnrollInv'
<1>1. fd[p] = None /\ config' \in Setups /\ using' = [q \in Procs |-> using'[q]]
  BY DEF EnrollInv, ProcInv, Opened, Shape
<1>2. step = "open_verify" => using'[p].device \in Devices
  BY DEF EnrollInv, ProcInv, Aims
<1> QED BY <1>1, <1>2, GotoKeeps DEF Streaming, Saving

LEMMA SameKeeps ==
    ASSUME EnrollInv, UNCHANGED <<disk, camera, pc, using, made, fd, off, said>>,
           config' \in Setups
    PROVE  EnrollInv'
<1>1. Shape'
  BY DEF EnrollInv, Shape
<1>2. ASSUME NEW p \in Procs PROVE ProcInv(p)'
  <2>1. Lock(p)' /\ Aims(p)' /\ Opened(p)'
    BY DEF EnrollInv, ProcInv, Lock, Aims, Opened
  <2>2. Wrote(p)'
    BY DEF EnrollInv, ProcInv, Wrote
  <2>3. Counted(p)' /\ Silent(p)'
    BY DEF EnrollInv, ProcInv, Counted, Silent
  <2> QED BY <2>1, <2>2, <2>3 DEF ProcInv
<1>3. NoMixedTemplates'
  BY DEF EnrollInv, NoMixedTemplates
<1> QED BY <1>1, <1>2, <1>3 DEF EnrollInv

LEMMA EnrollStepKeeps == OneCamera /\ EnrollInv /\ [Next]_vars => EnrollInv'
<1> SUFFICES ASSUME OneCamera, EnrollInv, [Next]_vars PROVE EnrollInv'
  OBVIOUS
<1>1. ASSUME NEW p \in Procs, NEW ending, End(p, ending), UNCHANGED <<config, disk>>
      PROVE  EnrollInv'
  BY <1>1, EndKeeps DEF EnrollInv
<1>2. ASSUME NEW p \in Procs, EnrollStep(p) PROVE EnrollInv'
  <2>1. CASE CheckEnrolled(p)
    <3>1. \/ End(p, "error")
          \/ Goto(p, "configure") /\ UNCHANGED <<camera, using, saveVars, verifyVars, said>>
      BY <2>1 DEF CheckEnrolled
    <3>2. pc[p] = "check" /\ UNCHANGED <<config, disk>>
      BY <2>1 DEF CheckEnrolled, storeVars
    <3> QED BY <1>1, <3>1, <3>2, MoveKeeps DEF saveVars
  <2>2. CASE OpenEnroll(p)
    BY <2>2, OpenKeeps DEF OpenEnroll, storeVars
  <2>3. CASE MkDir(p)
    BY <2>3, MoveKeeps DEF MkDir, saveVars
  <2>4. CASE WriteMeta(p) \/ SaveFails(p)
    BY <1>1, <2>4 DEF WriteMeta, SaveFails, storeVars
  <2> QED BY <1>2, <2>1, <2>2, <2>3, <2>4, ConfigureKeeps, RecordKeeps, OpenBinKeeps,
             WriteBinKeeps, OpenMetaKeeps DEF EnrollStep
<1>3. ASSUME NEW p \in Procs, DeleteStep(p) PROVE EnrollInv'
  <2>1. CASE UnlinkMeta(p)
    BY <2>1, MoveKeeps DEF UnlinkMeta, saveVars
  <2>2. CASE RmDir(p)
    <3>1. \E ending : End(p, ending)
      BY <2>2 DEF RmDir
    <3> QED BY <1>1, <2>2, <3>1 DEF RmDir
  <2> QED BY <1>3, <2>1, <2>2, UnlinkKeeps DEF DeleteStep
<1>4. ASSUME NEW p \in Procs, VerifyStep(p) PROVE EnrollInv'
  <2>1. CASE LoadAll(p)
    <3>1. \/ End(p, "unavailable")
          \/ Goto(p, "open_verify") /\ UNCHANGED <<camera, using, saveVars, said>>
      BY <2>1 DEF LoadAll
    <3>2. pc[p] = "load_all" /\ UNCHANGED <<config, disk>>
      BY <2>1 DEF LoadAll, storeVars
    <3> QED BY <1>1, <3>1, <3>2, MoveKeeps DEF saveVars
  <2>2. CASE OpenVerify(p)
    BY <2>2, OpenKeeps DEF OpenVerify, storeVars
  <2>3. CASE SeesNobody(p) \/ Compares(p) \/ Throws(p) \/ RunsOut(p)
    <3>1. \/ \E ending : End(p, ending)
          \/ UNCHANGED <<camera, pc, using, made, fd, off, said>>
      BY <2>3 DEF SeesNobody, Compares, Throws, RunsOut, saveVars
    <3>2. UNCHANGED <<config, disk>>
      BY <2>3 DEF SeesNobody, Compares, Throws, RunsOut, storeVars
    <3>3. CASE UNCHANGED <<camera, pc, using, made, fd, off, said>>
      BY <3>2, <3>3, SameKeeps DEF EnrollInv
    <3> QED BY <1>1, <3>1, <3>2, <3>3
  <2> QED BY <1>4, <2>1, <2>2, <2>3, LoadConfigKeeps DEF VerifyStep
<1>5. ASSUME NEW p \in Procs, Kill(p) PROVE EnrollInv'
  BY <1>1, <1>5 DEF Kill, storeVars
<1>6. CASE WriteConfig \/ UNCHANGED vars
  <2>1. config' \in Setups
           /\ UNCHANGED <<disk, camera, pc, using, made, fd, off, said>>
    BY <1>6 DEF WriteConfig, vars, storeVars, procVars, saveVars, EnrollInv
  <2> QED BY <2>1, SameKeeps
<1> QED BY <1>2, <1>3, <1>4, <1>5, <1>6, BeginKeeps DEF Next, Step

LEMMA InitEnroll == Init => EnrollInv
<1> SUFFICES ASSUME Init PROVE EnrollInv
  OBVIOUS
<1>1. Shape /\ config \in Setups
  BY DEF Init, Shape
<1>2. ASSUME NEW p \in Procs PROVE ProcInv(p)
  BY DEF Init, ProcInv, Lock, Aims, Opened, Wrote, Counted, Silent, Streaming, Saving
<1>3. NoMixedTemplates
  <2>1. CASE disk = [i \in Inodes |-> <<>>]
    BY <2>1 DEF NoMixedTemplates
  <2>2. CASE \E e : disk = [i \in Inodes |-> IF i = 1 THEN serializeEmbeddings(e) ELSE <<>>]
    BY <2>2 DEF NoMixedTemplates, serializeEmbeddings
  <2> QED BY <2>1, <2>2 DEF Init
<1> QED BY <1>1, <1>2, <1>3 DEF EnrollInv

\* With one camera, whatever enrolments, deletions, kills and failures interleave: no file
\* ever holds parts of two captures, since a capture keeps the camera until its save is
\* over (runEnroll) and the device has one streaming process.
THEOREM CameraIsTheLock ==
    ASSUME OneCamera
    PROVE  Spec => []NoMixedTemplates
<1>1. EnrollInv => NoMixedTemplates
  BY DEF EnrollInv
<1> QED BY <1>1, InitEnroll, EnrollStepKeeps, PTL DEF Spec

-----------------------------------------------------------------------------
(* meta.json and embedding.bin agree                                         *)

Current == IF bin = None THEN None ELSE InForce(disk[bin])

\* Commands between their first and their last change to the two files.
Between == {"write_bin", "write_meta", "unlink_meta"}

AgreeInv ==
    calm = "yes" =>
        /\ \A p, q \in Procs : pc[p] \in Saving => pc[q] \notin Deleting
        /\ \A p \in Procs :
             /\ pc[p] = "write_bin" => bin = fd[p] /\ bin \in Inodes
             /\ pc[p] = "write_meta" => meta = Garbage /\ Current = made[p]
             /\ pc[p] = "unlink_meta" => bin = None
             /\ pc[p] = "rmdir" => bin = None /\ meta = None
        /\ (\A p \in Procs : pc[p] \notin Between) => meta = Current

LEMMA WholeInForce ==
    ASSUME NEW e, e.count \in Nat
    PROVE  InForce(serializeEmbeddings(e)) = e
<1> DEFINE file == serializeEmbeddings(e)
<1>1. file = [k \in 1..(e.count + 1) |-> [of |-> e, n |-> k - 1]]
  BY DEF serializeEmbeddings
<1>2. 1 \in DOMAIN file /\ file[1].of = e
  BY <1>1
<1>3. file # <<>>
  BY <1>2
<1> QED BY <1>2, <1>3 DEF InForce

\* A command ends that has nothing under way, or is cut off.
LEMMA EndAgrees ==
    ASSUME EnrollInv, AgreeInv, NEW p \in Procs, NEW ending, End(p, ending),
           UNCHANGED <<bin, disk, meta>>,
           pc[p] \in Between => ending = "cut_off"
    PROVE  AgreeInv'
<1> SUFFICES ASSUME calm' = "yes" PROVE AgreeInv'
  BY DEF AgreeInv
<1>1. calm = "yes" /\ ending # "cut_off"
  BY DEF End, Exit
<1>2. /\ pc'[p] = "idle" /\ \A q \in Procs \ {p} : pc'[q] = pc[q]
      /\ \A q \in Procs \ {p} : fd'[q] = fd[q] /\ made'[q] = made[q]
  BY DEF End, Exit, EnrollInv, Shape
<1>3. Current' = Current
  BY DEF Current, InForce
<1>4. \A q \in Procs : pc'[q] = "idle" \/ (pc'[q] = pc[q] /\ q # p)
  BY <1>2
<1>5. (\A q \in Procs : pc'[q] \notin Between) => (\A q \in Procs : pc[q] \notin Between)
  BY <1>1, <1>2
<1> QED BY <1>1, <1>2, <1>3, <1>4, <1>5 DEF AgreeInv, Saving, Deleting

\* A command goes from one step to another at which nothing is under way.
LEMMA GotoAgrees ==
    ASSUME EnrollInv, AgreeInv, NEW p \in Procs, NEW step, Goto(p, step),
           UNCHANGED <<bin, disk, meta>>,
           \A q \in Procs \ {p} : fd'[q] = fd[q] /\ made'[q] = made[q],
           pc[p] \notin Between, step \notin Between, step # "rmdir"
    PROVE  AgreeInv'
<1> SUFFICES ASSUME calm' = "yes" PROVE AgreeInv'
  BY DEF AgreeInv
<1>1. calm = "yes" /\ ~Overlap(p, step)
  BY DEF Goto
<1>2. pc'[p] = step /\ \A q \in Procs \ {p} : pc'[q] = pc[q]
  BY DEF Goto, EnrollInv, Shape
<1>3. Current' = Current
  BY DEF Current, InForce
<1>4. (\A q \in Procs : pc'[q] \notin Between) => (\A q \in Procs : pc[q] \notin Between)
  BY <1>2
<1>5. \A q, r \in Procs : pc'[q] \in Saving => pc'[r] \notin Deleting
  <2>1. Saving \cap Deleting = {}
    BY DEF Saving, Deleting
  <2> QED BY <1>1, <1>2, <2>1 DEF Overlap, AgreeInv
<1> QED BY <1>1, <1>2, <1>3, <1>4, <1>5 DEF AgreeInv, Between

\* Only the camera's holder writes, so an inode without a name is there for it.
LEMMA InodeFree ==
    ASSUME OneCamera, EnrollInv, NEW p \in Procs, pc[p] = "open_bin", bin = None
    PROVE  FreeInode \in Inodes
<1>1. \A q \in Procs : fd[q] = None
  BY OnlyOneStreams DEF EnrollInv, ProcInv, Opened, Streaming, Saving
<1>2. 1 \in Inodes /\ 1 # None
  <2>1. Cardinality(Procs) \in Nat
    BY ProcsAssumption, FS_CardinalityType
  <2> QED BY <2>1, NoneAssumption DEF Inodes
<1>3. \E i \in Inodes : i # bin /\ \A q \in Procs : i # fd[q]
  BY <1>1, <1>2
<1> QED BY <1>3 DEF FreeInode

\* While one process saves, no other does.
LEMMA OnlyOneSaves ==
    ASSUME OneCamera, EnrollInv, NEW p \in Procs, pc[p] \in Saving,
           NEW q \in Procs \ {p}
    PROVE  pc[q] \notin Saving
  BY OnlyOneStreams DEF Streaming

\* The name refers to an inode, if there is one.
Named == bin \in Inodes \cup {None}

LEMMA NamedStep ==
    ASSUME OneCamera, EnrollInv, Named, [Next]_vars
    PROVE  Named'
<1>1. ASSUME NEW p \in Procs, OpenBin(p) PROVE Named'
  BY <1>1, InodeFree DEF OpenBin, Named
<1>2. ASSUME NEW p \in Procs, UnlinkBin(p) PROVE Named'
  BY <1>2 DEF UnlinkBin, Named
<1>3. CASE \A p \in Procs : ~OpenBin(p) /\ ~UnlinkBin(p)
  <2>1. UNCHANGED bin
    BY <1>3 DEF Next, Step, EnrollStep, DeleteStep, VerifyStep, Begin, Kill, WriteConfig, vars,
       storeVars, CheckEnrolled, Configure, OpenEnroll, Record, MkDir, WriteBin, OpenMeta,
       WriteMeta, SaveFails, UnlinkMeta, RmDir, LoadConfig, LoadAll, OpenVerify, SeesNobody,
       Compares, Throws, RunsOut
  <2> QED BY <2>1 DEF Named, Inodes
<1> QED BY <1>1, <1>2, <1>3

LEMMA OpenBinAgrees ==
    ASSUME OneCamera, EnrollInv, AgreeInv, NEW p \in Procs, OpenBin(p), Named
    PROVE  AgreeInv'
<1> SUFFICES ASSUME calm' = "yes" PROVE AgreeInv'
  BY DEF AgreeInv
<1>1. /\ pc[p] = "open_bin" /\ Goto(p, "write_bin") /\ fd' = [fd EXCEPT ![p] = bin']
      /\ bin' = IF bin = None THEN FreeInode ELSE bin
      /\ UNCHANGED <<meta, made>>
  BY DEF OpenBin
<1>2. calm = "yes" /\ ~Overlap(p, "write_bin")
  BY <1>1 DEF Goto
<1>3. pc'[p] = "write_bin" /\ \A q \in Procs \ {p} : pc'[q] = pc[q]
  BY <1>1 DEF Goto, EnrollInv, Shape
<1>4. bin' \in Inodes /\ fd'[p] = bin'
  BY <1>1, InodeFree DEF EnrollInv, Shape, Named
<1>5. \A q \in Procs \ {p} : pc'[q] \notin Saving \cup Deleting
  BY <1>1, <1>2, <1>3, OnlyOneSaves DEF AgreeInv, Saving
<1> QED BY <1>3, <1>4, <1>5 DEF AgreeInv, Saving, Deleting, Between

LEMMA WriteBinAgrees ==
    ASSUME OneCamera, EnrollInv, AgreeInv, NEW p \in Procs, WriteBin(p)
    PROVE  AgreeInv'
<1> SUFFICES ASSUME calm' = "yes" PROVE AgreeInv'
  BY DEF AgreeInv
<1>1. pc[p] = "write_bin" /\ calm = "yes" /\ UNCHANGED <<pc, bin, meta, fd, made>>
  BY DEF WriteBin
<1>2. \A q \in Procs \ {p} : pc[q] \notin Saving \cup Deleting
  BY <1>1, OnlyOneSaves DEF AgreeInv, Saving
<1> QED BY <1>1, <1>2 DEF AgreeInv, Saving, Deleting, Between

LEMMA OpenMetaAgrees ==
    ASSUME OneCamera, EnrollInv, AgreeInv, NEW p \in Procs, OpenMeta(p)
    PROVE  AgreeInv'
<1> SUFFICES ASSUME calm' = "yes" PROVE AgreeInv'
  BY DEF AgreeInv
<1>1. /\ pc[p] = "write_bin" /\ off[p] = made[p].count + 1 /\ meta' = Garbage
      /\ Goto(p, "write_meta") /\ UNCHANGED <<bin, disk, made>>
  BY DEF OpenMeta
<1>2. calm = "yes" /\ pc'[p] = "write_meta" /\ \A q \in Procs \ {p} : pc'[q] = pc[q]
  BY <1>1 DEF Goto, EnrollInv, Shape
<1>3. \A q \in Procs \ {p} : pc'[q] \notin Saving \cup Deleting
  BY <1>1, <1>2, OnlyOneSaves DEF AgreeInv, Saving
<1>4. made[p].count \in Nat /\ bin \in Inodes /\ bin # None
  <2>1. Inodes \subseteq Nat
    BY DEF Inodes
  <2> QED BY <1>1, <1>2, <2>1, NoneAssumption DEF EnrollInv, ProcInv, Counted, Saving, AgreeInv
<1>5. disk[bin] = serializeEmbeddings(made[p])
  BY <1>1, <1>2, <1>4 DEF EnrollInv, ProcInv, Wrote, AgreeInv, Part, serializeEmbeddings
<1>6. Current' = made'[p]
  BY <1>1, <1>4, <1>5, WholeInForce DEF Current
<1> QED BY <1>1, <1>2, <1>3, <1>6 DEF AgreeInv, Saving, Deleting, Between

LEMMA WriteMetaAgrees ==
    ASSUME OneCamera, EnrollInv, AgreeInv, NEW p \in Procs, WriteMeta(p)
    PROVE  AgreeInv'
<1> SUFFICES ASSUME calm' = "yes" PROVE AgreeInv'
  BY DEF AgreeInv
<1>1. /\ pc[p] = "write_meta" /\ meta' = IF meta = None THEN None ELSE made[p]
      /\ End(p, "ok") /\ UNCHANGED <<bin, disk>>
  BY DEF WriteMeta
<1>2. calm = "yes" /\ pc'[p] = "idle" /\ \A q \in Procs \ {p} : pc'[q] = pc[q]
  BY <1>1 DEF End, Exit, EnrollInv, Shape
<1>3. \A q \in Procs \ {p} : pc'[q] \notin Saving \cup Deleting
  BY <1>1, <1>2, OnlyOneSaves DEF AgreeInv, Saving
<1>4. meta' = made[p] /\ Current = made[p]
  BY <1>1, <1>2, NoneAssumption DEF AgreeInv
<1>5. Current' = Current
  BY <1>1 DEF Current, InForce
<1> QED BY <1>2, <1>3, <1>4, <1>5 DEF AgreeInv, Saving, Deleting, Between

LEMMA UnlinkBinAgrees ==
    ASSUME EnrollInv, AgreeInv, NEW p \in Procs, UnlinkBin(p)
    PROVE  AgreeInv'
<1> SUFFICES ASSUME calm' = "yes" PROVE AgreeInv'
  BY DEF AgreeInv
<1>1. pc[p] = "unlink_bin" /\ bin' = None /\ Goto(p, "unlink_meta") /\ UNCHANGED meta
  BY DEF UnlinkBin
<1>2. calm = "yes" /\ pc'[p] = "unlink_meta" /\ \A q \in Procs \ {p} : pc'[q] = pc[q]
  BY <1>1 DEF Goto, EnrollInv, Shape
<1>3. \A q \in Procs : pc'[q] \notin Saving
  BY <1>1, <1>2 DEF AgreeInv, Saving, Deleting
<1> QED BY <1>1, <1>2, <1>3 DEF AgreeInv, Saving, Between

LEMMA UnlinkMetaAgrees ==
    ASSUME EnrollInv, AgreeInv, NEW p \in Procs, UnlinkMeta(p)
    PROVE  AgreeInv'
<1> SUFFICES ASSUME calm' = "yes" PROVE AgreeInv'
  BY DEF AgreeInv
<1>1. /\ pc[p] = "unlink_meta" /\ meta' = None /\ Goto(p, "rmdir") /\ UNCHANGED <<bin, disk>>
  BY DEF UnlinkMeta
<1>2. calm = "yes" /\ pc'[p] = "rmdir" /\ \A q \in Procs \ {p} : pc'[q] = pc[q]
  BY <1>1 DEF Goto, EnrollInv, Shape
<1>3. \A q \in Procs : pc'[q] \notin Saving
  BY <1>1, <1>2 DEF AgreeInv, Saving, Deleting
<1>4. bin' = None /\ Current' = None
  BY <1>1, <1>2 DEF AgreeInv, Current
<1> QED BY <1>1, <1>2, <1>3, <1>4 DEF AgreeInv, Saving, Between

LEMMA AgreeStep ==
    ASSUME OneCamera, EnrollInv, Named, AgreeInv, [Next]_vars
    PROVE  AgreeInv'
<1>1. ASSUME NEW p \in Procs, NEW ending, End(p, ending), UNCHANGED <<bin, disk, meta>>,
             pc[p] \notin Between
      PROVE  AgreeInv'
  BY <1>1, EndAgrees
<1>2. ASSUME NEW p \in Procs, NEW step, Goto(p, step), UNCHANGED <<bin, disk, meta>>,
             \A q \in Procs \ {p} : fd'[q] = fd[q] /\ made'[q] = made[q],
             pc[p] \notin Between, step \notin Between, step # "rmdir"
      PROVE  AgreeInv'
  BY <1>2, GotoAgrees
<1>3. ASSUME NEW p \in Procs, Begin(p) PROVE AgreeInv'
  BY <1>2, <1>3 DEF Begin, storeVars, saveVars, Between
<1>4. ASSUME NEW p \in Procs, EnrollStep(p) PROVE AgreeInv'
  <2>1. CASE CheckEnrolled(p)
    BY <1>1, <1>2, <2>1 DEF CheckEnrolled, storeVars, saveVars, Between
  <2>2. CASE Configure(p)
    BY <1>1, <1>2, <2>2 DEF Configure, storeVars, saveVars, Between
  <2>3. CASE OpenEnroll(p)
    BY <1>1, <1>2, <2>3 DEF OpenEnroll, OpenCamera, storeVars, saveVars, Between
  <2>4. CASE Record(p)
    <3>1. pc[p] = "record" /\ UNCHANGED <<bin, disk, meta>>
      BY <2>4 DEF Record, storeVars
    <3>2. \/ End(p, "error")
          \/ /\ Goto(p, "mkdir") /\ UNCHANGED fd
             /\ \E e : made' = [made EXCEPT ![p] = e]
      BY <2>4 DEF Record
    <3>3. CASE End(p, "error")
      BY <1>1, <3>1, <3>3 DEF Between
    <3>4. CASE Goto(p, "mkdir") /\ UNCHANGED fd /\ \E e : made' = [made EXCEPT ![p] = e]
      <4>1. \A q \in Procs \ {p} : fd'[q] = fd[q] /\ made'[q] = made[q]
        BY <3>4 DEF EnrollInv, Shape
      <4> QED BY <1>2, <3>1, <3>4, <4>1 DEF Between
    <3> QED BY <3>2, <3>3, <3>4
  <2>5. CASE MkDir(p)
    BY <1>2, <2>5 DEF MkDir, saveVars, Between
  <2>6. CASE SaveFails(p)
    BY <2>6, EndAgrees DEF SaveFails, storeVars
  <2> QED BY <1>4, <2>1, <2>2, <2>3, <2>4, <2>5, <2>6, OpenBinAgrees, WriteBinAgrees,
             OpenMetaAgrees, WriteMetaAgrees DEF EnrollStep
<1>5. ASSUME NEW p \in Procs, DeleteStep(p) PROVE AgreeInv'
  <2>1. CASE RmDir(p)
    BY <1>1, <2>1 DEF RmDir, Between
  <2> QED BY <1>5, <2>1, UnlinkBinAgrees, UnlinkMetaAgrees DEF DeleteStep
<1>6. ASSUME UNCHANGED <<bin, disk, meta, pc, fd, made, calm>> PROVE AgreeInv'
  BY <1>6 DEF AgreeInv, Current, InForce, Inodes
<1>7. ASSUME NEW p \in Procs, VerifyStep(p) PROVE AgreeInv'
  <2>1. CASE LoadConfig(p)
    BY <1>1, <1>2, <2>1 DEF LoadConfig, storeVars, saveVars, Between
  <2>2. CASE LoadAll(p)
    BY <1>1, <1>2, <2>2 DEF LoadAll, storeVars, saveVars, Between
  <2>3. CASE OpenVerify(p)
    BY <1>1, <1>2, <2>3 DEF OpenVerify, OpenCamera, storeVars, saveVars, Between
  <2>4. CASE SeesNobody(p) \/ Compares(p) \/ Throws(p) \/ RunsOut(p)
    BY <1>1, <1>6, <2>4
       DEF SeesNobody, Compares, Throws, RunsOut, storeVars, saveVars, Between
  <2> QED BY <1>7, <2>1, <2>2, <2>3, <2>4 DEF VerifyStep
<1>8. ASSUME NEW p \in Procs, Kill(p) PROVE AgreeInv'
  BY <1>8, EndAgrees DEF Kill, storeVars
<1>9. CASE WriteConfig \/ UNCHANGED vars
  BY <1>6, <1>9 DEF WriteConfig, vars, storeVars, procVars, saveVars
<1> QED BY <1>3, <1>4, <1>5, <1>7, <1>8, <1>9 DEF Next, Step

LEMMA InitAgree == Init => Named /\ AgreeInv
<1> SUFFICES ASSUME Init PROVE Named /\ AgreeInv
  OBVIOUS
<1>1. 1 \in Inodes /\ 1 # None
  <2>1. Cardinality(Procs) \in Nat
    BY ProcsAssumption, FS_CardinalityType
  <2> QED BY <2>1, NoneAssumption DEF Inodes
<1>2. bin \in {None, 1}
  BY DEF Init
<1>3. meta = Current
  <2>1. CASE bin = None
    BY <1>1, <2>1 DEF Init, Current
  <2>2. CASE bin # None
    <3>1. PICK s \in Setups :
             LET old == [by |-> None, model |-> s.model, mode |-> s.mode, count |-> 1] IN
             /\ bin = 1 /\ meta = old
             /\ disk = [i \in Inodes |-> IF i = 1 THEN serializeEmbeddings(old) ELSE <<>>]
      BY <2>2 DEF Init
    <3>2. meta.count \in Nat /\ disk[bin] = serializeEmbeddings(meta)
      BY <1>1, <3>1
    <3> QED BY <2>2, <3>2, WholeInForce DEF Current
  <2> QED BY <2>1, <2>2
<1> QED BY <1>1, <1>2, <1>3 DEF Init, Named, AgreeInv, Saving, Deleting

\* With one camera, for any number of commands: as long as none is cut off and no save and
\* deletion overlap, what --status reads (meta.json) and what a login reads (embedding.bin)
\* say the same, though saveAll and remove treat the two files one after the other.
THEOREM StatusAgrees ==
    ASSUME OneCamera
    PROVE  Spec => []StatusAgreesWithLogin
<1>1. AgreeInv => StatusAgreesWithLogin
  BY DEF AgreeInv, StatusAgreesWithLogin, Current, Between, Saving, Deleting
<1>2. EnrollInv /\ Named /\ AgreeInv /\ [Next]_vars => (EnrollInv /\ Named /\ AgreeInv)'
  BY EnrollStepKeeps, NamedStep, AgreeStep
<1> QED BY <1>1, <1>2, InitEnroll, InitAgree, PTL DEF Spec

-----------------------------------------------------------------------------
(* What a deletion says                                                      *)

\* A command under way has said nothing yet.
SilentInv ==
    /\ pc = [p \in Procs |-> pc[p]] /\ said = [p \in Procs |-> said[p]]
    /\ \A p \in Procs : Silent(p)

\* A step goes on without a word, or ends its command.
LEMMA StepSays ==
    ASSUME NEW p \in Procs, Step(p) \/ Kill(p)
    PROVE  /\ pc[p] # "idle"
           /\ \/ UNCHANGED said /\ (UNCHANGED pc \/ \E step : Goto(p, step))
              \/ \E ending : End(p, ending)
<1>1. CASE EnrollStep(p)
  BY <1>1 DEF EnrollStep, CheckEnrolled, Configure, OpenEnroll, OpenCamera, Record, MkDir, OpenBin,
     WriteBin, OpenMeta, WriteMeta, SaveFails, Saving
<1>2. CASE DeleteStep(p)
  BY <1>2 DEF DeleteStep, UnlinkBin, UnlinkMeta, RmDir
<1>3. CASE VerifyStep(p)
  BY <1>3 DEF VerifyStep, LoadConfig, LoadAll, OpenVerify, OpenCamera, SeesNobody, Compares, Throws,
     RunsOut
<1> QED BY <1>1, <1>2, <1>3 DEF Step, Kill

\* Only rmdir ends a command that is there, and only if it succeeds with "ok".
LEMMA RmDirSays ==
    ASSUME SilentInv, NEW p \in Procs, pc[p] = "rmdir", [Next]_vars, said'[p] = "ok"
    PROVE  bin' = None /\ meta' = None
<1>1. said[p] # "ok"
  BY DEF SilentInv, Silent
<1>2. ASSUME NEW q \in Procs, Begin(q) PROVE said'[p] # "ok"
  BY <1>1, <1>2 DEF Begin, SilentInv
<1>3. ASSUME NEW q \in Procs \ {p}, Step(q) \/ Kill(q) PROVE said'[p] # "ok"
  BY <1>1, <1>3, StepSays DEF End, Exit, SilentInv
<1>4. CASE Kill(p)
  BY <1>4 DEF Kill, End, Exit, SilentInv
<1>5. CASE Step(p)
  <2>1. RmDir(p)
    BY <1>5 DEF Step, EnrollStep, DeleteStep, VerifyStep, CheckEnrolled, Configure, OpenEnroll,
       Record, MkDir, OpenBin, WriteBin, OpenMeta, WriteMeta, SaveFails, Saving, UnlinkBin,
       UnlinkMeta, LoadConfig, LoadAll, OpenVerify, SeesNobody, Compares, Throws, RunsOut
  <2> QED BY <2>1 DEF RmDir, Removed, End, Exit, SilentInv
<1>6. CASE WriteConfig \/ UNCHANGED vars
  BY <1>1, <1>6 DEF WriteConfig, vars, procVars
<1> QED BY <1>2, <1>3, <1>4, <1>5, <1>6 DEF Next

LEMMA SilentStep == SilentInv /\ [Next]_vars => SilentInv'
<1> SUFFICES ASSUME SilentInv, [Next]_vars PROVE SilentInv'
  OBVIOUS
<1>1. ASSUME NEW p \in Procs, Begin(p) PROVE SilentInv'
  BY <1>1 DEF Begin, Goto, SilentInv, Silent
<1>2. ASSUME NEW p \in Procs, Step(p) \/ Kill(p) PROVE SilentInv'
  BY <1>2, StepSays DEF Goto, End, Exit, SilentInv, Silent
<1>3. CASE WriteConfig \/ UNCHANGED vars
  BY <1>3 DEF WriteConfig, vars, procVars, SilentInv, Silent
<1> QED BY <1>1, <1>2, <1>3 DEF Next

\* With any number of cameras and commands, whatever saves between its three steps: a
\* deletion that reports success has left neither file (runDelete, remove).
THEOREM DeletionIsTold == Spec => DeletedMeansGone
<1>1. Init => SilentInv
  BY DEF Init, SilentInv, Silent
<1>2. SilentInv /\ [Next]_vars =>
        [\A p \in Procs : pc[p] = "rmdir" /\ said'[p] = "ok" => bin' = None /\ meta' = None]_vars
  BY RmDirSays
<1> QED BY <1>1, <1>2, SilentStep, PTL DEF Spec, DeletedMeansGone

-----------------------------------------------------------------------------
(* Typing                                                                    *)

FilesTyped ==
    /\ config \in Setups
    /\ dir \in {"absent", "present"}
    /\ bin \in Inodes \cup {None} /\ (bin # None => dir = "present")
    /\ meta # None => dir = "present"

\* What a process knows, and what it must know at its step.
ProcTyped(p) ==
    /\ using[p] \in Setups \cup {None}
    /\ fd[p] \in Inodes \cup {None} /\ off[p] \in 0..10
    /\ tries[p] \in 0..MaxAttempts
    /\ saw[p] \in {"nobody", "face"} /\ said[p] \in Endings
    /\ pc[p] = "idle" => fd[p] = None /\ snap[p] = None /\ made[p] = None
    /\ pc[p] \in Saving => made[p] \in Enrollments
    /\ pc[p] \in {"open_enroll", "record"} => using[p] \in Setups

CamerasTyped ==
    /\ camera \in [Devices -> Procs \cup {None}]
    /\ \A d \in Devices : camera[d] # None => pc[camera[d]] \in Streaming

ProcsTyped ==
    /\ pc \in [Procs -> Steps] /\ CamerasTyped
    /\ using = [p \in Procs |-> using[p]] /\ made = [p \in Procs |-> made[p]]
    /\ fd = [p \in Procs |-> fd[p]] /\ off = [p \in Procs |-> off[p]]
    /\ snap = [p \in Procs |-> snap[p]] /\ tries = [p \in Procs |-> tries[p]]
    /\ saw = [p \in Procs |-> saw[p]] /\ said = [p \in Procs |-> said[p]]
    /\ \A p \in Procs : ProcTyped(p)

TypeInv == FilesTyped /\ ProcsTyped

\* There is an inode more than there are processes.
LEMMA InodeLeft ==
    ASSUME fd = [p \in Procs |-> fd[p]], bin = None
    PROVE  FreeInode \in Inodes
<1> DEFINE open == {fd[q] : q \in Procs}
           procs == Cardinality(Procs)
<1>1. procs \in Nat
  BY ProcsAssumption, FS_CardinalityType
<1>2. IsFiniteSet(open) /\ Cardinality(open) <= procs
  <2>1. [q \in Procs |-> fd[q]] \in Surjection(Procs, open)
    BY DEF Surjection
  <2> QED BY <2>1, ProcsAssumption, FS_Surjection
<1>3. Cardinality(Inodes) = procs + 1
  BY <1>1, FS_Interval DEF Inodes
<1>4. Cardinality(open) \in Nat
  BY <1>2, FS_CardinalityType
<1>5. ~(Inodes \subseteq open)
  <2> SUFFICES ASSUME Inodes \subseteq open PROVE FALSE
    OBVIOUS
  <2>1. Cardinality(Inodes) <= Cardinality(open)
    BY <1>2, FS_Subset
  <2> HIDE DEF open, procs
  <2> QED BY <1>1, <1>2, <1>3, <1>4, <2>1
<1>6. \A i \in Inodes : i # None
  BY <1>1, NoneAssumption DEF Inodes
<1>7. \E i \in Inodes : i # bin /\ \A q \in Procs : i # fd[q]
  BY <1>5, <1>6
<1> QED BY <1>7 DEF FreeInode

LEMMA EndTyped ==
    ASSUME ProcsTyped, NEW p \in Procs, NEW ending \in Endings, End(p, ending)
    PROVE  ProcsTyped'
<1> USE DEF ProcsTyped, End, Exit
<1>1. pc' \in [Procs -> Steps]
  BY DEF Steps
<1>2. CamerasTyped'
  BY DEF ReleaseCamera, CamerasTyped
<1>3. ASSUME NEW q \in Procs PROVE ProcTyped(q)'
  <2>1. CASE q = p
    BY <2>1, AttemptsAssumption DEF ProcTyped, Saving
  <2>2. CASE q # p
    BY <2>2 DEF ProcTyped
  <2> QED BY <2>1, <2>2
<1> QED BY <1>1, <1>2, <1>3

\* A step of p within its command that leaves the cameras and what it saw.
LEMMA GotoTyped ==
    ASSUME ProcsTyped, NEW p \in Procs, NEW step \in Steps \ {"idle"}, Goto(p, step),
           UNCHANGED <<camera, tries, saw, snap>>,
           said' = [q \in Procs |-> said'[q]], using' = [q \in Procs |-> using'[q]],
           made' = [q \in Procs |-> made'[q]], fd' = [q \in Procs |-> fd'[q]],
           off' = [q \in Procs |-> off'[q]],
           \A q \in Procs \ {p} :
              /\ using'[q] = using[q] /\ made'[q] = made[q] /\ fd'[q] = fd[q]
              /\ off'[q] = off[q] /\ said'[q] = said[q],
           said'[p] \in Endings, fd'[p] \in Inodes \cup {None}, off'[p] \in 0..10,
           using'[p] \in Setups \cup {None}, made'[p] = made[p] \/ step \in Saving,
           step \in Saving => made'[p] \in Enrollments,
           step \in {"open_enroll", "record"} => using'[p] \in Setups,
           pc[p] \in Streaming => step \in Streaming
    PROVE  ProcsTyped'
<1> USE DEF ProcsTyped, Goto
<1>1. pc' \in [Procs -> Steps]
  OBVIOUS
<1>2. CamerasTyped'
  BY DEF CamerasTyped
<1>3. ASSUME NEW q \in Procs PROVE ProcTyped(q)'
  <2>1. CASE q = p
    BY <2>1 DEF ProcTyped
  <2>2. CASE q # p
    BY <2>2 DEF ProcTyped
  <2> QED BY <2>1, <2>2
<1> QED BY <1>1, <1>2, <1>3

LEMMA OpenTyped ==
    ASSUME ProcsTyped, NEW p \in Procs, NEW step \in {"record", "attempt"},
           NEW ending \in Endings, OpenCamera(p, step, ending),
           step = "record" => using[p] \in Setups
    PROVE  ProcsTyped'
<1>1. CASE End(p, ending)
  BY <1>1, EndTyped
<1>2. CASE ~End(p, ending)
  <2> USE DEF ProcsTyped
  <2>1. /\ camera' = [camera EXCEPT ![using[p].device] = p] /\ Goto(p, step)
        /\ UNCHANGED <<using, saveVars, verifyVars, said>>
    BY <1>2 DEF OpenCamera
  <2>2. pc' \in [Procs -> Steps] /\ pc'[p] = step /\ \A q \in Procs \ {p} : pc'[q] = pc[q]
    BY <2>1 DEF Goto, Steps, Verifying
  <2>3. CamerasTyped'
    BY <2>1, <2>2 DEF CamerasTyped, Streaming
  <2>4. ASSUME NEW q \in Procs PROVE ProcTyped(q)'
    BY <2>1, <2>2 DEF ProcTyped, Saving, saveVars, verifyVars
  <2> QED BY <2>1, <2>2, <2>3, <2>4 DEF saveVars, verifyVars
<1> QED BY <1>1, <1>2

LEMMA SaveTyped ==
    ASSUME TypeInv, NEW p \in Procs,
           \/ Record(p) \/ MkDir(p) \/ OpenBin(p) \/ WriteBin(p) \/ OpenMeta(p) \/ WriteMeta(p)
           \/ SaveFails(p)
    PROVE  TypeInv'
<1> USE DEF TypeInv
<1> DEFINE Others == \A q \in Procs \ {p} :
              /\ using'[q] = using[q] /\ made'[q] = made[q] /\ fd'[q] = fd[q]
              /\ off'[q] = off[q] /\ said'[q] = said[q]
           Functions ==
              /\ said' = [q \in Procs |-> said'[q]] /\ using' = [q \in Procs |-> using'[q]]
              /\ made' = [q \in Procs |-> made'[q]] /\ fd' = [q \in Procs |-> fd'[q]]
              /\ off' = [q \in Procs |-> off'[q]]
<1>0. /\ ProcTyped(p)
      /\ {"mkdir", "open_bin", "write_bin", "write_meta"} \subseteq Saving
      /\ Saving \subseteq Streaming \cap (Steps \ {"idle"}) /\ {"ok", "error", "cut_off"} \subseteq Endings
  BY DEF ProcsTyped, Saving, Streaming, Steps, Endings
<1>1. CASE Record(p)
  <2>1. FilesTyped'
    BY <1>1 DEF Record, FilesTyped, storeVars, Inodes
  <2>2. PICK n \in Frames :
          IF n = 0 THEN End(p, "error")
          ELSE /\ \E count \in TemplateCounts(n) :
                     made' = [made EXCEPT ![p] = [by |-> p, model |-> using[p].model,
                                                  mode |-> using[p].mode, count |-> count]]
               /\ Goto(p, "mkdir") /\ KeepCamera(p)
               /\ UNCHANGED <<using, fd, off, verifyVars, said>>
    BY <1>1 DEF Record
  <2>3. CASE End(p, "error")
    BY <1>0, <2>1, <2>3, EndTyped
  <2>4. CASE ~End(p, "error")
    <3>1. PICK count \in TemplateCounts(n) :
             made' = [made EXCEPT ![p] = [by |-> p, model |-> using[p].model,
                                          mode |-> using[p].mode, count |-> count]]
      BY <2>2, <2>4
    <3>2. count \in 1..9
      BY FramesAssumption DEF TemplateCounts
    <3>3. using[p] \in Setups
      BY <1>0, <1>1 DEF Record, ProcTyped
    <3>4. made'[p] \in Enrollments
      BY <3>1, <3>2, <3>3 DEF Enrollments, Setups, ProcsTyped
    <3>5. Others /\ Functions
      BY <2>2, <2>4, <3>1 DEF ProcsTyped, verifyVars
    <3>6. Goto(p, "mkdir") /\ UNCHANGED <<camera, tries, saw, snap, using, fd, off, said>>
      BY <2>2, <2>4 DEF KeepCamera, verifyVars
    <3>7. "mkdir" \in Steps \ {"idle"} /\ "mkdir" \in Saving /\ "mkdir" \in Streaming
          /\ "mkdir" \notin {"open_enroll", "record"}
      BY <1>0
    <3>8. ProcsTyped'
      BY <1>0, <3>4, <3>5, <3>6, <3>7, GotoTyped DEF ProcTyped
    <3> QED BY <2>1, <3>8
  <2> QED BY <2>3, <2>4
<1>2. CASE MkDir(p)
  <2>1. FilesTyped'
    BY <1>2 DEF MkDir, FilesTyped, Inodes
  <2>2. /\ pc[p] = "mkdir" /\ Goto(p, "open_bin")
        /\ UNCHANGED <<camera, tries, saw, snap, using, made, fd, off, said>>
    BY <1>2 DEF MkDir, saveVars, verifyVars
  <2>3. Others /\ Functions /\ made'[p] \in Enrollments
    BY <1>0, <2>2 DEF ProcsTyped, ProcTyped
  <2>4. "open_bin" \in Steps \ {"idle"} /\ "open_bin" \in Saving /\ "open_bin" \in Streaming
        /\ "open_bin" \notin {"open_enroll", "record"}
    BY <1>0
  <2> QED BY <1>0, <2>1, <2>2, <2>3, <2>4, GotoTyped DEF ProcTyped
<1>3. CASE OpenBin(p)
  <2>1. bin' \in Inodes
    BY <1>3, InodeLeft DEF OpenBin, FilesTyped, ProcsTyped
  <2>2. FilesTyped'
    BY <1>3, <2>1 DEF OpenBin, FilesTyped, Inodes
  <2>3. /\ pc[p] = "open_bin" /\ Goto(p, "write_bin")
        /\ fd' = [fd EXCEPT ![p] = bin'] /\ off' = [off EXCEPT ![p] = 0]
        /\ UNCHANGED <<camera, tries, saw, snap, using, made, said>>
    BY <1>3 DEF OpenBin, verifyVars
  <2>4. Others /\ Functions /\ made'[p] \in Enrollments /\ fd'[p] \in Inodes /\ off'[p] \in 0..10
    <3>1. fd = [q \in Procs |-> fd[q]] /\ off = [q \in Procs |-> off[q]] /\ made[p] \in Enrollments
      BY <1>0, <2>3 DEF ProcsTyped, ProcTyped
    <3>2. Functions
      BY <2>3, <3>1 DEF ProcsTyped
    <3>3. Others
      BY <2>3, <3>1
    <3>4. fd'[p] = bin' /\ off'[p] = 0 /\ made'[p] = made[p]
      BY <2>3, <3>1
    <3> QED BY <2>1, <3>1, <3>2, <3>3, <3>4
  <2>5. "write_bin" \in Steps \ {"idle"} /\ "write_bin" \in Saving /\ "write_bin" \in Streaming
        /\ "write_bin" \notin {"open_enroll", "record"}
    BY <1>0
  <2> QED BY <1>0, <2>2, <2>3, <2>4, <2>5, GotoTyped DEF ProcTyped
<1>4. CASE WriteBin(p)
  <2>1. FilesTyped'
    BY <1>4 DEF WriteBin, FilesTyped, Inodes
  <2>2. made[p] \in Enrollments /\ off[p] \in 0..10
    BY <1>0, <1>4 DEF WriteBin, ProcTyped
  <2> DEFINE count == made[p].count
  <2>3. count \in 1..9 /\ Len(serializeEmbeddings(made[p])) = count + 1
    <3>1. count \in 1..9
      BY <2>2 DEF Enrollments
    <3> HIDE DEF count
    <3>2. serializeEmbeddings(made[p]) = [k \in 1..(count + 1) |-> [of |-> made[p], n |-> k - 1]]
      BY DEF serializeEmbeddings, count
    <3> QED BY <3>1, <3>2
  <2>4. PICK upto \in (off[p] + 1)..Len(serializeEmbeddings(made[p])) :
          off' = [off EXCEPT ![p] = upto]
    BY <1>4 DEF WriteBin
  <2>5. upto \in 0..10
    <3> HIDE DEF count
    <3> QED BY <2>2, <2>3, <2>4
  <2>6. UNCHANGED <<pc, camera, using, made, fd, tries, saw, snap, said>>
    BY <1>4 DEF WriteBin, verifyVars
  <2>7. ASSUME NEW q \in Procs PROVE ProcTyped(q)'
    BY <2>4, <2>5, <2>6 DEF ProcsTyped, ProcTyped, Inodes
  <2> QED BY <2>1, <2>4, <2>6, <2>7 DEF ProcsTyped, CamerasTyped
<1>5. CASE OpenMeta(p)
  <2>1. FilesTyped'
    BY <1>5 DEF OpenMeta, FilesTyped, Inodes
  <2>2. /\ pc[p] = "write_bin" /\ Goto(p, "write_meta") /\ fd' = [fd EXCEPT ![p] = None]
        /\ UNCHANGED <<camera, tries, saw, snap, using, made, off, said>>
    BY <1>5 DEF OpenMeta, verifyVars
  <2>3. Others /\ Functions /\ made'[p] \in Enrollments /\ fd'[p] = None
    BY <1>0, <2>2 DEF ProcsTyped, ProcTyped
  <2>4. "write_meta" \in Steps \ {"idle"} /\ "write_meta" \in Saving /\ "write_meta" \in Streaming
        /\ "write_meta" \notin {"open_enroll", "record"}
    BY <1>0
  <2> QED BY <1>0, <2>1, <2>2, <2>3, <2>4, GotoTyped DEF ProcTyped
<1>6. CASE WriteMeta(p)
  <2>1. FilesTyped'
    BY <1>6 DEF WriteMeta, FilesTyped, Inodes
  <2> QED BY <1>0, <1>6, <2>1, EndTyped DEF WriteMeta
<1>7. CASE SaveFails(p)
  <2>1. FilesTyped'
    BY <1>7 DEF SaveFails, FilesTyped, storeVars, Inodes
  <2> QED BY <1>0, <1>7, <2>1, EndTyped DEF SaveFails
<1> QED BY <1>1, <1>2, <1>3, <1>4, <1>5, <1>6, <1>7

\* A step of p that goes on to where nothing need be known.
LEMMA MoveTyped ==
    ASSUME TypeInv, NEW p \in Procs, NEW step \in Steps \ ({"idle", "open_enroll"} \cup Streaming),
           pc[p] \notin Streaming, Goto(p, step),
           UNCHANGED <<camera, verifyVars, saveVars, said>>,
           using' = [using EXCEPT ![p] = config] \/ UNCHANGED using
    PROVE  ProcsTyped'
<1>1. Saving \subseteq Streaming /\ {"open_enroll", "record"} \cap Streaming = {"record"}
  BY DEF Streaming, Saving
<1>2. using'[p] \in Setups \cup {None} /\ \A q \in Procs \ {p} : using'[q] = using[q]
  BY DEF TypeInv, ProcsTyped, FilesTyped, ProcTyped
<1>3. using' = [q \in Procs |-> using'[q]]
  BY DEF TypeInv, ProcsTyped
<1>4. UNCHANGED <<tries, saw, snap, made, fd, off, said>>
  BY DEF verifyVars, saveVars
<1>5. ProcsTyped /\ ProcTyped(p)
  BY DEF TypeInv, ProcsTyped
<1> QED BY <1>1, <1>2, <1>3, <1>4, <1>5, GotoTyped DEF ProcsTyped, ProcTyped

LEMMA TypingStep == TypeInv /\ [Next]_vars => TypeInv'
<1> SUFFICES ASSUME TypeInv, [Next]_vars PROVE TypeInv'
  OBVIOUS
<1>0. /\ \A step \in {"check", "configure", "unlink_bin", "unlink_meta", "rmdir", "load_config",
                        "load_all", "open_verify"} :
           step \in Steps \ ({"idle", "open_enroll"} \cup Streaming) /\ step \notin Streaming
      /\ {"idle", "open_enroll"} \cap Streaming = {}
      /\ {"error", "unavailable", "cut_off", "ok", "match", "no_match"} \subseteq Endings
  BY DEF Steps, Streaming, Saving, Deleting, Verifying, Endings
<1>1. ASSUME NEW p \in Procs, Begin(p) PROVE TypeInv'
  <2>1. FilesTyped'
    BY <1>1 DEF Begin, TypeInv, FilesTyped, storeVars, Inodes
  <2>2. PICK step \in {"check", "unlink_bin", "load_config"} : Goto(p, step)
    BY <1>1 DEF Begin
  <2>3. /\ pc[p] = "idle" /\ said' = [said EXCEPT ![p] = "none"]
        /\ UNCHANGED <<camera, tries, saw, snap, using, made, fd, off>>
    BY <1>1 DEF Begin, saveVars, verifyVars
  <2>4. step \in Steps \ {"idle"} /\ step \notin Saving \cup {"open_enroll", "record"}
    BY <1>0, <2>2 DEF Streaming
  <2>5. pc[p] \notin Streaming /\ "none" \in Endings
    BY <1>0, <2>3 DEF Endings
  <2>6. said'[p] = "none" /\ \A q \in Procs \ {p} : said'[q] = said[q]
    BY <2>3 DEF TypeInv, ProcsTyped
  <2>7. said' = [q \in Procs |-> said'[q]]
    BY <2>3 DEF TypeInv, ProcsTyped
  <2>8. ProcsTyped /\ ProcTyped(p)
    BY DEF TypeInv, ProcsTyped
  <2>9. ProcsTyped'
    BY <2>2, <2>3, <2>4, <2>5, <2>6, <2>7, <2>8, GotoTyped DEF ProcsTyped, ProcTyped
  <2> QED BY <2>1, <2>9 DEF TypeInv
<1>2. ASSUME NEW p \in Procs, NEW ending \in Endings, End(p, ending),
             UNCHANGED <<config, dir, bin, meta>>
      PROVE  TypeInv'
  BY <1>2, EndTyped DEF TypeInv, FilesTyped, Inodes
<1>3. ASSUME NEW p \in Procs, EnrollStep(p) PROVE TypeInv'
  <2>1. CASE CheckEnrolled(p)
    BY <1>0, <1>2, <2>1, MoveTyped DEF CheckEnrolled, TypeInv, FilesTyped, storeVars, Inodes
  <2>2. CASE Configure(p)
    <3>1. CASE End(p, "error")
      BY <1>0, <2>2, <3>1, EndTyped DEF Configure, TypeInv, FilesTyped, storeVars, Inodes, Goto, End, Exit
    <3>2. CASE ~End(p, "error")
      <4>1. PICK setup \in Setups :
              /\ using' = [using EXCEPT ![p] = setup] /\ config' \in {config, setup}
              /\ Goto(p, "open_enroll") /\ UNCHANGED <<camera, saveVars, verifyVars, said>>
        BY <2>2, <3>2 DEF Configure
      <4>2. FilesTyped'
        BY <2>2, <4>1 DEF Configure, TypeInv, FilesTyped, storeVars, Inodes
      <4>3. ProcsTyped /\ ProcTyped(p) /\ pc[p] = "configure"
        BY <2>2 DEF Configure, TypeInv, ProcsTyped
      <4>4. UNCHANGED <<tries, saw, snap, made, fd, off, said>>
        BY <4>1 DEF saveVars, verifyVars
      <4>5. using'[p] = setup /\ \A q \in Procs \ {p} : using'[q] = using[q]
        BY <4>1, <4>3 DEF ProcsTyped
      <4>6. using' = [q \in Procs |-> using'[q]]
        BY <4>1, <4>3 DEF ProcsTyped
      <4>7. "open_enroll" \in Steps \ {"idle"} /\ "open_enroll" \notin Saving
            /\ pc[p] \notin Streaming
        BY <1>0, <4>3 DEF Steps, Saving
      <4>8. /\ said' = [q \in Procs |-> said'[q]] /\ made' = [q \in Procs |-> made'[q]]
            /\ fd' = [q \in Procs |-> fd'[q]] /\ off' = [q \in Procs |-> off'[q]]
            /\ said'[p] \in Endings /\ fd'[p] \in Inodes \cup {None} /\ off'[p] \in 0..10
        BY <4>3, <4>4 DEF ProcsTyped, ProcTyped
      <4>9. ProcsTyped'
        BY <4>1, <4>3, <4>4, <4>5, <4>6, <4>7, <4>8, GotoTyped
      <4> QED BY <4>2, <4>9 DEF TypeInv
    <3> QED BY <3>1, <3>2
  <2>3. CASE OpenEnroll(p)
    BY <1>0, <2>3, OpenTyped
       DEF OpenEnroll, TypeInv, FilesTyped, ProcsTyped, ProcTyped, storeVars, Inodes
  <2> QED BY <1>3, <2>1, <2>2, <2>3, SaveTyped DEF EnrollStep
<1>4. ASSUME NEW p \in Procs, DeleteStep(p) PROVE TypeInv'
  <2>1. CASE UnlinkBin(p)
    BY <1>0, <2>1, MoveTyped DEF UnlinkBin, TypeInv, FilesTyped, Inodes
  <2>2. CASE UnlinkMeta(p)
    BY <1>0, <2>2, MoveTyped DEF UnlinkMeta, TypeInv, FilesTyped, Inodes
  <2>3. CASE RmDir(p)
    BY <1>0, <2>3, EndTyped DEF RmDir, TypeInv, FilesTyped, Inodes
  <2> QED BY <1>4, <2>1, <2>2, <2>3 DEF DeleteStep
<1>5. ASSUME NEW p \in Procs, VerifyStep(p) PROVE TypeInv'
  <2>0. FilesTyped'
    BY <1>5 DEF VerifyStep, LoadConfig, LoadAll, OpenVerify, SeesNobody, Compares, Throws, RunsOut,
       TypeInv, FilesTyped, storeVars, Inodes
  <2>1. CASE LoadConfig(p)
    BY <1>0, <2>0, <2>1, EndTyped, MoveTyped DEF LoadConfig, TypeInv
  <2>2. CASE LoadAll(p)
    <3>1. CASE End(p, "unavailable")
      BY <1>0, <2>0, <3>1, EndTyped DEF TypeInv
    <3>2. CASE ~End(p, "unavailable")
      <4>1. /\ pc[p] = "load_all" /\ Goto(p, "open_verify")
            /\ UNCHANGED <<camera, using, saveVars, tries, saw, said>>
            /\ \E found : snap' = [snap EXCEPT ![p] = found]
        BY <2>2, <3>2 DEF LoadAll
      <4>2. snap' = [q \in Procs |-> snap'[q]] /\ \A q \in Procs \ {p} : snap'[q] = snap[q]
        BY <4>1 DEF TypeInv, ProcsTyped
      <4>3. pc' \in [Procs -> Steps] /\ pc'[p] = "open_verify"
            /\ \A q \in Procs \ {p} : pc'[q] = pc[q]
        BY <1>0, <4>1 DEF Goto, TypeInv, ProcsTyped
      <4>4. CamerasTyped'
        BY <1>0, <4>1, <4>3 DEF CamerasTyped, TypeInv, ProcsTyped
      <4>5. ASSUME NEW q \in Procs PROVE ProcTyped(q)'
        BY <4>1, <4>2, <4>3 DEF TypeInv, ProcsTyped, ProcTyped, saveVars, Saving, Inodes
      <4> QED BY <2>0, <4>1, <4>2, <4>3, <4>4, <4>5 DEF TypeInv, ProcsTyped, saveVars
    <3> QED BY <3>1, <3>2
  <2>3. CASE OpenVerify(p)
    BY <1>0, <2>0, <2>3, OpenTyped DEF OpenVerify, TypeInv
  <2>4. ASSUME NEW ending \in Endings, End(p, ending) PROVE TypeInv'
    BY <2>0, <2>4, EndTyped DEF TypeInv
  <2>5. ASSUME Spend(p), tries[p] < MaxAttempts, saw' \in {saw, [saw EXCEPT ![p] = "face"]},
               UNCHANGED <<camera, pc, using, saveVars, snap, said>>
        PROVE  TypeInv'
    <3> USE DEF TypeInv, ProcsTyped
    <3>1. ASSUME NEW q \in Procs PROVE ProcTyped(q)'
      <4>1. ProcTyped(q) /\ UNCHANGED <<pc, using, made, fd, off, snap, said>>
        BY <2>5 DEF saveVars
      <4>2. tries'[q] \in 0..MaxAttempts
        <5>1. tries' = [tries EXCEPT ![p] = tries[p] + 1] /\ tries = [r \in Procs |-> tries[r]]
          BY <2>5 DEF Spend
        <5>2. tries[p] \in 0..MaxAttempts /\ tries[q] \in 0..MaxAttempts
          BY <4>1 DEF ProcTyped
        <5>3. tries'[p] = tries[p] + 1 /\ (q # p => tries'[q] = tries[q])
          BY <5>1
        <5> QED BY <2>5, <5>2, <5>3, AttemptsAssumption
      <4>3. saw'[q] \in {"nobody", "face"}
        BY <2>5, <4>1 DEF ProcTyped
      <4> QED BY <4>1, <4>2, <4>3 DEF ProcTyped, Inodes
    <3> QED BY <2>0, <2>5, <3>1 DEF Spend, CamerasTyped, saveVars
  <2>6. CASE SeesNobody(p)
    BY <2>5, <2>6 DEF SeesNobody
  <2>7. CASE Compares(p)
    BY <1>0, <2>4, <2>5, <2>7 DEF Compares
  <2>8. CASE Throws(p) \/ RunsOut(p)
    BY <1>0, <2>4, <2>8 DEF Throws, RunsOut
  <2> QED BY <1>5, <2>1, <2>2, <2>3, <2>6, <2>7, <2>8 DEF VerifyStep
<1>6. ASSUME NEW p \in Procs, Kill(p) PROVE TypeInv'
  BY <1>0, <1>2, <1>6 DEF Kill, storeVars
<1>7. CASE WriteConfig \/ UNCHANGED vars
  <2>1. FilesTyped'
    BY <1>7 DEF WriteConfig, vars, storeVars, TypeInv, FilesTyped, Inodes
  <2>2. UNCHANGED <<camera, procVars>>
    BY <1>7 DEF WriteConfig, vars
  <2>3. ProcsTyped'
    BY <2>2 DEF procVars, saveVars, verifyVars, TypeInv, ProcsTyped, ProcTyped, CamerasTyped, Inodes
  <2> QED BY <2>1, <2>3 DEF TypeInv
<1> QED BY <1>1, <1>3, <1>4, <1>5, <1>6, <1>7 DEF Next, Step

\* Every variable of the commands keeps its type, and no step looks for what is not there,
\* with any number of cameras, processes and commands.
THEOREM EnrollmentTyping == Spec => []TypeOK
<1>1. Init => TypeInv
  <2> SUFFICES ASSUME Init PROVE TypeInv
    OBVIOUS
  <2>1. 1 \in Inodes
    BY ProcsAssumption, FS_CardinalityType DEF Inodes
  <2>2. FilesTyped
    BY <2>1 DEF Init, FilesTyped
  <2>3. pc \in [Procs -> Steps] /\ CamerasTyped
    BY DEF Init, CamerasTyped, Steps
  <2>4. ASSUME NEW p \in Procs PROVE ProcTyped(p)
    <3>1. /\ using[p] = None /\ fd[p] = None /\ off[p] = 0 /\ snap[p] = None /\ made[p] = None
          /\ tries[p] = 0 /\ saw[p] = "nobody" /\ said[p] = "none" /\ pc[p] = "idle"
      BY DEF Init
    <3>2. 0 \in 0..MaxAttempts /\ "none" \in Endings /\ "idle" \notin Saving
      BY AttemptsAssumption DEF Endings, Saving
    <3> QED BY <3>1, <3>2 DEF ProcTyped
  <2> QED BY <2>2, <2>3, <2>4 DEF Init, TypeInv, ProcsTyped
<1>2. TypeInv => TypeOK
  BY DEF TypeInv, FilesTyped, ProcsTyped, CamerasTyped, ProcTyped, TypeOK, Streaming
<1> QED BY <1>1, <1>2, TypingStep, PTL DEF Spec
=============================================================================
