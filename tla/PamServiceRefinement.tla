------------------------ MODULE PamServiceRefinement ------------------------
(***************************************************************************)
(* With one helper, PamServiceEdit implements PamServiceFile: whatever      *)
(* fails, whoever is killed and whenever the power goes.                     *)
(***************************************************************************)
EXTENDS PamServiceProofs

\* With two helpers the statement is false, see NeverHalfWritten.
OneHelper == \E h : Helpers = {h}

\* What a name refers to; no inode has two names.
NamesInv ==
    /\ file = [n \in Names |-> file[n]] /\ tmp = [n \in Names |-> tmp[n]]
    /\ \A n \in Names : file[n] \in Inodes \cup {NoInode} /\ tmp[n] \in Inodes \cup {NoInode}
    /\ \A m, n \in Names :
         /\ file[m] = tmp[n] => tmp[n] = NoInode
         /\ m # n => /\ file[m] = file[n] => file[n] = NoInode
                     /\ tmp[m] = tmp[n] => tmp[n] = NoInode

\* What has been renamed is whole and on the disk.
DataInv ==
    /\ disk = [i \in Inodes |-> disk[i]]
    /\ held \subseteq Seq(Lines)
    /\ \A n \in Names : file[n] # NoInode => file[n] \in synced /\ disk[file[n]] \in held

Writing == {"write", "rename"}
Chosen  == {"choose", "open"} \cup Writing
HasRead == {"verify", "edit"} \cup Chosen

\* The edit is of what was read.
Edited(h) ==
    \/ /\ job[h].op = "enable"
       /\ detectPamFacialState(job[h].read) = "Absent"
       /\ job[h].new = enableInContent(job[h].read)
    \/ /\ job[h].op = "disable" /\ job[h].target = "service" /\ pc[h] # "choose"
       /\ job[h].new = disableInContent(job[h].read)

\* The file that is being written holds the beginning of what it is to hold.
WrittenSoFar(h) ==
    /\ job[h].fd \in Inodes /\ job[h].fd = tmp[job[h].target]
    /\ job[h].off \in 0..Len(Payload(h))
    /\ disk[job[h].fd] = [k \in 1..job[h].off |-> Payload(h)[k]]
    /\ pc[h] = "rename" => job[h].off = Len(Payload(h)) /\ job[h].fd \in synced

\* First the backup, if there is none, then the service file.
Ordered(h) ==
    /\ job[h].target = "backup" => file["backup"] = NoInode
    /\ job[h].target = "service" /\ job[h].op = "enable" => file["backup"] # NoInode

HandInv(h) ==
    /\ job[h].target \in Names
    /\ pc[h] \in HasRead => job[h].read \in held /\ job[h].op \in {"enable", "disable"}
    /\ pc[h] = "read" => job[h].op \in {"enable", "disable"}
    /\ pc[h] \in Chosen => Edited(h)
    /\ pc[h] \in {"open"} \cup Writing => Ordered(h)
    /\ pc[h] \notin {"open"} \cup Writing => job[h].target = "service"
    /\ pc[h] \in Writing => WrittenSoFar(h)
    /\ pc[h] \notin Writing => job[h].fd = NoInode

RefInv ==
    /\ Shape /\ NamesInv /\ DataInv
    /\ \A h \in Helpers : HandInv(h)

Implements == [Promise!Next]_(Promise!vars)

\* The promise speaks of the same edits.
LEMMA SameEdits ==
    ASSUME NEW content
    PROVE  /\ Promise!detectPamFacialState(content) = detectPamFacialState(content)
           /\ Promise!enableInContent(content) = enableInContent(content)
           /\ Promise!disableInContent(content) = disableInContent(content)
<1>1. Promise!detectPamFacialState(content) = detectPamFacialState(content)
  BY DEF Promise!detectPamFacialState, detectPamFacialState, Promise!lineReferencesPamFacial,
     lineReferencesPamFacial, Promise!FacialLines, FacialLines
<1>2. Promise!disableInContent(content) = disableInContent(content)
  BY DEF Promise!disableInContent, disableInContent, Promise!NotFacial, NotFacial,
     Promise!lineReferencesPamFacial, lineReferencesPamFacial, Promise!FacialLines, FacialLines
<1> QED BY <1>1, <1>2 DEF Promise!enableInContent, enableInContent

-----------------------------------------------------------------------------
(* Steps that the file's promise does not see                                *)

\* Nothing but the helper's own state changes.
SameFiles == UNCHANGED <<file, tmp, disk, synced, held>>

LEMMA SameImplements ==
    ASSUME UNCHANGED <<file, held>>,
           \A n \in Names : file[n] # NoInode => disk'[file[n]] = disk[file[n]]
    PROVE  Implements
<1>1. \A n \in Names : Content(file[n])' = Content(file[n])
  BY DEF Content
<1>2. Content(file["service"])' = Content(file["service"])
      /\ Content(file["backup"])' = Content(file["backup"])
  BY <1>1 DEF Names
<1> QED BY <1>2 DEF Implements, Promise!vars

\* A helper that has done with its command.
LEMMA FinishedHand ==
    ASSUME Shape, NEW h \in Helpers, Finish(h)
    PROVE  HandInv(h)' /\ JobShape' /\ pc' = [g \in Helpers |-> pc'[g]]
<1>1. NoJob.target = "service" /\ NoJob.fd = NoInode
  BY DEF NoJob
<1>2. pc'[h] = "idle" /\ job'[h] = NoJob /\ JobShape' /\ pc' = [g \in Helpers |-> pc'[g]]
  BY FinishAlone
<1> QED BY <1>1, <1>2 DEF HandInv, HasRead, Chosen, Writing, Names

LEMMA DisableLeaves ==
    ASSUME NEW content \in Seq(Lines)
    PROVE  LET left == disableInContent(content)
               kept == {content[i] : i \in {j \in DOMAIN content : NotFacial(content[j])}}
           IN  /\ left \in Seq(Lines) /\ \A k \in DOMAIN left : left[k] \in kept
               /\ \A line \in kept : \E k \in DOMAIN left : left[k] = line
<1> DEFINE left == disableInContent(content)
           kept == {content[i] : i \in {j \in DOMAIN content : NotFacial(content[j])}}
<1>1. content \in Seq(FileLines)
  <2>1. Lines \subseteq FileLines
    BY DEF FileLines
  <2> QED BY <2>1
<1>2. left \in Seq(kept) /\ \A line \in kept : \E k \in DOMAIN left : left[k] = line
  BY <1>1, DisableSelects
<1>3. kept \subseteq Lines
  OBVIOUS
<1> HIDE DEF left, kept
<1>4. left \in Seq(Lines) /\ \A k \in DOMAIN left : left[k] \in kept
  BY <1>2, <1>3
<1> QED BY <1>2, <1>4 DEF left, kept

\* What is written is a sequence of lines.
LEMMA PayloadIsLines ==
    ASSUME DataInv, NEW h \in Helpers, HandInv(h), pc[h] \in Chosen
    PROVE  Payload(h) \in Seq(Lines) /\ job[h].new \in Seq(Lines)
<1>1. job[h].read \in Seq(Lines)
  BY DEF DataInv, HandInv, HasRead
<1>2. enableInContent(job[h].read) \in Seq(Lines)
  <2>1. <<"sufficient">> \in Seq(Lines)
    BY DEF Lines, FacialLines
  <2>2. <<"sufficient">> \o job[h].read \in Seq(Lines)
    BY <1>1, <2>1
  <2> QED BY <1>1, <2>2 DEF enableInContent
<1>3. disableInContent(job[h].read) \in Seq(Lines)
  BY <1>1, DisableLeaves
<1>4. job[h].new = enableInContent(job[h].read) \/ job[h].new = disableInContent(job[h].read)
  BY DEF HandInv, Edited
<1> HIDE DEF Chosen
<1> QED BY <1>1, <1>2, <1>3, <1>4 DEF Payload

\* Writing on where the helper stopped.
LEMMA WriteOn ==
    ASSUME NEW S, NEW lines \in Seq(S), NEW hole,
           NEW off \in Nat, NEW upto \in (off + 1)..Len(lines)
    PROVE  WriteAt([k \in 1..off |-> lines[k]], off, SubSeq(lines, off + 1, upto), hole)
             = [k \in 1..upto |-> lines[k]]
<1> DEFINE chunk == SubSeq(lines, off + 1, upto)
           old   == [k \in 1..off |-> lines[k]]
<1>1. off \in Nat /\ upto \in Nat /\ off < upto /\ upto <= Len(lines) /\ Len(lines) \in Nat
  OBVIOUS
<1>2. old \in Seq(S) /\ Len(old) = off /\ DOMAIN old = 1..off
  <2>1. \A k \in 1..off : lines[k] \in S
    BY <1>1
  <2>2. old \in [1..off -> S]
    BY <2>1
  <2> QED BY <1>1, <2>2
<1>3. Len(chunk) = upto - off /\ \A k \in 1..(upto - off) : chunk[k] = lines[off + k]
  <2>1. \A m, n \in Nat : 1 <= m /\ m <= n /\ n <= Len(lines) =>
           /\ Len(SubSeq(lines, m, n)) = n - m + 1
           /\ \A k \in 1..(n - m + 1) : SubSeq(lines, m, n)[k] = lines[m + k - 1]
    OBVIOUS
  <2>2. off + 1 \in Nat /\ 1 <= off + 1 /\ off + 1 <= upto
    BY <1>1
  <2>3. /\ Len(chunk) = upto - (off + 1) + 1
        /\ \A k \in 1..(upto - (off + 1) + 1) : chunk[k] = lines[(off + 1) + k - 1]
    BY <1>1, <2>1, <2>2
  <2>4. upto - (off + 1) + 1 = upto - off
        /\ \A k \in 1..(upto - off) : (off + 1) + k - 1 = off + k
    BY <1>1
  <2> QED BY <2>3, <2>4
<1>4. \A k \in 1..off : old[k] = lines[k]
  OBVIOUS
<1> HIDE DEF chunk, old
<1>5. WriteAt(old, off, chunk, hole) =
        [n \in 1..upto |-> IF n \in (off + 1)..upto THEN chunk[n - off]
                           ELSE IF n \in DOMAIN old THEN old[n] ELSE hole]
  <2>1. off + Len(chunk) = upto /\ ~(Len(old) > upto)
    BY <1>1, <1>2, <1>3
  <2> QED BY <2>1 DEF WriteAt
<1>6. ASSUME NEW n \in 1..upto
      PROVE  (IF n \in (off + 1)..upto THEN chunk[n - off]
              ELSE IF n \in DOMAIN old THEN old[n] ELSE hole) = lines[n]
  <2>1. CASE n \in (off + 1)..upto
    <3>1. n - off \in 1..(upto - off) /\ off + (n - off) = n
      BY <1>1, <2>1
    <3> QED BY <1>3, <2>1, <3>1
  <2>2. CASE n \in 1..off
    BY <1>1, <1>2, <1>4, <2>2
  <2> QED BY <1>1, <2>1, <2>2
<1>7. WriteAt(old, off, chunk, hole) = [k \in 1..upto |-> lines[k]]
  BY <1>5, <1>6
<1> QED BY <1>7 DEF old, chunk

LEMMA InodesAreFive ==
    ASSUME NEW h, Helpers = {h}
    PROVE  Inodes = 1..5
<1>1. Cardinality(Helpers) = 1
  BY FS_Singleton
<1> QED BY <1>1, InodesCount

\* There is an inode more than names, temporary ones included.
LEMMA InodeFree ==
    ASSUME NEW h, Helpers = {h}, NamesInv, HandInv(h)
    PROVE  /\ FreeInode \in Inodes
           /\ \A n \in Names : FreeInode # file[n] /\ FreeInode # tmp[n]
<1>1. Inodes = 1..5
  BY InodesAreFive
<1>2. job[h].fd \in {tmp["service"], tmp["backup"], NoInode}
  BY DEF HandInv, WrittenSoFar, Names
<1>3. \E i \in 1..5 : i \notin {file["service"], file["backup"], tmp["service"], tmp["backup"]}
  OBVIOUS
<1>4. \E i \in Inodes : /\ \A n \in Names : i # file[n] /\ i # tmp[n]
                        /\ \A g \in Helpers : i # job[g].fd
  BY <1>1, <1>2, <1>3, NoneAssumption DEF Names
<1> QED BY <1>4 DEF FreeInode

-----------------------------------------------------------------------------
(* The steps                                                                 *)

LEMMA OwnStep ==
    ASSUME NEW h, Helpers = {h}, RefInv, SameFiles,
           JobShape', pc' = [g \in Helpers |-> pc'[g]], HandInv(h)'
    PROVE  RefInv' /\ Implements
<1>1. Shape' /\ NamesInv' /\ DataInv'
  BY DEF SameFiles, RefInv, Shape, NamesInv, DataInv, Inodes
<1>2. Implements
  BY SameImplements DEF SameFiles
<1> QED BY <1>1, <1>2 DEF RefInv

LEMMA ReadingStep ==
    ASSUME NEW h, Helpers = {h}, RefInv, Begin(h) \/ ReadService(h) \/ VerifyOnce(h)
    PROVE  RefInv' /\ Implements
<1>1. /\ Shape /\ JobShape /\ h \in Helpers /\ HandInv(h) /\ SameFiles
  BY DEF RefInv, Shape, SameFiles, Begin, ReadService, VerifyOnce, fsVars
<1>2. CASE Finish(h)
  BY <1>1, <1>2, FinishedHand, OwnStep
<1>3. CASE Begin(h)
  <2>1. PICK op \in {"enable", "disable"} : job' = [job EXCEPT ![h].op = op]
    BY <1>3 DEF Begin
  <2>2. Hand(h, op, job[h].read, job[h].new, job[h].target, job[h].fd, job[h].off)
    BY <1>1, <2>1, HandOne
  <2>3. pc[h] = "idle" /\ pc'[h] = "read" /\ pc' = [g \in Helpers |-> pc'[g]]
    BY <1>1, <1>3 DEF Begin, Goto, Shape
  <2>4. HandInv(h)'
    BY <1>1, <2>2, <2>3 DEF HandInv, Hand, HasRead, Chosen, Writing
  <2> QED BY <1>1, <2>2, <2>3, <2>4, OwnStep DEF Hand
<1>4. CASE ReadService(h) /\ ~Finish(h)
  <2>1. /\ file["service"] # NoInode
        /\ job' = [job EXCEPT ![h].read = disk[file["service"]]]
        /\ pc[h] = "read" /\ Goto(h, IF job[h].op = "enable" THEN "verify" ELSE "edit")
    BY <1>4 DEF ReadService
  <2>2. Hand(h, job[h].op, disk[file["service"]], job[h].new, job[h].target,
             job[h].fd, job[h].off)
    BY <1>1, <2>1, HandOne
  <2>3. pc'[h] \in {"verify", "edit"} /\ pc' = [g \in Helpers |-> pc'[g]]
    BY <1>1, <2>1 DEF Goto, Shape
  <2>4. disk[file["service"]] \in held /\ held' = held
    BY <1>1, <2>1 DEF RefInv, DataInv, Names, SameFiles
  <2>5. HandInv(h)'
    BY <1>1, <2>1, <2>2, <2>3, <2>4 DEF HandInv, Hand, HasRead, Chosen, Writing
  <2> QED BY <1>1, <2>2, <2>3, <2>5, OwnStep DEF Hand
<1>5. CASE VerifyOnce(h) /\ ~Finish(h)
  <2>1. pc[h] = "verify" /\ held' = held
    BY <1>5 DEF VerifyOnce
  <2>2. CASE UNCHANGED pc /\ \E v, w : job' = [job EXCEPT ![h].tries = v, ![h].passes = w]
    <3>1. PICK v, w : job' = [job EXCEPT ![h].tries = v, ![h].passes = w]
      BY <2>2
    <3>2. Hand(h, job[h].op, job[h].read, job[h].new, job[h].target, job[h].fd, job[h].off)
      BY <1>1, <3>1, HandMore
    <3>3. HandInv(h)'
      BY <1>1, <2>1, <2>2, <3>2 DEF HandInv, Hand, HasRead, Chosen, Writing
    <3> QED BY <1>1, <2>2, <3>2, <3>3, OwnStep DEF Hand, Shape
  <2>3. CASE Goto(h, "edit") /\ UNCHANGED job
    <3>1. pc'[h] = "edit" /\ pc' = [g \in Helpers |-> pc'[g]]
      BY <1>1, <2>3 DEF Goto, Shape
    <3>2. HandInv(h)' /\ JobShape'
      BY <1>1, <2>1, <2>3, <3>1 DEF HandInv, HasRead, Chosen, Writing, JobShape
    <3> QED BY <1>1, <3>1, <3>2, OwnStep
  <2> QED BY <1>5, <2>2, <2>3 DEF VerifyOnce
<1> QED BY <1>2, <1>3, <1>4, <1>5

LEMMA ChoosingStep ==
    ASSUME NEW h, Helpers = {h}, RefInv, Enable(h) \/ Disable(h) \/ ChooseTarget(h)
    PROVE  RefInv' /\ Implements
<1>1. /\ Shape /\ JobShape /\ h \in Helpers /\ HandInv(h) /\ SameFiles
  BY DEF RefInv, Shape, SameFiles, Enable, Disable, Install, ChooseTarget, fsVars
<1>2. CASE Finish(h)
  BY <1>1, <1>2, FinishedHand, OwnStep
<1>3. CASE Enable(h) /\ ~Finish(h)
  <2> DEFINE new == enableInContent(job[h].read)
  <2>1. /\ job[h].op = "enable" /\ pc[h] = "edit" /\ new # job[h].read
        /\ job' = [job EXCEPT ![h].new = new] /\ Goto(h, "choose")
    BY <1>3 DEF Enable, Install
  <2>2. detectPamFacialState(job[h].read) = "Absent"
    BY <2>1 DEF enableInContent
  <2>3. Hand(h, job[h].op, job[h].read, new, job[h].target, job[h].fd, job[h].off)
    BY <1>1, <2>1, HandOne
  <2>4. pc'[h] = "choose" /\ pc' = [g \in Helpers |-> pc'[g]]
    BY <1>1, <2>1 DEF Goto, Shape
  <2>5. Edited(h)'
    BY <2>1, <2>2, <2>3 DEF Edited, Hand
  <2> HIDE DEF new
  <2>6. HandInv(h)'
    BY <1>1, <2>1, <2>3, <2>4, <2>5 DEF HandInv, Hand, HasRead, Chosen, Writing, SameFiles
  <2> QED BY <1>1, <2>3, <2>4, <2>6, OwnStep DEF Hand
<1>4. CASE Disable(h) /\ ~Finish(h)
  <2> DEFINE new == disableInContent(job[h].read)
  <2>1. /\ job[h].op = "disable" /\ pc[h] = "edit"
        /\ job' = [job EXCEPT ![h].new = new] /\ Goto(h, "open")
    BY <1>4 DEF Disable, Install
  <2>2. Hand(h, job[h].op, job[h].read, new, job[h].target, job[h].fd, job[h].off)
    BY <1>1, <2>1, HandOne
  <2>3. pc'[h] = "open" /\ pc' = [g \in Helpers |-> pc'[g]]
    BY <1>1, <2>1 DEF Goto, Shape
  <2>4. job[h].target = "service"
    BY <1>1, <2>1 DEF HandInv, Writing
  <2>5. Edited(h)' /\ Ordered(h)'
    BY <2>1, <2>2, <2>3, <2>4 DEF Edited, Ordered, Hand
  <2> HIDE DEF new
  <2>6. HandInv(h)'
    BY <1>1, <2>1, <2>2, <2>3, <2>5 DEF HandInv, Hand, HasRead, Chosen, Writing, SameFiles
  <2> QED BY <1>1, <2>2, <2>3, <2>6, OwnStep DEF Hand
<1>5. CASE ChooseTarget(h)
  <2> DEFINE target == IF NeedsBackup THEN "backup" ELSE "service"
  <2>1. pc[h] = "choose" /\ job' = [job EXCEPT ![h].target = target] /\ Goto(h, "open")
    BY <1>5 DEF ChooseTarget
  <2>2. Hand(h, job[h].op, job[h].read, job[h].new, target, job[h].fd, job[h].off)
    BY <1>1, <2>1, HandOne
  <2>3. pc'[h] = "open" /\ pc' = [g \in Helpers |-> pc'[g]]
    BY <1>1, <2>1 DEF Goto, Shape
  <2>4. target \in Names /\ Edited(h)' /\ Ordered(h)'
    BY <1>1, <2>1, <2>2
       DEF Edited, Ordered, Hand, HandInv, Chosen, NeedsBackup, Names, SameFiles
  <2> HIDE DEF target
  <2>5. HandInv(h)'
    BY <1>1, <2>1, <2>2, <2>3, <2>4 DEF HandInv, Hand, HasRead, Chosen, Writing, SameFiles
  <2> QED BY <1>1, <2>2, <2>3, <2>5, OwnStep DEF Hand
<1> QED BY <1>2, <1>3, <1>4, <1>5 DEF Enable, Disable

LEMMA OpeningStep ==
    ASSUME NEW h, Helpers = {h}, RefInv, OpenTmp(h)
    PROVE  RefInv' /\ Implements
<1>1. /\ Shape /\ JobShape /\ h \in Helpers /\ HandInv(h) /\ NamesInv /\ DataInv
      /\ UNCHANGED <<file, held>> /\ pc[h] = "open"
  BY DEF RefInv, Shape, OpenTmp
<1>2. CASE Finish(h) /\ UNCHANGED <<tmp, disk, synced>>
  BY <1>1, <1>2, FinishedHand, OwnStep DEF SameFiles
<1>3. CASE ~(Finish(h) /\ UNCHANGED <<tmp, disk, synced>>)
  <2> DEFINE name  == job[h].target
             inode == IF tmp[name] = NoInode THEN FreeInode ELSE tmp[name]
  <2>1. /\ tmp' = [tmp EXCEPT ![name] = inode]
        /\ disk' = [disk EXCEPT ![inode] = <<>>]
        /\ synced' = synced \ {inode}
        /\ job' = [job EXCEPT ![h].fd = inode, ![h].off = 0]
        /\ Goto(h, "write")
    BY <1>3 DEF OpenTmp
  <2>2. name \in Names
    BY <1>1 DEF HandInv
  <2>3. inode \in Inodes /\ (\A n \in Names : inode # file[n])
        /\ \A n \in Names : n # name => inode # tmp[n]
    <3>1. CASE tmp[name] = NoInode
      BY <1>1, <3>1, InodeFree
    <3>2. CASE tmp[name] # NoInode
      BY <1>1, <2>2, <3>2 DEF NamesInv
    <3> QED BY <3>1, <3>2
  <2>4. Hand(h, job[h].op, job[h].read, job[h].new, name, inode, 0)
    BY <1>1, <2>1, HandMore
  <2> HIDE DEF name, inode
  <2>5. inode # NoInode
    BY <2>3, NoneAssumption DEF Inodes
  <2>6. NamesInv'
    BY <1>1, <2>1, <2>2, <2>3, <2>5 DEF NamesInv, Inodes
  <2>7. DataInv'
    BY <1>1, <2>1, <2>3 DEF DataInv, NamesInv, Inodes
  <2>8. pc'[h] = "write" /\ pc' = [g \in Helpers |-> pc'[g]]
    BY <1>1, <2>1 DEF Goto, Shape
  <2>9. Payload(h)' = Payload(h) /\ Edited(h)' /\ Ordered(h)'
    <3>1. job[h].target = name
      BY DEF name
    <3> QED BY <1>1, <2>4, <2>8, <3>1 DEF Payload, Edited, Ordered, Hand, HandInv, Chosen
  <2>10. WrittenSoFar(h)'
    <3>1. Payload(h) \in Seq(Lines)
      BY <1>1, PayloadIsLines DEF Chosen
    <3>2. 0 \in 0..Len(Payload(h)) /\ [k \in 1..0 |-> Payload(h)[k]] = <<>>
      BY <3>1
    <3>3. disk'[inode] = <<>> /\ tmp'[name] = inode
      BY <1>1, <2>1, <2>2, <2>3 DEF DataInv, NamesInv
    <3>4. job'[h].fd = inode /\ job'[h].off = 0 /\ job'[h].target = name
      BY <2>4 DEF Hand
    <3> QED BY <2>3, <2>8, <2>9, <3>2, <3>3, <3>4 DEF WrittenSoFar, Inodes
  <2>11. HandInv(h)'
    <3>1. job[h].target = name
      BY DEF name
    <3> QED BY <1>1, <2>2, <2>4, <2>8, <2>9, <2>10, <3>1
            DEF HandInv, Hand, HasRead, Chosen, Writing
  <2>12. Implements
    <3>1. \A n \in Names : file[n] # NoInode => disk'[file[n]] = disk[file[n]]
      BY <1>1, <2>1, <2>3 DEF DataInv, NamesInv
    <3> QED BY <1>1, <3>1, SameImplements
  <2> QED BY <2>4, <2>6, <2>7, <2>8, <2>11, <2>12 DEF RefInv, Shape, NamesInv, Hand
<1> QED BY <1>2, <1>3

LEMMA WritingStep ==
    ASSUME NEW h, Helpers = {h}, RefInv,
           WriteSome(h) \/ Fsync(h) \/ WriteFails(h)
    PROVE  RefInv' /\ Implements
<1>1. /\ Shape /\ JobShape /\ h \in Helpers /\ HandInv(h) /\ NamesInv /\ DataInv
      /\ UNCHANGED file /\ pc[h] \in Writing
  BY DEF RefInv, Shape, WriteSome, Fsync, WriteFails, Writing
<1>2. /\ WrittenSoFar(h) /\ job[h].target \in Names
      /\ job[h].fd # NoInode /\ \A n \in Names : job[h].fd # file[n]
  <2>1. WrittenSoFar(h) /\ job[h].target \in Names
    BY <1>1 DEF HandInv
  <2>2. job[h].fd # NoInode
    BY <2>1, NoneAssumption DEF WrittenSoFar, Inodes
  <2> QED BY <1>1, <2>1, <2>2 DEF NamesInv, WrittenSoFar
<1>3. Payload(h) \in Seq(Lines)
  BY <1>1, PayloadIsLines DEF Chosen
<1>4. CASE WriteSome(h)
  <2>1. PICK upto \in (job[h].off + 1)..Len(Payload(h)) :
          /\ disk' = [disk EXCEPT ![job[h].fd] =
                        WriteAt(@, job[h].off, SubSeq(Payload(h), job[h].off + 1, upto), "nul")]
          /\ job' = [job EXCEPT ![h].off = upto]
          /\ held' = IF job[h].fd = file["service"]
                       THEN held \cup {disk'[job[h].fd]} ELSE held
    BY <1>4 DEF WriteSome
  <2>2. /\ synced' = synced \ {job[h].fd} /\ UNCHANGED <<file, tmp, pc>> /\ pc[h] = "write"
    BY <1>4 DEF WriteSome
  <2>3. Hand(h, job[h].op, job[h].read, job[h].new, job[h].target, job[h].fd, upto)
    BY <1>1, <2>1, HandOne
  <2>4. held' = held
    BY <1>2, <2>1 DEF Names
  <2>5. disk'[job[h].fd] = [k \in 1..upto |-> Payload(h)[k]]
    <3>1. job[h].off \in Nat
      BY <1>2, <1>3 DEF WrittenSoFar
    <3>2. WriteAt([k \in 1..job[h].off |-> Payload(h)[k]], job[h].off,
                  SubSeq(Payload(h), job[h].off + 1, upto), "nul")
            = [k \in 1..upto |-> Payload(h)[k]]
      BY <1>3, <3>1, WriteOn
    <3>3. disk'[job[h].fd] = WriteAt(disk[job[h].fd], job[h].off,
                               SubSeq(Payload(h), job[h].off + 1, upto), "nul")
      BY <1>1, <1>2, <2>1 DEF DataInv, WrittenSoFar
    <3> QED BY <1>2, <3>2, <3>3 DEF WrittenSoFar
  <2>6. \A n \in Names : file[n] # NoInode => disk'[file[n]] = disk[file[n]]
    BY <1>1, <1>2, <2>1 DEF DataInv, NamesInv
  <2>7. NamesInv'
    BY <1>1, <2>2 DEF NamesInv, Inodes
  <2>8. DataInv'
    <3>1. disk' = [i \in Inodes |-> disk'[i]]
      BY <1>1, <2>1 DEF DataInv
    <3> QED BY <1>1, <1>2, <2>2, <2>4, <2>6, <3>1 DEF DataInv, Inodes
  <2>9. Payload(h)' = Payload(h) /\ Edited(h)' /\ Ordered(h)'
    BY <1>1, <2>2, <2>3 DEF Payload, Edited, Ordered, Hand, HandInv, Chosen, Writing
  <2>10. WrittenSoFar(h)'
    <3>1. upto \in 0..Len(Payload(h))
      BY <1>2, <1>3 DEF WrittenSoFar
    <3> QED BY <1>2, <2>2, <2>3, <2>5, <2>9, <3>1 DEF WrittenSoFar, Hand, Inodes
  <2>11. HandInv(h)'
    BY <1>1, <2>2, <2>3, <2>4, <2>9, <2>10 DEF HandInv, Hand, HasRead, Chosen, Writing
  <2>12. Implements
    BY <1>1, <2>4, <2>6, SameImplements
  <2> QED BY <1>1, <2>2, <2>3, <2>7, <2>8, <2>11, <2>12 DEF RefInv, Shape, Hand
<1>5. CASE Fsync(h)
  <2>1. /\ pc[h] = "write" /\ job[h].off = Len(Payload(h))
        /\ synced' = synced \cup {job[h].fd} /\ Goto(h, "rename")
        /\ UNCHANGED <<file, tmp, disk, job, held>>
    BY <1>5 DEF Fsync
  <2>2. pc'[h] = "rename" /\ pc' = [g \in Helpers |-> pc'[g]]
    BY <1>1, <2>1 DEF Goto, Shape
  <2>3. NamesInv' /\ DataInv'
    BY <1>1, <2>1 DEF NamesInv, DataInv, Inodes
  <2>4. Payload(h)' = Payload(h) /\ Edited(h)' /\ Ordered(h)'
    BY <1>1, <2>1, <2>2 DEF Payload, Edited, Ordered, HandInv, Chosen, Writing
  <2>5. WrittenSoFar(h)'
    BY <1>2, <2>1, <2>4 DEF WrittenSoFar, Inodes
  <2>6. HandInv(h)'
    BY <1>1, <2>1, <2>2, <2>4, <2>5 DEF HandInv, HasRead, Chosen, Writing
  <2>7. Implements
    BY <2>1, SameImplements
  <2> QED BY <1>1, <2>1, <2>2, <2>3, <2>6, <2>7 DEF RefInv, Shape, JobShape, NamesInv
<1>6. CASE WriteFails(h)
  <2>1. /\ tmp' = [tmp EXCEPT ![job[h].target] = NoInode] /\ Finish(h)
        /\ UNCHANGED <<file, disk, synced, held>>
    BY <1>6 DEF WriteFails, CleanUp
  <2>2. NamesInv' /\ DataInv'
    BY <1>1, <1>2, <2>1 DEF NamesInv, DataInv, Inodes
  <2>3. HandInv(h)' /\ JobShape' /\ pc' = [g \in Helpers |-> pc'[g]]
    BY <1>1, <2>1, FinishedHand
  <2>4. Implements
    BY <2>1, SameImplements
  <2> QED BY <2>2, <2>3, <2>4 DEF RefInv, Shape, NamesInv
<1> QED BY <1>4, <1>5, <1>6

\* The rename is where the promise is kept: what gets the name is a whole edit, or a copy.
LEMMA RenamingStep ==
    ASSUME NEW h, Helpers = {h}, RefInv, RenameTmp(h)
    PROVE  RefInv' /\ Implements
<1> DEFINE name == job[h].target
<1>1. /\ Shape /\ JobShape /\ h \in Helpers /\ HandInv(h) /\ NamesInv /\ DataInv
      /\ pc[h] = "rename" /\ tmp[name] # NoInode
  BY DEF RefInv, Shape, RenameTmp
<1>2. /\ WrittenSoFar(h) /\ Edited(h) /\ Ordered(h) /\ name \in Names /\ job[h].read \in held
  BY <1>1 DEF HandInv, HasRead, Chosen, Writing
<1>3. Payload(h) \in Seq(Lines) /\ job[h].new \in Seq(Lines)
  BY <1>1, PayloadIsLines DEF Chosen, Writing
<1>4. disk[tmp[name]] = Payload(h) /\ tmp[name] \in synced
  <2>1. [k \in 1..Len(Payload(h)) |-> Payload(h)[k]] = Payload(h)
    BY <1>3
  <2> QED BY <1>1, <1>2, <2>1 DEF WrittenSoFar
<1>5. /\ file' = [file EXCEPT ![name] = tmp[name]]
      /\ tmp' = [tmp EXCEPT ![name] = NoInode]
      /\ UNCHANGED <<disk, synced>>
  BY DEF RenameTmp
<1>6. /\ \A n \in Names : file'[n] = IF n = name THEN tmp[name] ELSE file[n]
      /\ \A n \in Names : tmp'[n] = IF n = name THEN NoInode ELSE tmp[n]
  BY <1>1, <1>5 DEF NamesInv
<1>7. NamesInv'
  <2>1. file' = [n \in Names |-> file'[n]] /\ tmp' = [n \in Names |-> tmp'[n]]
    BY <1>1, <1>5 DEF NamesInv
  <2> HIDE DEF name
  <2>2. \A n \in Names : file'[n] \in Inodes \cup {NoInode} /\ tmp'[n] \in Inodes \cup {NoInode}
    BY <1>1, <1>2, <1>6 DEF NamesInv
  <2>3. ASSUME NEW m \in Names, NEW n \in Names, file'[m] = tmp'[n] PROVE tmp'[n] = NoInode
    BY <1>1, <1>2, <1>6, <2>3 DEF NamesInv
  <2>4. ASSUME NEW m \in Names, NEW n \in Names, m # n
        PROVE  /\ file'[m] = file'[n] => file'[n] = NoInode
               /\ tmp'[m] = tmp'[n] => tmp'[n] = NoInode
    BY <1>1, <1>2, <1>6, <2>4 DEF NamesInv
  <2> QED BY <2>1, <2>2, <2>3, <2>4 DEF NamesInv
<1>8. CASE /\ name = "service"
           /\ Note(disk[tmp[name]]) /\ Finish(h)
  <2>1. held' = held \cup {job[h].new} /\ disk[tmp[name]] = job[h].new
    BY <1>4, <1>8 DEF Note, Payload
  <2>2. DataInv'
    <3>1. \A n \in Names : file'[n] # NoInode => file'[n] \in synced /\ disk[file'[n]] \in held'
      BY <1>1, <1>4, <1>6, <2>1 DEF DataInv
    <3>2. held' \subseteq Seq(Lines)
      BY <1>1, <1>3, <2>1 DEF DataInv
    <3> QED BY <1>1, <1>5, <3>1, <3>2 DEF DataInv, Inodes
  <2>3. HandInv(h)' /\ JobShape' /\ pc' = [g \in Helpers |-> pc'[g]]
    BY <1>1, <1>8, FinishedHand
  <2>4. /\ Content(file["service"])' = job[h].new
        /\ Content(file["backup"])' = Content(file["backup"])
    BY <1>1, <1>5, <1>6, <1>8, <2>1 DEF Content, Names
  <2>5. Promise!Replace(job[h].new)
    BY <2>1, <2>4 DEF Promise!Replace
  <2>6. ASSUME job[h].op = "enable" PROVE Implements
    <3>1. file["backup"] # NoInode
      BY <1>2, <1>8, <2>6 DEF Ordered
    <3>2. Content(file["backup"]) \in Seq(Lines)
      BY <1>1, <3>1 DEF Content, DataInv, Names
    <3>3. Content(file["backup"]) # Missing
      BY <3>2, NoneAssumption
    <3>4. Promise!Enable
      BY <1>2, <2>5, <2>6, <3>3, SameEdits DEF Edited, Promise!Enable
    <3> QED BY <3>4 DEF Implements, Promise!Next
  <2>7. ASSUME job[h].op # "enable" PROVE Implements
    <3>1. Promise!Disable
      BY <1>2, <2>5, <2>7, SameEdits DEF Edited, Promise!Disable
    <3> QED BY <3>1 DEF Implements, Promise!Next
  <2>8. Implements
    BY <2>6, <2>7
  <2> QED BY <1>7, <2>2, <2>3, <2>8 DEF RefInv, Shape, NamesInv
<1>9. CASE /\ name = "backup"
           /\ job' = [job EXCEPT ![h].target = "service", ![h].fd = NoInode, ![h].off = 0]
           /\ Goto(h, "open") /\ UNCHANGED held
  <2>1. /\ job[h].op = "enable" /\ file["backup"] = NoInode
    BY <1>2, <1>9 DEF Edited, Ordered
  <2>2. Hand(h, job[h].op, job[h].read, job[h].new, "service", NoInode, 0)
    BY <1>1, <1>9, HandMore
  <2>3. pc'[h] = "open" /\ pc' = [g \in Helpers |-> pc'[g]]
    BY <1>1, <1>9 DEF Goto, Shape
  <2>4. disk[tmp[name]] = job[h].read
    BY <1>4, <1>9 DEF Payload
  <2>5. DataInv'
    <3>1. \A n \in Names : file'[n] # NoInode => file'[n] \in synced /\ disk[file'[n]] \in held
      BY <1>1, <1>2, <1>4, <1>6, <2>4 DEF DataInv
    <3> QED BY <1>1, <1>5, <1>9, <3>1 DEF DataInv, Inodes
  <2>6. Edited(h)' /\ Ordered(h)'
    BY <1>1, <1>2, <1>6, <1>9, <2>1, <2>2 DEF Edited, Ordered, Hand, Names
  <2>7. HandInv(h)'
    BY <1>1, <1>2, <1>9, <2>1, <2>2, <2>3, <2>6
       DEF HandInv, Hand, HasRead, Chosen, Writing, Names
  <2>8. /\ Content(file["service"])' = Content(file["service"])
        /\ Content(file["backup"]) = Missing
        /\ Content(file["backup"])' = job[h].read
    BY <1>1, <1>5, <1>6, <1>9, <2>1, <2>4 DEF Content, Names
  <2>9. Promise!Save
    BY <1>2, <1>9, <2>8 DEF Promise!Save
  <2> QED BY <1>7, <2>2, <2>3, <2>5, <2>7, <2>9
          DEF RefInv, Shape, NamesInv, Hand, Implements, Promise!Next
<1> QED BY <1>8, <1>9 DEF RenameTmp

LEMMA AdminStep ==
    ASSUME NEW h, Helpers = {h}, RefInv, AdminEdit
    PROVE  RefInv' /\ Implements
<1> DEFINE inode == FreeInode
<1>1. /\ Shape /\ NamesInv /\ DataInv /\ HandInv(h) /\ h \in Helpers
      /\ UNCHANGED <<tmp, pc, job>>
  BY DEF RefInv, AdminEdit
<1>2. inode \in Inodes /\ \A n \in Names : inode # file[n] /\ inode # tmp[n]
  BY <1>1, InodeFree
<1>3. PICK content \in AdminContents :
        /\ file' = [file EXCEPT !["service"] = inode]
        /\ disk' = [disk EXCEPT ![inode] = content]
        /\ synced' = synced \cup {inode}
        /\ held' = held \cup {content}
  BY DEF AdminEdit, Note
<1> HIDE DEF inode
<1>4. inode # NoInode /\ content \in Seq(Lines)
  BY <1>2, <1>3, NoneAssumption, ContentsAssumption DEF Inodes
<1>5. /\ file'["service"] = inode /\ file'["backup"] = file["backup"]
      /\ disk'[inode] = content /\ \A i \in Inodes \ {inode} : disk'[i] = disk[i]
  BY <1>1, <1>2, <1>3 DEF NamesInv, DataInv, Names
<1>6. NamesInv'
  BY <1>1, <1>2, <1>3, <1>4, <1>5 DEF NamesInv, Names, Inodes
<1>7. DataInv'
  BY <1>1, <1>2, <1>3, <1>4, <1>5 DEF DataInv, NamesInv, Names, Inodes
<1>8. Payload(h)' = Payload(h) /\ (Edited(h)' <=> Edited(h)) /\ (Ordered(h)' <=> Ordered(h))
  BY <1>1, <1>5 DEF Payload, Edited, Ordered
<1>9. WrittenSoFar(h) /\ job[h].target \in Names => WrittenSoFar(h)'
  <2> SUFFICES ASSUME WrittenSoFar(h), job[h].target \in Names PROVE WrittenSoFar(h)'
    OBVIOUS
  <2>1. job[h].fd \in Inodes \ {inode}
    BY <1>2 DEF WrittenSoFar
  <2>2. disk'[job[h].fd] = disk[job[h].fd]
    BY <1>5, <2>1
  <2> QED BY <1>1, <1>3, <1>8, <2>2 DEF WrittenSoFar, Inodes
<1>10. HandInv(h)'
  BY <1>1, <1>3, <1>8, <1>9 DEF HandInv
<1>11. Content(file["service"])' = content /\ Content(file["backup"])' = Content(file["backup"])
  BY <1>1, <1>2, <1>4, <1>5 DEF Content, NamesInv, Names
<1>12. Promise!AdminEdit
  BY <1>3, <1>11 DEF Promise!AdminEdit, Promise!Replace
<1>13. Shape'
  BY <1>1 DEF Shape, JobShape
<1> QED BY <1>6, <1>7, <1>10, <1>12, <1>13 DEF RefInv, Implements, Promise!Next

\* What had a name was on the disk already.
LEMMA LossStep ==
    ASSUME NEW h, Helpers = {h}, RefInv, PowerLoss
    PROVE  RefInv' /\ Implements
<1>1. /\ NamesInv /\ DataInv /\ h \in Helpers /\ UNCHANGED <<file, tmp>>
      /\ disk' = [i \in Inodes |-> disk'[i]]
      /\ \A i \in Inodes : i \in synced => disk'[i] = disk[i]
      /\ synced' = Inodes
      /\ pc' = [g \in Helpers |-> "idle"] /\ job' = [g \in Helpers |-> NoJob]
      /\ held' = IF file["service"] = NoInode THEN held
                 ELSE held \cup {disk'[file["service"]]}
  BY DEF RefInv, PowerLoss
<1>2. \A n \in Names : file[n] # NoInode =>
        file[n] \in Inodes /\ disk'[file[n]] = disk[file[n]] /\ disk[file[n]] \in held
  BY <1>1 DEF NamesInv, DataInv
<1>3. held' = held
  BY <1>1, <1>2 DEF Names
<1>4. NamesInv'
  BY <1>1 DEF NamesInv, Inodes
<1>5. DataInv'
  BY <1>1, <1>2, <1>3 DEF DataInv, Inodes
<1>6. /\ NoJob.target = "service" /\ NoJob.fd = NoInode
      /\ NoJob = Job(NoJob.op, NoJob.read, NoJob.new, NoJob.tries, NoJob.passes,
                     NoJob.target, NoJob.fd, NoJob.off)
  BY DEF NoJob, Job
<1>7. HandInv(h)' /\ JobShape'
  BY <1>1, <1>6 DEF HandInv, HasRead, Chosen, Writing, Names, JobShape
<1>8. Implements
  BY <1>1, <1>2, <1>3, SameImplements
<1> QED BY <1>1, <1>4, <1>5, <1>7, <1>8 DEF RefInv, Shape, NamesInv

LEMMA RefStep ==
    ASSUME OneHelper
    PROVE  RefInv /\ [Next]_vars => RefInv' /\ Implements
<1> SUFFICES ASSUME RefInv, [Next]_vars PROVE RefInv' /\ Implements
  OBVIOUS
<1>1. PICK h : Helpers = {h}
  BY DEF OneHelper
<1>2. CASE HelperStep(h)
  BY <1>1, <1>2, ReadingStep, ChoosingStep, OpeningStep, WritingStep, RenamingStep
     DEF HelperStep
<1>3. CASE KillHelper(h)
  <2>1. Shape /\ h \in Helpers /\ Finish(h) /\ SameFiles
    BY <1>1, <1>3 DEF RefInv, KillHelper, SameFiles, fsVars
  <2> QED BY <1>1, <2>1, FinishedHand, OwnStep
<1>4. CASE UNCHANGED vars
  <2>1. SameFiles /\ UNCHANGED <<pc, job>>
    BY <1>4 DEF vars, fsVars, SameFiles
  <2>2. HandInv(h)'
    BY <1>1, <2>1 DEF RefInv, HandInv, SameFiles, Edited, Ordered, WrittenSoFar, Payload,
       Inodes
  <2>3. JobShape' /\ pc' = [g \in Helpers |-> pc'[g]]
    BY <2>1 DEF RefInv, Shape, JobShape
  <2> QED BY <1>1, <2>1, <2>2, <2>3, OwnStep
<1> QED BY <1>1, <1>2, <1>3, <1>4, AdminStep, LossStep DEF Next

LEMMA RefInit == ASSUME OneHelper PROVE Init => RefInv /\ Promise!Init
<1> SUFFICES ASSUME Init PROVE RefInv /\ Promise!Init
  OBVIOUS
<1>1. PICK h : Helpers = {h}
  BY DEF OneHelper
<1>2. PICK here \in BOOLEAN, content \in AdminContents :
         /\ file = [n \in Names |-> IF here /\ n = "service" THEN 1 ELSE NoInode]
         /\ disk = [i \in Inodes |-> IF here /\ i = 1 THEN content ELSE <<>>]
         /\ held = IF here THEN {content} ELSE {}
  BY DEF Init
<1>3. content \in Seq(Lines) /\ content # Missing
  BY ContentsAssumption, NoneAssumption
<1>4. 1 \in Inodes /\ 1 # NoInode
  BY <1>1, InodesAreFive, NoneAssumption
<1>5. Shape /\ \A g \in Helpers : pc[g] = "idle" /\ job[g] = NoJob
  BY InitEdit DEF Init, EditInv
<1>6. \A g \in Helpers : HandInv(g)
  <2>1. NoJob.target = "service" /\ NoJob.fd = NoInode
    BY DEF NoJob
  <2> QED BY <1>5, <2>1 DEF HandInv, HasRead, Chosen, Writing, Names
<1>7. NamesInv /\ DataInv
  BY <1>2, <1>3, <1>4 DEF Init, NamesInv, DataInv, Names
<1>8. Promise!Init
  <2>1. Content(file["backup"]) = Missing
    BY <1>2 DEF Content, Names
  <2>2. Content(file["service"]) = IF here THEN content ELSE Missing
    BY <1>2, <1>4 DEF Content, Names
  <2> QED BY <1>2, <1>3, <2>1, <2>2 DEF Promise!Init
<1> QED BY <1>5, <1>6, <1>7, <1>8 DEF RefInv

\* Whatever system call fails, whenever the helper is killed or the power goes, and whatever
\* the administrator saves meanwhile: the service file is at every moment whole and put
\* there in a permitted way, and the backup is written once (writeFileAtomic, runPamEnable,
\* runPamDisable).
THEOREM EditImplementsFile ==
    ASSUME OneHelper
    PROVE  Spec => ServiceFileSpec
<1>1. Init => RefInv /\ Promise!Init
  BY RefInit
<1>2. RefInv /\ [Next]_vars => RefInv' /\ [Promise!Next]_(Promise!vars)
  BY RefStep DEF Implements
<1> QED BY <1>1, <1>2, PTL DEF Spec, ServiceFileSpec, Promise!Spec

-----------------------------------------------------------------------------
(* What libpam makes of it                                                   *)

Passes(content, factors, i) ==
    IF content[i] \in FacialLines THEN "face" \in factors
    ELSE content[i] = "unix" /\ "password" \in factors

Unfailed(content, factors, n) ==
    \A i \in 1..n : \/ Passes(content, factors, i)
                    \/ content[i] = "sufficient" /\ ~Passes(content, factors, i)

LEMMA AcceptsIs ==
    ASSUME NEW content, NEW factors
    PROVE  Accepts(content, factors) <=>
             \/ \E i \in 1..Len(content) : /\ content[i] = "sufficient"
                                           /\ Passes(content, factors, i)
                                           /\ Unfailed(content, factors, i - 1)
             \/ /\ Unfailed(content, factors, Len(content))
                /\ \E i \in 1..Len(content) : Passes(content, factors, i)
BY DEF Accepts, Passes, Unfailed

\* A sufficient line on top adds a face, and lets the others decide without one.
LEMMA EnabledAccepts ==
    ASSUME NEW content \in Seq(Lines), NEW factors, detectPamFacialState(content) = "Absent"
    PROVE  Accepts(enableInContent(content), factors)
             <=> Accepts(content, factors) \/ "face" \in factors
<1> DEFINE after == enableInContent(content)
<1>1. after = <<"sufficient">> \o content
  BY DEF enableInContent
<1>2. /\ Len(after) = Len(content) + 1 /\ Len(content) \in Nat
      /\ after[1] = "sufficient"
      /\ \A i \in 1..Len(content) : after[i + 1] = content[i]
  <2>1. <<"sufficient">> \in Seq({"sufficient"}) /\ Len(<<"sufficient">>) = 1
    OBVIOUS
  <2> QED BY <1>1, <2>1
<1> HIDE DEF after
<1>3. \A i \in 1..Len(content) : Passes(after, factors, i + 1) <=> Passes(content, factors, i)
  BY <1>2 DEF Passes
<1>4. Passes(after, factors, 1) <=> "face" \in factors
  BY <1>2 DEF Passes, FacialLines
<1>5. \A n \in 0..Len(content) :
        Unfailed(after, factors, n + 1) <=> Unfailed(content, factors, n)
  <2> SUFFICES ASSUME NEW n \in 0..Len(content)
               PROVE  Unfailed(after, factors, n + 1) <=> Unfailed(content, factors, n)
    OBVIOUS
  <2>1. ASSUME Unfailed(after, factors, n + 1), NEW i \in 1..n
        PROVE  \/ Passes(content, factors, i)
               \/ content[i] = "sufficient" /\ ~Passes(content, factors, i)
    <3>1. i + 1 \in 1..(n + 1) /\ i \in 1..Len(content)
      BY <1>2
    <3> QED BY <1>2, <1>3, <2>1, <3>1 DEF Unfailed
  <2>2. ASSUME Unfailed(content, factors, n), NEW i \in 1..(n + 1)
        PROVE  \/ Passes(after, factors, i)
               \/ after[i] = "sufficient" /\ ~Passes(after, factors, i)
    <3>1. CASE i = 1
      BY <1>2, <3>1
    <3>2. CASE i # 1
      <4>1. /\ i - 1 \in 1..n /\ i - 1 \in 1..Len(content) /\ (i - 1) + 1 = i
        BY <1>2, <3>2
      <4> QED BY <1>2, <1>3, <2>2, <4>1 DEF Unfailed
    <3> QED BY <3>1, <3>2
  <2> QED BY <2>1, <2>2 DEF Unfailed
<1>6. ASSUME "face" \in factors PROVE Accepts(after, factors)
  <2>1. 1 \in 1..Len(after) /\ Unfailed(after, factors, 1 - 1)
    BY <1>2 DEF Unfailed
  <2> QED BY <1>2, <1>4, <1>6, <2>1, AcceptsIs
<1>7. ASSUME Accepts(content, factors) PROVE Accepts(after, factors)
  <2>1. ASSUME NEW i \in 1..Len(content), content[i] = "sufficient",
               Passes(content, factors, i), Unfailed(content, factors, i - 1)
        PROVE  Accepts(after, factors)
    <3>1. i - 1 \in 0..Len(content) /\ i + 1 \in 1..Len(after)
          /\ (i - 1) + 1 = i /\ (i + 1) - 1 = i
      BY <1>2
    <3>2. Unfailed(after, factors, (i + 1) - 1)
      BY <1>5, <2>1, <3>1
    <3> QED BY <1>2, <1>3, <2>1, <3>1, <3>2, AcceptsIs
  <2>2. ASSUME Unfailed(content, factors, Len(content)), NEW i \in 1..Len(content),
               Passes(content, factors, i)
        PROVE  Accepts(after, factors)
    <3>1. Unfailed(after, factors, Len(after))
      BY <1>2, <1>5, <2>2
    <3>2. i + 1 \in 1..Len(after)
      BY <1>2
    <3> QED BY <1>3, <2>2, <3>1, <3>2, AcceptsIs
  <2> QED BY <1>7, <2>1, <2>2, AcceptsIs
<1>8. ASSUME Accepts(after, factors), "face" \notin factors PROVE Accepts(content, factors)
  <2>1. ASSUME NEW i \in 1..Len(after), after[i] = "sufficient", Passes(after, factors, i)
        PROVE  FALSE
    BY <1>8, <2>1 DEF Passes, FacialLines
  <2>2. PICK i \in 1..Len(after) : Passes(after, factors, i)
    BY <1>8, <2>1, AcceptsIs
  <2>3. Unfailed(after, factors, Len(after))
    BY <1>8, <2>1, AcceptsIs
  <2>4. i # 1
    BY <1>4, <1>8, <2>2
  <2>5. i - 1 \in 1..Len(content) /\ (i - 1) + 1 = i
    BY <1>2, <2>4
  <2>6. Passes(content, factors, i - 1)
    BY <1>3, <2>2, <2>5
  <2>7. Unfailed(content, factors, Len(content))
    BY <1>2, <1>5, <2>3
  <2> QED BY <2>5, <2>6, <2>7, AcceptsIs
<1> QED BY <1>6, <1>7, <1>8 DEF after

\* Without sufficient lines the others decide as they did where the face never passes.
LEMMA DisabledAccepts ==
    ASSUME NEW content \in Seq(Lines), NEW factors,
           \A i \in DOMAIN content : content[i] # "required"
    PROVE  Accepts(disableInContent(content), factors)
             <=> Accepts(content, factors \ {"face"})
<1> DEFINE left   == disableInContent(content)
           others == factors \ {"face"}
           kept   == {content[i] : i \in {j \in DOMAIN content : NotFacial(content[j])}}
<1>1. /\ left \in Seq(Lines) /\ \A k \in DOMAIN left : left[k] \in kept
      /\ \A line \in kept : \E k \in DOMAIN left : left[k] = line
  BY DisableLeaves
<1> HIDE DEF left
<1>2. DOMAIN left = 1..Len(left) /\ DOMAIN content = 1..Len(content)
  BY <1>1
<1>3. /\ \A k \in 1..Len(left) : \E i \in 1..Len(content) :
              NotFacial(content[i]) /\ content[i] = left[k]
      /\ \A i \in 1..Len(content) : NotFacial(content[i]) =>
              \E k \in 1..Len(left) : left[k] = content[i]
  <2>1. \A line : line \in kept <=>
          \E i \in DOMAIN content : NotFacial(content[i]) /\ content[i] = line
    OBVIOUS
  <2> HIDE DEF kept
  <2>2. ASSUME NEW k \in 1..Len(left)
        PROVE  \E i \in 1..Len(content) : NotFacial(content[i]) /\ content[i] = left[k]
    BY <1>1, <1>2, <2>1
  <2>3. ASSUME NEW i \in 1..Len(content), NotFacial(content[i])
        PROVE  \E k \in 1..Len(left) : left[k] = content[i]
    BY <1>1, <1>2, <2>1, <2>3
  <2> QED BY <2>2, <2>3
<1>4. \A k \in 1..Len(left) : /\ left[k] \notin FacialLines /\ left[k] # "sufficient"
                              /\ (Passes(left, factors, k) <=>
                                    left[k] = "unix" /\ "password" \in factors)
  BY <1>3 DEF NotFacial, lineReferencesPamFacial, FacialLines, Passes
<1>5. \A i \in 1..Len(content) :
        /\ Passes(content, others, i) <=> content[i] = "unix" /\ "password" \in factors
        /\ content[i] = "sufficient" \/ NotFacial(content[i])
  BY <1>2 DEF NotFacial, lineReferencesPamFacial, FacialLines, Passes
<1>6. Accepts(left, factors) <=>
        /\ \A k \in 1..Len(left) : left[k] = "unix" /\ "password" \in factors
        /\ \E k \in 1..Len(left) : left[k] = "unix" /\ "password" \in factors
  BY <1>4, AcceptsIs DEF Unfailed
<1>7. Accepts(content, others) <=>
        /\ \A i \in 1..Len(content) : NotFacial(content[i]) =>
              content[i] = "unix" /\ "password" \in factors
        /\ \E i \in 1..Len(content) : content[i] = "unix" /\ "password" \in factors
  <2>1. \A i \in 1..Len(content) : ~(content[i] = "sufficient" /\ Passes(content, others, i))
    BY <1>5
  <2>2. Unfailed(content, others, Len(content)) <=>
          \A i \in 1..Len(content) : NotFacial(content[i]) =>
              content[i] = "unix" /\ "password" \in factors
    BY <1>5 DEF Unfailed, NotFacial, lineReferencesPamFacial, FacialLines
  <2>3. Accepts(content, others) <=>
          /\ Unfailed(content, others, Len(content))
          /\ \E i \in 1..Len(content) : Passes(content, others, i)
    BY <2>1, AcceptsIs
  <2> QED BY <1>5, <2>2, <2>3
<1>8. "unix" \notin FacialLines
  BY DEF FacialLines
<1>9. Accepts(left, factors) <=> Accepts(content, others)
  BY <1>3, <1>6, <1>7, <1>8 DEF NotFacial, lineReferencesPamFacial
<1> QED BY <1>9 DEF left

\* Only the rename of its own helper installs something.
LEMMA InstallsByRename ==
    ASSUME OneHelper, [Next]_vars, NEW h \in Helpers, Installs(h)
    PROVE  RenameTmp(h)
<1>1. Helpers = {h}
  BY DEF OneHelper
<1>2. ASSUME AdminEdit PROVE FALSE
  BY <1>2 DEF AdminEdit, Installs
<1>3. ASSUME ~RenameTmp(h), ~AdminEdit PROVE file' = file
  BY <1>1, <1>3 DEF Next, HelperStep, KillHelper, PowerLoss, Begin, ReadService, VerifyOnce,
     Enable, Disable, Install, ChooseTarget, OpenTmp, WriteSome, Fsync, WriteFails, fsVars, vars
<1> QED BY <1>2, <1>3 DEF Installs

\* What is installed is a whole edit.
LEMMA InstalledIsNew ==
    ASSUME OneHelper, RefInv, [Next]_vars, NEW h \in Helpers, Installs(h)
    PROVE  /\ disk'[file'["service"]] = job[h].new
           /\ Edited(h) /\ job[h].read \in Seq(Lines)
<1>1. Helpers = {h}
  BY DEF OneHelper
<1>2. RenameTmp(h)
  BY InstallsByRename
<1>3. /\ pc[h] = "rename" /\ file' = [file EXCEPT ![job[h].target] = tmp[job[h].target]]
      /\ disk' = disk
  BY <1>2 DEF RenameTmp
<1>4. HandInv(h) /\ DataInv /\ NamesInv
  BY DEF RefInv
<1>5. job[h].target = "service"
  BY <1>3, <1>4 DEF Installs, HandInv, NamesInv, Names
<1>6. WrittenSoFar(h) /\ Edited(h) /\ job[h].read \in Seq(Lines)
  BY <1>3, <1>4 DEF HandInv, DataInv, HasRead, Chosen, Writing
<1>7. Payload(h) = job[h].new /\ job[h].new \in Seq(Lines)
  BY <1>3, <1>4, <1>5, PayloadIsLines DEF Payload, Chosen, Writing
<1>8. [k \in 1..Len(job[h].new) |-> job[h].new[k]] = job[h].new
  BY <1>7
<1>9. disk[tmp["service"]] = job[h].new
  BY <1>3, <1>5, <1>6, <1>7, <1>8 DEF WrittenSoFar
<1>10. file'["service"] = tmp["service"]
  BY <1>3, <1>4, <1>5 DEF NamesInv, Names
<1> QED BY <1>3, <1>6, <1>9, <1>10

\* Whoever gets in with a password gets in after an edit: enabling adds a face, removing
\* takes it away, and nothing else (PamEnableConfirmDialog, runPamEnable, runPamDisable).
THEOREM PasswordStillWorks ==
    ASSUME OneHelper
    PROVE  Spec => PasswordKeepsWorking
<1> DEFINE AsBefore ==
      \A h \in Helpers, factors \in SUBSET {"face", "password"} :
          Installs(h) =>
            LET before == Accepts(job[h].read, factors)
                after  == Accepts(disk'[file'["service"]], factors)
            IN  /\ job[h].op = "enable" => (after <=> before \/ "face" \in factors)
                /\ job[h].op = "disable" /\ (\A i \in DOMAIN job[h].read :
                                               job[h].read[i] # "required")
                     => (after <=> Accepts(job[h].read, factors \ {"face"}))
<1>1. ASSUME RefInv, [Next]_vars PROVE AsBefore
  <2> SUFFICES ASSUME NEW h \in Helpers, NEW factors \in SUBSET {"face", "password"},
                      Installs(h)
               PROVE  LET before == Accepts(job[h].read, factors)
                          after  == Accepts(disk'[file'["service"]], factors)
                      IN  /\ job[h].op = "enable" => (after <=> before \/ "face" \in factors)
                          /\ job[h].op = "disable" /\ (\A i \in DOMAIN job[h].read :
                                                         job[h].read[i] # "required")
                               => (after <=> Accepts(job[h].read, factors \ {"face"}))
    OBVIOUS
  <2>1. /\ disk'[file'["service"]] = job[h].new
        /\ Edited(h) /\ job[h].read \in Seq(Lines)
    BY <1>1, InstalledIsNew
  <2>2. ASSUME job[h].op = "enable"
        PROVE  Accepts(job[h].new, factors)
                 <=> Accepts(job[h].read, factors) \/ "face" \in factors
    BY <2>1, <2>2, EnabledAccepts DEF Edited
  <2>3. ASSUME job[h].op = "disable", \A i \in DOMAIN job[h].read : job[h].read[i] # "required"
        PROVE  Accepts(job[h].new, factors) <=> Accepts(job[h].read, factors \ {"face"})
    BY <2>1, <2>3, DisabledAccepts DEF Edited
  <2> QED BY <2>1, <2>2, <2>3
<1>2. Init => RefInv
  BY RefInit
<1>3. RefInv /\ [Next]_vars => RefInv'
  BY RefStep
<1> QED BY <1>1, <1>2, <1>3, PTL DEF Spec, PasswordKeepsWorking
-----------------------------------------------------------------------------
(* What the documents say, and where it is true                              *)

\* The inode that has the service file's name is not written to.
LEMMA LiveIsKept ==
    ASSUME OneHelper, RefInv, [Next]_vars, NEW live, live = file["service"],
           live # NoInode, file'["service"] = live
    PROVE  disk'[live] = disk[live]
<1>1. PICK h : Helpers = {h}
  BY DEF OneHelper
<1>2. /\ NamesInv /\ DataInv /\ HandInv(h) /\ h \in Helpers
      /\ live \in Inodes /\ live \in synced
  BY <1>1 DEF RefInv, NamesInv, DataInv, Names
<1>3. CASE OpenTmp(h)
  <2> DEFINE name  == job[h].target
             inode == IF tmp[name] = NoInode THEN FreeInode ELSE tmp[name]
  <2>1. disk' = disk \/ disk' = [disk EXCEPT ![inode] = <<>>]
    BY <1>3 DEF OpenTmp
  <2>2. inode # live
    <3>1. name \in Names /\ "service" \in Names
      BY <1>2 DEF HandInv, Names
    <3>2. CASE tmp[name] = NoInode
      BY <1>1, <1>2, <3>1, <3>2, InodeFree
    <3>3. CASE tmp[name] # NoInode
      BY <1>2, <3>1, <3>3 DEF NamesInv
    <3> QED BY <3>2, <3>3
  <2> HIDE DEF inode
  <2> QED BY <1>2, <2>1, <2>2 DEF DataInv
<1>4. CASE WriteSome(h)
  <2>1. pc[h] = "write" /\ \E data : disk' = [disk EXCEPT ![job[h].fd] = data]
    BY <1>4 DEF WriteSome
  <2>2. job[h].fd = tmp[job[h].target] /\ job[h].fd \in Inodes /\ job[h].target \in Names
    BY <1>2, <2>1 DEF HandInv, WrittenSoFar, Writing
  <2>3. job[h].fd # live
    BY <1>2, <2>2, NoneAssumption DEF NamesInv, Names, Inodes
  <2> QED BY <1>2, <2>1, <2>3 DEF DataInv
<1>5. CASE AdminEdit
  <2>1. FreeInode # live /\ \E content : disk' = [disk EXCEPT ![FreeInode] = content]
    BY <1>1, <1>2, <1>5, InodeFree DEF AdminEdit, Names
  <2> QED BY <1>2, <2>1 DEF DataInv
<1>6. CASE PowerLoss
  BY <1>2, <1>6 DEF PowerLoss
<1>7. CASE ~(OpenTmp(h) \/ WriteSome(h) \/ AdminEdit \/ PowerLoss)
  BY <1>1, <1>7 DEF Next, HelperStep, KillHelper, Begin, ReadService, VerifyOnce, Enable,
     Disable, Install, ChooseTarget, Fsync, WriteFails, RenameTmp, fsVars, vars
<1> QED BY <1>3, <1>4, <1>5, <1>6, <1>7

\* What enroll/main.cpp says of its atomic write is true of one helper, whatever fails and
\* whenever the power goes: the service file is replaced, and never written in place.
\* (The run with two helpers shows that the assumption is needed.)
THEOREM WholeWithOneHelper ==
    ASSUME OneHelper
    PROVE  Spec => NeverHalfWritten
<1>1. ASSUME RefInv, [Next]_vars
      PROVE  LET live == file["service"] IN
                live # NoInode /\ file'["service"] = live => disk'[live] = disk[live]
  BY <1>1, LiveIsKept
<1>2. Init => RefInv
  BY RefInit
<1>3. RefInv /\ [Next]_vars => RefInv'
  BY RefStep
<1> QED BY <1>1, <1>2, <1>3, PTL DEF Spec, NeverHalfWritten

\* The administrator saves only between two commands.
EditsBetween == AdminEdit => \A h \in Helpers : pc[h] = "idle"

\* What the command has read is what the service file still holds.
ReadInv ==
    \A h \in Helpers : pc[h] \in HasRead =>
        /\ file["service"] # NoInode
        /\ disk[file["service"]] = job[h].read

LEMMA ReadStep ==
    ASSUME OneHelper, RefInv, ReadInv, [Next]_vars, [EditsBetween]_vars
    PROVE  ReadInv'
<1>1. PICK h : Helpers = {h}
  BY DEF OneHelper
<1>2. /\ Shape /\ JobShape /\ h \in Helpers /\ HandInv(h) /\ NamesInv /\ DataInv
      /\ pc = [g \in Helpers |-> pc[g]]
  BY <1>1 DEF RefInv, Shape
<1> DEFINE Reads(p, f, d, j) ==
      p[h] \in HasRead => f["service"] # NoInode /\ d[f["service"]] = j[h].read
<1>3. SUFFICES Reads(pc', file', disk', job')
  BY <1>1 DEF ReadInv
<1>4. CASE pc'[h] \notin HasRead
  BY <1>4
<1>5. CASE /\ pc[h] \in HasRead /\ file'["service"] = file["service"]
           /\ job'[h].read = job[h].read
  <2>1. file["service"] # NoInode /\ disk[file["service"]] = job[h].read
    BY <1>1, <1>5 DEF ReadInv
  <2>2. disk'[file["service"]] = disk[file["service"]]
    BY <1>5, <2>1, LiveIsKept
  <2> QED BY <1>5, <2>1, <2>2
<1>6. CASE Finish(h)
  BY <1>2, <1>4, <1>6, FinishAlone DEF HasRead, Chosen, Writing
<1>7. CASE ReadService(h) /\ ~Finish(h)
  <2>1. /\ file["service"] # NoInode /\ file' = file /\ disk' = disk
        /\ job' = [job EXCEPT ![h].read = disk[file["service"]]]
    BY <1>7 DEF ReadService, fsVars
  <2>2. Hand(h, job[h].op, disk[file["service"]], job[h].new, job[h].target,
             job[h].fd, job[h].off)
    BY <1>2, <2>1, HandOne
  <2> QED BY <2>1, <2>2 DEF Hand
<1>8. CASE Begin(h) \/ AdminEdit \/ PowerLoss
  <2>1. CASE Begin(h)
    <3>1. pc'[h] = "read"
      BY <1>2, <2>1 DEF Begin, Goto
    <3> QED BY <1>4, <3>1 DEF HasRead, Chosen, Writing
  <2>2. CASE AdminEdit
    <3>1. pc'[h] = pc[h]
      BY <2>2 DEF AdminEdit
    <3>2. (file' = file /\ job' = job) \/ pc[h] = "idle"
      BY <1>1, <2>2 DEF EditsBetween, vars, fsVars
    <3> QED BY <1>4, <1>5, <3>1, <3>2 DEF HasRead, Chosen, Writing
  <2>3. CASE PowerLoss
    BY <1>2, <1>4, <2>3 DEF PowerLoss, HasRead, Chosen, Writing
  <2> QED BY <1>8, <2>1, <2>2, <2>3
<1>9. CASE UNCHANGED vars
  <2>1. UNCHANGED <<file, pc, job>>
    BY <1>9 DEF vars, fsVars
  <2> QED BY <1>4, <1>5, <2>1
<1>10. CASE VerifyOnce(h) /\ ~Finish(h)
  <2>1. pc[h] = "verify" /\ UNCHANGED file
    BY <1>10 DEF VerifyOnce, fsVars
  <2>2. job'[h].read = job[h].read
    BY <1>2, <1>10 DEF VerifyOnce, JobShape, Job
  <2> QED BY <1>5, <2>1, <2>2 DEF HasRead
<1>11. CASE (Enable(h) \/ Disable(h) \/ ChooseTarget(h)) /\ ~Finish(h)
  <2>1. pc[h] \in {"edit", "choose"} /\ UNCHANGED file
    BY <1>11 DEF Enable, Disable, Install, ChooseTarget, fsVars
  <2>2. job'[h].read = job[h].read
    BY <1>2, <1>11 DEF Enable, Disable, Install, ChooseTarget, JobShape, Job
  <2> QED BY <1>5, <2>1, <2>2 DEF HasRead, Chosen
<1>12. CASE (OpenTmp(h) \/ WriteSome(h) \/ Fsync(h) \/ WriteFails(h)) /\ ~Finish(h)
  <2>1. pc[h] \in {"open"} \cup Writing /\ UNCHANGED file
    BY <1>12 DEF OpenTmp, WriteSome, Fsync, WriteFails, fsVars, Writing
  <2>2. job'[h].read = job[h].read
    BY <1>2, <1>12 DEF OpenTmp, WriteSome, Fsync, WriteFails, JobShape, Job
  <2> QED BY <1>5, <2>1, <2>2 DEF HasRead, Chosen
<1>13. CASE RenameTmp(h) /\ ~Finish(h)
  <2>1. /\ pc[h] = "rename" /\ job[h].target = "backup"
        /\ file' = [file EXCEPT !["backup"] = tmp["backup"]]
        /\ job' = [job EXCEPT ![h].target = "service", ![h].fd = NoInode, ![h].off = 0]
    BY <1>13 DEF RenameTmp
  <2>2. job'[h].read = job[h].read
    BY <1>2, <2>1 DEF JobShape, Job
  <2>3. file'["service"] = file["service"]
    BY <1>2, <2>1 DEF NamesInv, Names
  <2> QED BY <1>5, <2>1, <2>2, <2>3 DEF HasRead, Chosen, Writing
<1>14. CASE KillHelper(h)
  BY <1>6, <1>14 DEF KillHelper
<1> QED
  BY <1>1, <1>6, <1>7, <1>8, <1>9, <1>10, <1>11, <1>12, <1>13, <1>14 DEF Next, HelperStep

\* docs/testing-safely.md's promise holds of one helper as long as the administrator does
\* not save between the read and the rename: a line with a control flag of its own is left
\* alone by the command that enables.  (The run in which he does shows that the assumption
\* is needed.)
THEOREM HandEditsAreSafeBetween ==
    ASSUME OneHelper
    PROVE  Spec /\ [][EditsBetween]_vars => HandEditLeftAlone
<1>1. ASSUME RefInv, ReadInv, [Next]_vars
      PROVE  \A h \in Helpers :
                job[h].op = "enable" /\ Installs(h)
                  => detectPamFacialState(disk[file["service"]]) # "EnabledUnsafe"
  <2> SUFFICES ASSUME NEW h \in Helpers, job[h].op = "enable", Installs(h)
               PROVE  detectPamFacialState(disk[file["service"]]) = "Absent"
    OBVIOUS
  <2>1. RenameTmp(h)
    BY <1>1, InstallsByRename
  <2>2. pc[h] \in HasRead
    BY <2>1 DEF RenameTmp, HasRead, Chosen, Writing
  <2>3. disk[file["service"]] = job[h].read
    BY <1>1, <2>2 DEF ReadInv
  <2>4. detectPamFacialState(job[h].read) = "Absent"
    BY <1>1, InstalledIsNew DEF Edited
  <2> QED BY <2>3, <2>4
<1>2. Init => RefInv /\ ReadInv
  <2>1. Init => ReadInv
    BY DEF Init, ReadInv, HasRead, Chosen, Writing
  <2> QED BY <2>1, RefInit
<1>3. RefInv /\ [Next]_vars => RefInv'
  BY RefStep
<1>4. RefInv /\ ReadInv /\ [Next]_vars /\ [EditsBetween]_vars => ReadInv'
  BY ReadStep
<1> QED BY <1>1, <1>2, <1>3, <1>4, PTL DEF Spec, HandEditLeftAlone
=============================================================================
