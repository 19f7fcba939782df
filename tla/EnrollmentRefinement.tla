------------------------ MODULE EnrollmentRefinement ------------------------
(***************************************************************************)
(* Enrollment implements Recognition, for any number of processes and        *)
(* commands, on one camera.                                                 *)
(***************************************************************************)
EXTENDS EnrollmentProofs, SequenceTheorems

\* The templates of a whole enrolment.
Templates(e) == SubSeq(serializeEmbeddings(e), 2, e.count + 1)

\* Every file is the beginning of one enrolment.
Beginning(file) ==
    file = <<>> \/ \E e \in Enrollments : \E n \in 1..(e.count + 1) : file = Part(e, n)

\* What a process knows while it saves, and while it verifies.
Knows(p) ==
    /\ pc[p] \in {"open_enroll", "record", "load_all", "open_verify"} => using[p] \in Setups
    /\ pc[p] \in Saving => made[p] \in Enrollments
    /\ IF pc[p] \in {"open_verify", "attempt"}
         THEN \E e \in Enrollments : snap[p] = Templates(e)
         ELSE snap[p] = None

RefInv ==
    /\ snap = [p \in Procs |-> snap[p]]
    /\ \A i \in Inodes : Beginning(disk[i])
    /\ \A p \in Procs : Knows(p)

LEMMA EnrollmentIsCounted ==
    \A e \in Enrollments : e.count \in 1..9 /\ e # None /\ e # Garbage /\ e.by \in Procs \cup {None}
<1>1. ASSUME NEW e \in Enrollments PROVE e.count \in 1..9 /\ e.by \in Procs \cup {None}
  BY DEF Enrollments
<1>2. ASSUME NEW e \in Enrollments PROVE e # None /\ e # Garbage
  <2>1. Garbage.count = 0
    BY DEF Garbage
  <2> QED BY <1>1, <2>1, NoneAssumption
<1> QED BY <1>1, <1>2

LEMMA PartInForce ==
    ASSUME NEW e \in Enrollments, NEW n \in 1..(e.count + 1)
    PROVE  InForce(Part(e, n)) = IF n = e.count + 1 THEN e ELSE None
<1> DEFINE file == Part(e, n)
<1>1. e.count \in Nat /\ n \in Nat /\ n >= 1
  BY EnrollmentIsCounted
<1>2. DOMAIN file = 1..n /\ \A k \in 1..n : file[k] = [of |-> e, n |-> k - 1]
  BY DEF Part
<1>3. file # <<>> /\ file[1].of = e
  BY <1>1, <1>2
<1>4. DOMAIN serializeEmbeddings(e) = 1..(e.count + 1)
      /\ \A k \in 1..(e.count + 1) : serializeEmbeddings(e)[k] = [of |-> e, n |-> k - 1]
  BY DEF serializeEmbeddings
<1>5. (\A k \in DOMAIN serializeEmbeddings(e) :
          k \in DOMAIN file /\ file[k] = serializeEmbeddings(e)[k]) <=> n = e.count + 1
  BY <1>1, <1>2, <1>4
<1> HIDE DEF file
<1> QED BY <1>3, <1>5 DEF InForce, file

LEMMA TemplatesOf ==
    ASSUME NEW e \in Enrollments
    PROVE  /\ Templates(e) = [k \in 1..e.count |-> [of |-> e, n |-> k]]
           /\ Templates(e) \notin {None, <<>>} /\ Loaded(Templates(e)) = e
<1> DEFINE whole == serializeEmbeddings(e)
           found == [k \in 1..e.count |-> [of |-> e, n |-> k]]
           S     == [of : Enrollments, n : Nat]
<1>1. e.count \in Nat /\ e.count >= 1 /\ e # None
  BY EnrollmentIsCounted
<1>2. whole = [k \in 1..(e.count + 1) |-> [of |-> e, n |-> k - 1]]
  BY DEF serializeEmbeddings
<1>3. \A k \in 1..(e.count + 1) : whole[k] \in S /\ whole[k] = [of |-> e, n |-> k - 1]
  BY <1>1, <1>2
<1>4. whole \in Seq(S) /\ Len(whole) = e.count + 1
  <2>1. whole = Part(e, e.count + 1) /\ e.count + 1 \in Nat
    BY <1>1 DEF serializeEmbeddings, Part
  <2>2. whole \in Seq([of : {e}, n : Nat]) /\ Len(whole) = e.count + 1
    BY <2>1, PartIsSeq
  <2>3. [of : {e}, n : Nat] \subseteq S
    OBVIOUS
  <2> DEFINE T == [of : {e}, n : Nat]
  <2> HIDE DEF S, T, whole
  <2>4. whole \in Seq(T) /\ T \subseteq S
    BY <2>2, <2>3 DEF T
  <2>5. whole \in Seq(S)
    BY <2>4, SeqMonotonic
  <2> QED BY <2>2, <2>5
<1>5. found \in Seq(S) /\ Len(found) = e.count /\ DOMAIN found = 1..e.count
  <2>1. \A k \in 1..e.count : [of |-> e, n |-> k] \in S
    BY <1>1
  <2> HIDE DEF S
  <2> QED BY <1>1, <2>1
<1> HIDE DEF whole, S
<1>6. Templates(e) = found
  <2>1. \A m, n \in Nat : 1 <= m /\ m <= n /\ n <= Len(whole) =>
           SubSeq(whole, m, n) = [k \in 1..(n - m + 1) |-> whole[m + k - 1]]
    BY <1>4
  <2>2. SubSeq(whole, 2, e.count + 1) = [k \in 1..e.count |-> whole[k + 1]]
    BY <1>1, <1>4, <2>1
  <2>3. \A k \in 1..e.count : whole[k + 1] = [of |-> e, n |-> k]
    BY <1>1, <1>3
  <2> QED BY <2>2, <2>3 DEF Templates, whole
<1>7. found # <<>> /\ found[1].of = e
  BY <1>1
<1>8. found # None
  BY <1>5, NoneAssumption DEF S
<1>9. Tail(whole) = found
  <2>1. whole # <<>>
    BY <1>1, <1>4
  <2>2. Tail(whole) = SubSeq(whole, 2, e.count + 1)
    BY <1>4, <2>1, TailIsSubSeq
  <2> QED BY <1>6, <2>2 DEF Templates, whole
<1> HIDE DEF found
<1>10. Loaded(found) = e
  BY <1>7, <1>8, <1>9 DEF Loaded, whole
<1> QED BY <1>6, <1>7, <1>8, <1>10 DEF found

\* A file is either the whole of an enrolment, whose templates are what loadAll gives, or
\* loadAll throws.
LEMMA WhatLoads ==
    ASSUME NEW file, Beginning(file), deserializeEmbeddings(file) \notin {None, <<>>}
    PROVE  \E e \in Enrollments :
              InForce(file) = e /\ deserializeEmbeddings(file) = Templates(e)
<1>1. file # <<>>
  BY DEF deserializeEmbeddings
<1>2. PICK e \in Enrollments : \E n \in 1..(e.count + 1) : file = Part(e, n)
  BY <1>1 DEF Beginning
<1>3. PICK n \in 1..(e.count + 1) : file = Part(e, n)
  BY <1>2
<1>4. e.count \in Nat /\ n \in Nat /\ n >= 1 /\ n <= e.count + 1
  BY EnrollmentIsCounted
<1>5. file[1].of = e /\ Len(file) = n
  <2>1. \A k \in 1..n : [of |-> e, n |-> k - 1] \in [of : {e}, n : Nat]
    BY <1>4
  <2> QED BY <1>3, <1>4, <2>1 DEF Part
<1>6. n = e.count + 1
  BY <1>4, <1>5 DEF deserializeEmbeddings, Truncated
<1>7. file = serializeEmbeddings(e)
  BY <1>3, <1>6 DEF Part, serializeEmbeddings
<1>8. deserializeEmbeddings(file) = Templates(e)
  BY <1>5, <1>7 DEF deserializeEmbeddings, Templates
<1>9. InForce(file) = e
  BY <1>3, <1>6, PartInForce
<1> QED BY <1>8, <1>9

-----------------------------------------------------------------------------
(* Every step is one of Recognition's, or changes nothing it speaks of       *)

Known == [p \in Procs |-> Loaded(snap[p])]

\* A step of Recognition, on what Current and Known stand for.
Implements == [Promise!Next]_(Promise!vars)

LEMMA SameImplements == UNCHANGED <<bin, disk, snap, said>> => Implements
  BY DEF Implements, Promise!vars, InForce, Loaded

LEMMA OthersKnow ==
    ASSUME RefInv, NEW p \in Procs, snap' = [q \in Procs |-> snap'[q]],
           \A q \in Procs \ {p} : pc'[q] = pc[q] /\ using'[q] = using[q]
                                  /\ made'[q] = made[q] /\ snap'[q] = snap[q],
           \A i \in Inodes : Beginning(disk'[i]), Knows(p)'
    PROVE  RefInv'
<1>1. ASSUME NEW q \in Procs \ {p} PROVE Knows(q)'
  BY DEF RefInv, Knows
<1> QED BY <1>1 DEF RefInv, Inodes

\* A command ends; only one that has templates ends with a verdict.
LEMMA EndRefines ==
    ASSUME EnrollInv, RefInv, NEW p \in Procs, NEW ending, End(p, ending),
           UNCHANGED <<bin, disk>>,
           \/ ending \in {"ok", "error", "unavailable", "cut_off"}
           \/ ending \in {"match", "no_match"} /\ pc[p] = "attempt"
    PROVE  RefInv' /\ Implements
<1>1. /\ pc'[p] = "idle" /\ snap' = [snap EXCEPT ![p] = None]
      /\ said' = [said EXCEPT ![p] = ending]
      /\ \A q \in Procs \ {p} : pc'[q] = pc[q] /\ using'[q] = using[q] /\ made'[q] = made[q]
  BY DEF End, Exit, EnrollInv, Shape
<1>2. /\ snap' = [q \in Procs |-> snap'[q]] /\ snap'[p] = None
      /\ \A q \in Procs \ {p} : snap'[q] = snap[q]
  BY <1>1 DEF RefInv
<1>3. RefInv'
  BY <1>1, <1>2, OthersKnow DEF RefInv, Knows, Saving
<1>4. Known' = [Known EXCEPT ![p] = None]
  BY <1>2 DEF Known, Loaded
<1>5. ending \in {"match", "no_match"} => Known[p] # None
  <2>1. CASE pc[p] = "attempt"
    <3>1. PICK e \in Enrollments : snap[p] = Templates(e)
      BY <2>1 DEF RefInv, Knows
    <3> QED BY <3>1, TemplatesOf, EnrollmentIsCounted DEF Known
  <2> QED BY <2>1
<1>6. Current' = Current
  BY DEF Current, InForce
<1>7. Promise!Conclude(p)
  BY <1>1, <1>4, <1>5, <1>6 DEF Promise!Conclude, Promise!Verdicts, Known, Current
<1> QED BY <1>3, <1>7 DEF Implements, Promise!Next

\* A command moves on; neither the files nor what it has loaded or said change.
LEMMA GotoRefines ==
    ASSUME EnrollInv, RefInv, NEW p \in Procs, NEW step, Goto(p, step),
           UNCHANGED <<bin, disk, snap, said>>,
           \A q \in Procs \ {p} : using'[q] = using[q] /\ made'[q] = made[q],
           step \in {"open_enroll", "record", "load_all"} => using'[p] \in Setups,
           step \in Saving => made'[p] \in Enrollments,
           step # "open_verify", step = "attempt" <=> pc[p] = "open_verify", pc[p] # "attempt"
    PROVE  RefInv' /\ Implements
<1>1. pc'[p] = step /\ \A q \in Procs \ {p} : pc'[q] = pc[q]
  BY DEF Goto, EnrollInv, Shape
<1>2. Knows(p)'
  <2>1. (step = "attempt") => \E e \in Enrollments : snap[p] = Templates(e)
    BY DEF RefInv, Knows
  <2>2. (step # "attempt") => snap[p] = None
    BY DEF RefInv, Knows
  <2> QED BY <1>1, <2>1, <2>2 DEF Knows
<1>3. \A i \in Inodes : Beginning(disk'[i])
  BY DEF RefInv
<1>4. RefInv'
  BY <1>1, <1>2, <1>3, OthersKnow DEF RefInv
<1> QED BY <1>4, SameImplements

\* The whole save begins by forgetting, and so does a deletion.
LEMMA ForgetRefines ==
    ASSUME EnrollInv, RefInv, NEW p \in Procs, OpenBin(p) \/ UnlinkBin(p),
           OneCamera, Named
    PROVE  RefInv' /\ Implements
<1>1. /\ UNCHANGED <<using, made, snap, said>>
      /\ \E step \in {"write_bin", "unlink_meta"} :
             /\ pc' = [pc EXCEPT ![p] = step]
             /\ step = "write_bin" => pc[p] = "open_bin"
      /\ pc[p] \notin {"open_verify", "attempt"}
  BY DEF OpenBin, UnlinkBin, Goto, verifyVars, saveVars
<1>2. pc'[p] \in {"write_bin", "unlink_meta"} /\ (pc'[p] = "write_bin" => pc[p] = "open_bin")
      /\ \A q \in Procs \ {p} : pc'[q] = pc[q]
  BY <1>1 DEF EnrollInv, Shape
<1>3. Knows(p)'
  BY <1>1, <1>2 DEF RefInv, Knows, Saving
<1>4. \A i \in Inodes : disk'[i] = <<>> \/ disk'[i] = disk[i]
  <2>1. CASE OpenBin(p)
    BY <2>1 DEF OpenBin, EnrollInv, Shape
  <2>2. CASE UnlinkBin(p)
    BY <2>2 DEF UnlinkBin
  <2> QED BY <2>1, <2>2
<1>5. \A i \in Inodes : Beginning(disk'[i])
  BY <1>4 DEF RefInv, Beginning
<1>6. RefInv'
  BY <1>1, <1>2, <1>3, <1>5, OthersKnow DEF RefInv
<1>7. Current' = None
  <2>1. CASE OpenBin(p)
    <3>1. bin' \in Inodes /\ disk' = [disk EXCEPT ![bin'] = <<>>]
      BY <2>1, InodeFree DEF OpenBin, Named
    <3>2. disk'[bin'] = <<>>
      BY <3>1 DEF EnrollInv, Shape
    <3> QED BY <3>2 DEF Current, InForce
  <2>2. CASE UnlinkBin(p)
    BY <2>2 DEF UnlinkBin, Current
  <2> QED BY <2>1, <2>2
<1>8. Promise!Forget
  BY <1>1, <1>7 DEF Promise!Forget, Current, Loaded
<1> QED BY <1>6, <1>8 DEF Implements, Promise!Next

\* The last record brings the new enrolment into force, if the name still leads to it.
LEMMA WriteRefines ==
    ASSUME OneCamera, EnrollInv, RefInv, Named, NEW p \in Procs, WriteBin(p)
    PROVE  RefInv' /\ Implements
<1> DEFINE e == made[p]
<1>1. PICK upto \in (off[p] + 1)..Len(serializeEmbeddings(e)) :
           disk' = [disk EXCEPT ![fd[p]] =
                 WriteAt(@, off[p], SubSeq(serializeEmbeddings(e), off[p] + 1, upto), Hole)]
  BY DEF WriteBin
<1>2. pc[p] = "write_bin" /\ UNCHANGED <<bin, pc, using, made, snap, said>>
  BY DEF WriteBin, verifyVars
<1>3. e \in Enrollments /\ e.count \in Nat
  BY <1>2, EnrollmentIsCounted DEF RefInv, Knows, Saving
<1>4. Len(serializeEmbeddings(e)) = e.count + 1
  BY <1>3 DEF serializeEmbeddings
<1>5. \A i \in Inodes : i # fd[p] => disk'[i] = disk[i]
  BY <1>1 DEF EnrollInv, Shape
<1>6. ASSUME fd[p] \in Inodes
      PROVE  /\ off[p] \in Nat /\ disk[fd[p]] = Part(e, off[p])
             /\ upto \in (off[p] + 1)..(e.count + 1) /\ disk'[fd[p]] = Part(e, upto)
  <2>1. off[p] \in Nat /\ disk[fd[p]] = Part(e, off[p])
    BY <1>2, <1>6 DEF EnrollInv, ProcInv, Wrote
  <2>2. disk'[fd[p]] = WriteAt(disk[fd[p]], off[p],
                               SubSeq(serializeEmbeddings(e), off[p] + 1, upto), Hole)
    BY <1>1, <1>6 DEF EnrollInv, Shape
  <2>3. upto \in (off[p] + 1)..(e.count + 1)
    BY <1>4, <2>1
  <2>4. disk'[fd[p]] = Part(e, upto)
    BY <1>3, <2>1, <2>2, <2>3, WriteOn
  <2> QED BY <2>1, <2>3, <2>4
<1> HIDE DEF e
<1>7. \A i \in Inodes : Beginning(disk'[i])
  <2>1. ASSUME fd[p] \in Inodes PROVE Beginning(disk'[fd[p]])
    <3>1. upto \in 1..(e.count + 1)
      BY <1>3, <1>6, <2>1
    <3> QED BY <1>3, <1>6, <2>1, <3>1 DEF Beginning
  <2> QED BY <1>5, <2>1 DEF RefInv
<1>8. Knows(p)'
  BY <1>2 DEF RefInv, Knows
<1>9. RefInv'
  BY <1>2, <1>7, <1>8, OthersKnow DEF RefInv
<1>10. CASE bin = fd[p] /\ fd[p] \in Inodes
  <2>1. bin # None
    <3>1. Inodes \subseteq Nat
      BY DEF Inodes
    <3> QED BY <1>10, <3>1, NoneAssumption
  <2>2. off[p] \in 0..e.count
    BY <1>3, <1>6, <1>10
  <2>3. Current = None
    <3>1. CASE off[p] = 0
      <4>1. Part(e, 0) = <<>>
        BY DEF Part
      <4> QED BY <1>6, <1>10, <3>1, <4>1 DEF Current, InForce
    <3>2. CASE off[p] # 0
      <4>1. off[p] \in 1..(e.count + 1) /\ off[p] # e.count + 1
        BY <1>3, <2>2, <3>2
      <4>2. InForce(Part(e, off[p])) = None
        BY <1>3, <4>1, PartInForce
      <4> QED BY <1>6, <1>10, <4>2 DEF Current
    <3> QED BY <3>1, <3>2
  <2>4. Current' \in {None, e}
    <3>1. upto \in 1..(e.count + 1)
      BY <1>3, <1>6, <1>10
    <3>2. InForce(Part(e, upto)) \in {None, e}
      BY <1>3, <3>1, PartInForce
    <3>3. Current' = InForce(disk'[bin'])
      BY <1>2, <2>1 DEF Current, InForce
    <3> QED BY <1>2, <1>6, <1>10, <3>2, <3>3
  <2>5. CASE Current' = None
    <3>1. UNCHANGED <<Current, Known, said>>
      BY <1>2, <2>3, <2>5 DEF Known, Loaded
    <3> QED BY <1>9, <3>1 DEF Implements, Promise!vars, Current, Known
  <2>6. CASE Current' = e
    <3>1. Promise!Install
      BY <1>2, <1>3, <2>3, <2>6 DEF Promise!Install, Current, Loaded
    <3> QED BY <1>9, <3>1 DEF Implements, Promise!Next
  <2> QED BY <2>4, <2>5, <2>6
<1>11. CASE ~(bin = fd[p] /\ fd[p] \in Inodes)
  <2>1. bin = None \/ disk'[bin] = disk[bin]
    BY <1>5, <1>11 DEF Named
  <2>2. Current' = Current
    BY <1>2, <2>1 DEF Current, InForce
  <2>3. UNCHANGED <<Current, Known, said>>
    BY <1>2, <2>2 DEF Known, Loaded
  <2> QED BY <1>9, <2>3 DEF Implements, Promise!vars, Current, Known
<1> QED BY <1>9, <1>10, <1>11

\* What a verification loads is the whole of what is in force, or it gives up.
LEMMA LoadRefines ==
    ASSUME OneCamera, EnrollInv, RefInv, Named, NEW p \in Procs, LoadAll(p)
    PROVE  RefInv' /\ Implements
<1> DEFINE found == IF bin = None THEN None ELSE deserializeEmbeddings(disk[bin])
<1>1. pc[p] = "load_all" /\ UNCHANGED <<bin, disk>>
  BY DEF LoadAll, storeVars
<1>2. CASE found \in {None, <<>>}
  <2>1. End(p, "unavailable")
    BY <1>2 DEF LoadAll
  <2> QED BY <1>1, <2>1, EndRefines
<1>3. CASE found \notin {None, <<>>}
  <2>1. /\ snap' = [snap EXCEPT ![p] = found] /\ pc' = [pc EXCEPT ![p] = "open_verify"]
        /\ UNCHANGED <<using, made, said>>
    BY <1>3 DEF LoadAll, Goto, saveVars
  <2>2. bin \in Inodes /\ bin # None
    BY <1>3 DEF Named
  <2>3. PICK e \in Enrollments : InForce(disk[bin]) = e /\ found = Templates(e)
    BY <1>3, <2>2, WhatLoads DEF RefInv
  <2>4. /\ pc'[p] = "open_verify" /\ snap'[p] = Templates(e)
        /\ snap' = [q \in Procs |-> snap'[q]]
        /\ \A q \in Procs \ {p} : snap'[q] = snap[q] /\ pc'[q] = pc[q]
    BY <2>1, <2>3 DEF RefInv, EnrollInv, Shape
  <2>5. Knows(p)'
    BY <1>1, <2>1, <2>4 DEF RefInv, Knows, Saving
  <2>6. RefInv'
    BY <1>1, <2>1, <2>4, <2>5, OthersKnow DEF RefInv
  <2>7. Current = e /\ Current' = Current /\ e # None
    BY <1>1, <2>2, <2>3, EnrollmentIsCounted DEF Current, InForce
  <2>8. Known[p] = None
    BY <1>1 DEF RefInv, Knows, Known, Loaded
  <2>9. Known' = [Known EXCEPT ![p] = e]
    BY <2>4, TemplatesOf DEF Known, Loaded
  <2>10. Promise!Look(p)
    BY <2>1, <2>7, <2>8, <2>9 DEF Promise!Look, Current, Known
  <2> QED BY <2>6, <2>10 DEF Implements, Promise!Next
<1> QED BY <1>2, <1>3

LEMMA BeginRefines ==
    ASSUME EnrollInv, RefInv, NEW p \in Procs, Begin(p)
    PROVE  RefInv' /\ Implements
<1>1. PICK step \in {"check", "unlink_bin", "load_config"} : pc' = [pc EXCEPT ![p] = step]
  BY DEF Begin, Goto
<1>2. /\ pc[p] = "idle" /\ said' = [said EXCEPT ![p] = "none"]
      /\ UNCHANGED <<bin, disk, using, made, snap>>
  BY DEF Begin, saveVars, storeVars, verifyVars
<1>3. pc'[p] = step /\ \A q \in Procs \ {p} : pc'[q] = pc[q]
  BY <1>1 DEF EnrollInv, Shape
<1>4. Knows(p)'
  BY <1>2, <1>3 DEF RefInv, Knows, Saving
<1>5. RefInv'
  BY <1>2, <1>3, <1>4, OthersKnow DEF RefInv
<1>6. Known[p] = None /\ Known' = Known /\ Current' = Current
  BY <1>2 DEF RefInv, Knows, Known, Loaded, Current, InForce
<1>7. Promise!Begin(p)
  BY <1>2, <1>6 DEF Promise!Begin, Current, Known
<1> QED BY <1>5, <1>7 DEF Implements, Promise!Next

LEMMA RecordRefines ==
    ASSUME EnrollInv, RefInv, NEW p \in Procs, Record(p)
    PROVE  RefInv' /\ Implements
<1>1. pc[p] = "record" /\ UNCHANGED <<bin, disk>>
  BY DEF Record, storeVars
<1>2. CASE End(p, "error")
  BY <1>1, <1>2, EndRefines
<1>3. CASE ~End(p, "error")
  <2>1. PICK n \in Frames : \E count \in TemplateCounts(n) :
               made' = [made EXCEPT ![p] = [by |-> p, model |-> using[p].model,
                                            mode |-> using[p].mode, count |-> count]]
    BY <1>3 DEF Record
  <2>2. PICK count \in TemplateCounts(n) :
               made' = [made EXCEPT ![p] = [by |-> p, model |-> using[p].model,
                                            mode |-> using[p].mode, count |-> count]]
    BY <2>1
  <2>3. Goto(p, "mkdir") /\ UNCHANGED <<using, snap, said>>
    BY <1>3 DEF Record, verifyVars
  <2>4. using[p].model \in Models /\ using[p].mode \in Modes
    BY <1>1 DEF RefInv, Knows, Setups
  <2>5. count \in 1..9
    BY DEF TemplateCounts
  <2>6. made'[p] \in Enrollments /\ \A q \in Procs \ {p} : made'[q] = made[q]
    BY <2>2, <2>4, <2>5 DEF Enrollments, EnrollInv, Shape
  <2> QED BY <1>1, <2>3, <2>6, GotoRefines DEF Saving
<1> QED BY <1>2, <1>3

LEMMA ConfiguredRefines ==
    ASSUME EnrollInv, RefInv, NEW p \in Procs, Configure(p) \/ LoadConfig(p)
    PROVE  RefInv' /\ Implements
<1>1. pc[p] \in {"configure", "load_config"} /\ UNCHANGED <<bin, disk>>
  BY DEF Configure, LoadConfig, storeVars
<1>2. CASE End(p, "error") \/ End(p, "unavailable")
  BY <1>1, <1>2, EndRefines
<1>3. CASE ~End(p, "error") /\ ~End(p, "unavailable")
  <2>1. PICK setup \in Setups : using' = [using EXCEPT ![p] = setup]
    BY <1>3 DEF Configure, LoadConfig, EnrollInv
  <2>2. \E step \in {"open_enroll", "load_all"} : Goto(p, step)
    BY <1>3 DEF Configure, LoadConfig
  <2>3. UNCHANGED <<made, snap, said>>
    BY <1>3 DEF Configure, LoadConfig, saveVars, verifyVars
  <2>4. using'[p] \in Setups /\ \A q \in Procs \ {p} : using'[q] = using[q]
    BY <2>1 DEF EnrollInv, Shape
  <2> QED BY <1>1, <2>2, <2>3, <2>4, GotoRefines DEF Saving
<1> QED BY <1>2, <1>3

LEMMA StepRefines ==
    ASSUME OneCamera, EnrollInv, RefInv, Named, [Next]_vars
    PROVE  RefInv' /\ Implements
<1>1. ASSUME NEW p \in Procs, EnrollStep(p) PROVE RefInv' /\ Implements
  <2>1. CASE CheckEnrolled(p)
    <3>1. pc[p] = "check" /\ UNCHANGED <<bin, disk>>
      BY <2>1 DEF CheckEnrolled, storeVars
    <3>2. \/ End(p, "error")
          \/ Goto(p, "configure") /\ UNCHANGED <<using, made, snap, said>>
      BY <2>1 DEF CheckEnrolled, saveVars, verifyVars
    <3> QED BY <3>1, <3>2, EndRefines, GotoRefines DEF Saving
  <2>2. CASE OpenEnroll(p)
    <3>1. pc[p] = "open_enroll" /\ UNCHANGED <<bin, disk>>
      BY <2>2 DEF OpenEnroll, storeVars
    <3>2. \/ End(p, "error")
          \/ Goto(p, "record") /\ UNCHANGED <<using, made, snap, said>>
      BY <2>2 DEF OpenEnroll, OpenCamera, saveVars, verifyVars
    <3>3. using[p] \in Setups
      BY <3>1 DEF RefInv, Knows
    <3> QED BY <3>1, <3>2, <3>3, EndRefines, GotoRefines DEF Saving
  <2>3. CASE MkDir(p) \/ OpenMeta(p)
    <3>1. pc[p] \in Saving /\ UNCHANGED <<bin, disk, using, made, snap, said>>
      BY <2>3 DEF MkDir, OpenMeta, saveVars, verifyVars, Saving
    <3>2. Goto(p, "open_bin") \/ Goto(p, "write_meta")
      BY <2>3 DEF MkDir, OpenMeta
    <3>3. made[p] \in Enrollments
      BY <3>1 DEF RefInv, Knows
    <3> QED BY <3>1, <3>2, <3>3, GotoRefines DEF Saving
  <2>4. CASE WriteMeta(p) \/ SaveFails(p)
    <3>1. UNCHANGED <<bin, disk>> /\ (End(p, "ok") \/ End(p, "cut_off"))
      BY <2>4 DEF WriteMeta, SaveFails, storeVars
    <3> QED BY <3>1, EndRefines
  <2> QED BY <1>1, <2>1, <2>2, <2>3, <2>4, ConfiguredRefines, RecordRefines, ForgetRefines,
             WriteRefines DEF EnrollStep
<1>2. ASSUME NEW p \in Procs, DeleteStep(p) PROVE RefInv' /\ Implements
  <2>1. CASE UnlinkMeta(p)
    <3>1. pc[p] = "unlink_meta" /\ UNCHANGED <<bin, disk, using, made, snap, said>>
          /\ Goto(p, "rmdir")
      BY <2>1 DEF UnlinkMeta, saveVars, verifyVars
    <3> QED BY <3>1, GotoRefines DEF Saving
  <2>2. CASE RmDir(p)
    <3>1. UNCHANGED <<bin, disk>> /\ (End(p, "ok") \/ End(p, "error"))
      BY <2>2 DEF RmDir
    <3> QED BY <3>1, EndRefines
  <2> QED BY <1>2, <2>1, <2>2, ForgetRefines DEF DeleteStep
<1>3. ASSUME NEW p \in Procs, VerifyStep(p) PROVE RefInv' /\ Implements
  <2>1. CASE OpenVerify(p)
    <3>1. pc[p] = "open_verify" /\ UNCHANGED <<bin, disk>>
      BY <2>1 DEF OpenVerify, storeVars
    <3>2. \/ End(p, "unavailable")
          \/ Goto(p, "attempt") /\ UNCHANGED <<using, made, snap, said>>
      BY <2>1 DEF OpenVerify, OpenCamera, saveVars, verifyVars
    <3> QED BY <3>1, <3>2, EndRefines, GotoRefines DEF Saving
  <2>2. CASE SeesNobody(p) \/ Compares(p) \/ Throws(p) \/ RunsOut(p)
    <3>1. pc[p] = "attempt" /\ UNCHANGED <<bin, disk>>
      BY <2>2 DEF SeesNobody, Compares, Throws, RunsOut, storeVars
    <3>2. \/ \E ending \in {"unavailable", "error", "match", "no_match"} : End(p, ending)
          \/ UNCHANGED <<pc, using, made, snap, said>>
      BY <2>2 DEF SeesNobody, Compares, Throws, RunsOut, saveVars
    <3>3. CASE UNCHANGED <<pc, using, made, snap, said>>
      <4>1. RefInv'
        BY <3>1, <3>3 DEF RefInv, Knows, Inodes
      <4> QED BY <3>1, <3>3, <4>1, SameImplements
    <3> QED BY <3>1, <3>2, <3>3, EndRefines
  <2> QED BY <1>3, <2>1, <2>2, ConfiguredRefines, LoadRefines DEF VerifyStep
<1>4. ASSUME NEW p \in Procs, Kill(p) PROVE RefInv' /\ Implements
  BY <1>4, EndRefines DEF Kill, storeVars
<1>5. CASE WriteConfig \/ UNCHANGED vars
  <2>1. UNCHANGED <<bin, disk, pc, using, made, snap, said>>
    BY <1>5 DEF WriteConfig, vars, storeVars, procVars, saveVars, verifyVars
  <2>2. RefInv'
    BY <2>1 DEF RefInv, Knows, Inodes
  <2> QED BY <2>1, <2>2, SameImplements
<1> QED BY <1>1, <1>2, <1>3, <1>4, <1>5, BeginRefines DEF Next, Step

LEMMA InitRefines == Init => RefInv /\ Promise!Init
<1> SUFFICES ASSUME Init PROVE RefInv /\ Promise!Init
  OBVIOUS
<1>1. CASE bin = None /\ disk = [i \in Inodes |-> <<>>]
  <2>1. RefInv
    BY <1>1 DEF Init, RefInv, Knows, Beginning, Saving
  <2> QED BY <1>1, <2>1 DEF Init, Promise!Init, Loaded
<1>2. CASE \E s \in Setups :
             LET old == [by |-> None, model |-> s.model, mode |-> s.mode, count |-> 1] IN
             /\ bin = 1
             /\ disk = [i \in Inodes |-> IF i = 1 THEN serializeEmbeddings(old) ELSE <<>>]
  <2>1. PICK s \in Setups :
             LET old == [by |-> None, model |-> s.model, mode |-> s.mode, count |-> 1] IN
             /\ bin = 1
             /\ disk = [i \in Inodes |-> IF i = 1 THEN serializeEmbeddings(old) ELSE <<>>]
    BY <1>2
  <2> DEFINE old == [by |-> None, model |-> s.model, mode |-> s.mode, count |-> 1]
  <2>2. old \in Enrollments /\ old.count = 1
    BY DEF Enrollments, Setups
  <2>3. bin = 1 /\ disk = [i \in Inodes |-> IF i = 1 THEN serializeEmbeddings(old) ELSE <<>>]
    BY <2>1
  <2> HIDE DEF old
  <2>4. serializeEmbeddings(old) = Part(old, old.count + 1) /\ 2 \in 1..(old.count + 1)
    BY <2>2 DEF serializeEmbeddings, Part
  <2>5. \A i \in Inodes : Beginning(disk[i])
    BY <2>2, <2>3, <2>4 DEF Beginning
  <2>6. RefInv
    BY <2>5 DEF Init, RefInv, Knows, Saving
  <2>7. 1 \in Inodes /\ 1 # None
    <3>1. Cardinality(Procs) \in Nat
      BY ProcsAssumption, FS_CardinalityType
    <3> QED BY <3>1, NoneAssumption DEF Inodes
  <2>8. InForce(disk[bin]) = old
    BY <2>2, <2>3, <2>7, WholeInForce
  <2> QED BY <2>2, <2>3, <2>6, <2>8 DEF Init, Promise!Init, Loaded
<1> QED BY <1>1, <1>2 DEF Init

\* Whatever saves, deletions and verifications interleave, are killed or fail: at most one
\* whole enrolment is in force, and a verdict is about one that was (saveAll, remove,
\* loadAll, runVerification).
THEOREM EnrollmentImplementsRecognition ==
    ASSUME OneCamera
    PROVE  Spec => RecognitionSpec
<1> DEFINE Inv == EnrollInv /\ Named /\ RefInv
<1>1. Init => Inv /\ Promise!Init
  BY InitEnroll, InitAgree, InitRefines
<1>2. Inv /\ [Next]_vars => Inv' /\ [Promise!Next]_(Promise!vars)
  BY EnrollStepKeeps, NamedStep, StepRefines DEF Implements
<1> QED BY <1>1, <1>2, PTL DEF Spec, RecognitionSpec, Promise!Spec
=============================================================================
