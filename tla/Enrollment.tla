----------------------------- MODULE Enrollment -----------------------------
(***************************************************************************)
(* One user's enrolment: the commands that capture, delete, report and use   *)
(* it, as processes that share the user's directory, the configuration and   *)
(* the cameras.  facial-auth-enroll runs runEnroll, runDelete and runTest;    *)
(* facial-auth-verify, and each attempt of runPamEnable, runs runVerification *)
(* as runTest does.                                                          *)
(*                                                                         *)
(* embedding.bin is an inode with its name apart, so that a command writes   *)
(* on into a file that another has unlinked.  meta.json is written once per   *)
(* save, in one go; a write to it after it was unlinked is lost.             *)
(*                                                                         *)
(* Nothing but the camera keeps two saves apart.  What is said about the     *)
(* files below is therefore about one value of device_path: Devices has one  *)
(* element in every run.                                                     *)
(***************************************************************************)
EXTENDS EmbeddingFormat, FileData, FiniteSets

CONSTANTS
    Procs,         \* command processes
    Models, Modes, \* embedding models and camera modes
    Devices,       \* camera devices
    Frames,        \* how many usable frames a recording may give
    MaxAttempts,   \* max_capture_attempts
    MaxOps,        \* bound on the commands that are run
    MaxConfigs     \* bound on rewrites of the configuration

ASSUME ProcsAssumption    == IsFiniteSet(Procs)
ASSUME FramesAssumption   == Frames \subseteq Nat
ASSUME AttemptsAssumption == MaxAttempts \in Nat
ASSUME OpsAssumption      == MaxOps \in Nat /\ MaxConfigs \in Nat

Setups == [model : Models, mode : Modes, device : Devices]
Inodes == 1..(Cardinality(Procs) + 1)

VARIABLES
    config,        \* embedder_model_path, camera_mode and device_path of config.conf
    dir,           \* does the user's directory exist?
    bin, disk,     \* the inode of embedding.bin, and what each inode holds
    meta,          \* meta.json: None, Garbage (opened and still empty), or whole
    camera,        \* the process that has each camera open
    pc,            \* each process's next step
    using,         \* the configuration it has loaded
    made, fd, off, \* the enrolment it writes, the file it has open, its offset
    snap,          \* the templates it has loaded
    tries, saw,    \* capture attempts made, and whether a face was compared
    said,          \* how its last command ended; cut_off: killed, or a failed call
    ops, configs,
    calm           \* history: no kill, failed call or overlap of a save and a deletion?

storeVars  == <<dir, bin, disk, meta>>
saveVars   == <<made, fd, off>>
verifyVars == <<snap, tries, saw>>
procVars   == <<pc, using, saveVars, verifyVars, said>>
bounds     == <<ops, configs>>
vars       == <<config, storeVars, camera, procVars, bounds, calm>>

Saving    == {"mkdir", "open_bin", "write_bin", "write_meta"}
Deleting  == {"unlink_bin", "unlink_meta", "rmdir"}
Verifying == {"load_config", "load_all", "open_verify", "attempt"}
Steps     == {"idle", "check", "configure", "open_enroll", "record"}
                \cup Saving \cup Deleting \cup Verifying
Endings   == {"none", "ok", "error", "cut_off", "match", "no_match", "unavailable"}

\* At most one template per cell of the 3x3 grid of AngleBucket.hpp.
Enrollments == [by : Procs \cup {None}, model : Models, mode : Modes, count : 1..9]

\* None is no value of anything else.
ASSUME NoneAssumption ==
    None \notin Procs \cup Nat \cup Enrollments \cup {Garbage} \cup Seq([of : Enrollments, n : Nat])

TypeOK ==
    /\ config \in Setups
    /\ dir \in {"absent", "present"}
    /\ bin \in Inodes \cup {None} /\ (bin # None => dir = "present")
    /\ meta # None => dir = "present"
    /\ pc \in [Procs -> Steps]
    /\ camera \in [Devices -> Procs \cup {None}]
    /\ \A d \in Devices : camera[d] # None => pc[camera[d]] \in {"record", "attempt"} \cup Saving
    /\ \A p \in Procs :
         /\ using[p] \in Setups \cup {None}
         /\ fd[p] \in Inodes \cup {None}
         /\ off[p] \in 0..10
         /\ tries[p] \in 0..MaxAttempts
         /\ saw[p] \in {"nobody", "face"}
         /\ said[p] \in Endings
         /\ pc[p] = "idle" => fd[p] = None /\ snap[p] = None /\ made[p] = None

\* Nobody is enrolled, or somebody is, by an earlier run.
Init ==
    /\ config \in Setups
    /\ \/ /\ dir = "absent" /\ bin = None /\ meta = None
          /\ disk = [i \in Inodes |-> <<>>]
       \/ \E s \in Setups :
            LET old == [by |-> None, model |-> s.model, mode |-> s.mode, count |-> 1] IN
            /\ dir = "present" /\ bin = 1 /\ meta = old
            /\ disk = [i \in Inodes |-> IF i = 1 THEN serializeEmbeddings(old) ELSE <<>>]
    /\ camera = [d \in Devices |-> None]
    /\ pc = [p \in Procs |-> "idle"]
    /\ using = [p \in Procs |-> None]
    /\ made = [p \in Procs |-> None]
    /\ fd = [p \in Procs |-> None]
    /\ off = [p \in Procs |-> 0]
    /\ snap = [p \in Procs |-> None]
    /\ tries = [p \in Procs |-> 0]
    /\ saw = [p \in Procs |-> "nobody"]
    /\ said = [p \in Procs |-> "none"]
    /\ ops = 0 /\ configs = 0
    /\ calm = "yes"

-----------------------------------------------------------------------------
(* Every command                                                             *)

\* Would this step of p have a save and a deletion under way at the same time?
Overlap(p, step) ==
    \E q \in Procs \ {p} :
        \/ step \in Saving /\ pc[q] \in Deleting
        \/ step \in Deleting /\ pc[q] \in Saving

Goto(p, step) ==
    /\ pc' = [pc EXCEPT ![p] = step]
    /\ calm' = IF Overlap(p, step) THEN "no" ELSE calm

\* The process is over: its descriptors are closed, and what it knew is gone.
Exit(p, ending) ==
    /\ pc' = [pc EXCEPT ![p] = "idle"]
    /\ calm' = IF ending = "cut_off" THEN "no" ELSE calm
    /\ using' = [using EXCEPT ![p] = None]
    /\ made' = [made EXCEPT ![p] = None]
    /\ fd' = [fd EXCEPT ![p] = None]
    /\ off' = [off EXCEPT ![p] = 0]
    /\ snap' = [snap EXCEPT ![p] = None]
    /\ tries' = [tries EXCEPT ![p] = 0]
    /\ saw' = [saw EXCEPT ![p] = "nobody"]
    /\ said' = [said EXCEPT ![p] = ending]

\* Mutant of ReleaseCamera: the device is left open behind the command.
LeaveCamera(p) == UNCHANGED camera

\* ~V4L2Camera, or the kernel, closes the device.
ReleaseCamera(p) == camera' = [d \in Devices |-> IF camera[d] = p THEN None ELSE camera[d]]

End(p, ending) == Exit(p, ending) /\ ReleaseCamera(p)

\* The device takes one streaming process; opening it may fail for other reasons too.
OpenCamera(p, next, failure) ==
    \/ /\ camera[using[p].device] = None
       /\ camera' = [camera EXCEPT ![using[p].device] = p]
       /\ Goto(p, next)
       /\ UNCHANGED <<using, saveVars, verifyVars, said>>
    \/ End(p, failure)

Begin(p) ==
    /\ pc[p] = "idle" /\ ops < MaxOps
    /\ ops' = ops + 1
    /\ \E step \in {"check", "unlink_bin", "load_config"} : Goto(p, step)
    /\ said' = [said EXCEPT ![p] = "none"]
    /\ UNCHANGED <<config, storeVars, camera, using, saveVars, verifyVars, configs>>

-----------------------------------------------------------------------------
(* runEnroll                                                                 *)

\* meta.json, torn or whole, means that the user is enrolled.
CheckEnrolled(p) ==
    /\ pc[p] = "check"
    /\ \E reEnroll \in BOOLEAN :
         IF meta # None /\ ~reEnroll
           THEN End(p, "error")
           ELSE Goto(p, "configure")
                /\ UNCHANGED <<camera, using, saveVars, verifyVars, said>>
    /\ UNCHANGED <<config, storeVars, bounds>>

\* The camera mode is the command's, not the file's; with an illumination gain to
\* persist both are saved, before the camera is even opened.
Configure(p) ==
    /\ pc[p] = "configure"
    /\ \/ /\ End(p, "error")
          /\ UNCHANGED config
       \/ \E mode \in Modes, setup \in Setups :
            /\ setup = [config EXCEPT !.mode = mode]
            /\ using' = [using EXCEPT ![p] = setup]
            /\ config' \in {config, setup}
            /\ Goto(p, "open_enroll")
            /\ UNCHANGED <<camera, saveVars, verifyVars, said>>
    /\ UNCHANGED <<storeVars, bounds>>

OpenEnroll(p) ==
    /\ pc[p] = "open_enroll"
    /\ OpenCamera(p, "record", "error")
    /\ UNCHANGED <<config, storeVars, bounds>>

\* How many templates the usable frames are averaged into: one below
\* kMinFramesForYawBucketing, one per third of the yaw range below
\* kMinFramesForFullGridBucketing, else one per cell of the grid that has a frame.
TemplateCounts(frames) ==
    IF frames < 12 THEN {1} ELSE IF frames < 36 THEN {3} ELSE 3..9

\* Mutant of KeepCamera: the device is given back as soon as the recording is over.
GiveBackEarly(p) == ReleaseCamera(p)

\* The camera object lives until runEnroll returns, so over the save as well.
KeepCamera(p) == UNCHANGED camera

\* The recording, and what is made of it.
Record(p) ==
    /\ pc[p] = "record"
    /\ \E n \in Frames :
         IF n = 0
           THEN End(p, "error")
           ELSE /\ \E count \in TemplateCounts(n) :
                     made' = [made EXCEPT ![p] = [by |-> p, model |-> using[p].model,
                                                  mode |-> using[p].mode, count |-> count]]
                /\ Goto(p, "mkdir")
                /\ KeepCamera(p)
                /\ UNCHANGED <<using, fd, off, verifyVars, said>>
    /\ UNCHANGED <<config, storeVars, bounds>>

\* saveAll: mkdir, which may find the directory there.
MkDir(p) ==
    /\ pc[p] = "mkdir"
    /\ dir' = "present"
    /\ Goto(p, "open_bin")
    /\ UNCHANGED <<config, bin, disk, meta, camera, using, saveVars, verifyVars, said, bounds>>

\* An inode without a name or an open descriptor.
FreeInode == CHOOSE i \in Inodes : i # bin /\ \A p \in Procs : i # fd[p]

\* embedding.bin is emptied where it stands.
OpenBin(p) ==
    /\ pc[p] = "open_bin"
    /\ dir = "present"
    /\ LET inode == IF bin = None THEN FreeInode ELSE bin IN
         /\ bin' = inode
         /\ disk' = [disk EXCEPT ![inode] = <<>>]
         /\ fd' = [fd EXCEPT ![p] = inode]
    /\ off' = [off EXCEPT ![p] = 0]
    /\ Goto(p, "write_bin")
    /\ UNCHANGED <<config, dir, meta, camera, using, made, verifyVars, said, bounds>>

\* write may take any part of what remains.
WriteBin(p) ==
    /\ pc[p] = "write_bin"
    /\ LET bytes == serializeEmbeddings(made[p]) IN
         \E upto \in (off[p] + 1)..Len(bytes) :
            /\ disk' = [disk EXCEPT ![fd[p]] =
                          WriteAt(@, off[p], SubSeq(bytes, off[p] + 1, upto), Hole)]
            /\ off' = [off EXCEPT ![p] = upto]
    /\ UNCHANGED <<config, dir, bin, meta, camera, pc, using, made, fd, verifyVars, said, bounds,
                   calm>>

\* embedding.bin is closed and meta.json opened, emptied.
OpenMeta(p) ==
    /\ pc[p] = "write_bin" /\ off[p] = made[p].count + 1
    /\ dir = "present"
    /\ meta' = Garbage
    /\ fd' = [fd EXCEPT ![p] = None]
    /\ Goto(p, "write_meta")
    /\ UNCHANGED <<config, dir, bin, disk, camera, using, made, off, verifyVars, said, bounds>>

WriteMeta(p) ==
    /\ pc[p] = "write_meta"
    /\ meta' = IF meta = None THEN None ELSE made[p]
    /\ End(p, "ok")
    /\ UNCHANGED <<config, dir, bin, disk, bounds>>

\* mkdir, open or write fails: saveAll returns false, and what it has done stays done.
SaveFails(p) ==
    /\ pc[p] \in Saving
    /\ End(p, "cut_off")
    /\ UNCHANGED <<config, storeVars, bounds>>

-----------------------------------------------------------------------------
(* runDelete                                                                 *)

\* What unlink returns is not looked at.
UnlinkBin(p) ==
    /\ pc[p] = "unlink_bin"
    /\ bin' = None
    /\ disk' = [i \in Inodes |-> IF i = bin /\ \A q \in Procs : fd[q] # i THEN <<>> ELSE disk[i]]
    /\ Goto(p, "unlink_meta")
    /\ UNCHANGED <<config, dir, meta, camera, using, saveVars, verifyVars, said, bounds>>

\* Mutant of UnlinkMeta: meta.json is forgotten.
ForgetMeta(p) ==
    /\ pc[p] = "unlink_meta"
    /\ Goto(p, "rmdir")
    /\ UNCHANGED <<config, storeVars, camera, using, saveVars, verifyVars, said, bounds>>

UnlinkMeta(p) ==
    /\ pc[p] = "unlink_meta"
    /\ meta' = None
    /\ Goto(p, "rmdir")
    /\ UNCHANGED <<config, dir, bin, disk, camera, using, saveVars, verifyVars, said, bounds>>

\* Mutant of Removed: whatever rmdir returns.
Regardless == TRUE

\* rmdir succeeded, or there was no directory.
Removed == bin = None /\ meta = None

RmDir(p) ==
    /\ pc[p] = "rmdir"
    /\ dir' = IF bin = None /\ meta = None THEN "absent" ELSE dir
    /\ End(p, IF Removed THEN "ok" ELSE "error")
    /\ UNCHANGED <<config, bin, disk, meta, bounds>>

-----------------------------------------------------------------------------
(* runVerification                                                           *)

LoadConfig(p) ==
    /\ pc[p] = "load_config"
    /\ \/ /\ using' = [using EXCEPT ![p] = config]
          /\ Goto(p, "load_all")
          /\ UNCHANGED <<camera, saveVars, verifyVars, said>>
       \/ End(p, "unavailable")
    /\ UNCHANGED <<config, storeVars, bounds>>

\* The file is read in one go.
LoadAll(p) ==
    /\ pc[p] = "load_all"
    /\ LET found == IF bin = None THEN None ELSE deserializeEmbeddings(disk[bin]) IN
         IF found \in {None, <<>>}
           THEN End(p, "unavailable")
           ELSE /\ snap' = [snap EXCEPT ![p] = found]
                /\ Goto(p, "open_verify")
                /\ UNCHANGED <<camera, using, saveVars, tries, saw, said>>
    /\ UNCHANGED <<config, storeVars, bounds>>

OpenVerify(p) ==
    /\ pc[p] = "open_verify"
    /\ OpenCamera(p, "attempt", "unavailable")
    /\ UNCHANGED <<config, storeVars, bounds>>

Spend(p) == tries' = [tries EXCEPT ![p] = @ + 1]

\* Mutant of SeesNobody: without a frame the device is opened anew, for free.
ReopenForFree(p) ==
    /\ pc[p] = "attempt" /\ tries[p] < MaxAttempts
    /\ Goto(p, "open_verify")
    /\ ReleaseCamera(p)
    /\ UNCHANGED <<config, storeVars, using, saveVars, verifyVars, said, bounds>>

\* No frame in time, no face or too many of them: the next attempt.
SeesNobody(p) ==
    /\ pc[p] = "attempt" /\ tries[p] < MaxAttempts
    /\ UNCHANGED saw
    /\ Spend(p)
    /\ UNCHANGED <<config, storeVars, camera, pc, using, saveVars, snap, said, bounds, calm>>

\* One face, compared with every template; it matches or it does not.  A template of
\* no length throws, and so does one whose model gives vectors of another length.
Compares(p) ==
    /\ pc[p] = "attempt" /\ tries[p] < MaxAttempts
    /\ \A k \in DOMAIN snap[p] : snap[p][k] # Hole
    /\ \/ /\ saw' = [saw EXCEPT ![p] = "face"]
          /\ Spend(p)
          /\ UNCHANGED <<camera, pc, using, saveVars, snap, said, calm>>
       \/ End(p, "match")
    /\ UNCHANGED <<config, storeVars, bounds>>

\* The camera, the detector, the embedder or the matcher throws: facial-auth-verify
\* reports unavailable, facial-auth-enroll an error.
Throws(p) ==
    /\ pc[p] = "attempt" /\ tries[p] < MaxAttempts
    /\ \E ending \in {"unavailable", "error"} : End(p, ending)
    /\ UNCHANGED <<config, storeVars, bounds>>

RunsOut(p) ==
    /\ pc[p] = "attempt" /\ tries[p] = MaxAttempts
    /\ End(p, IF saw[p] = "face" THEN "no_match" ELSE "unavailable")
    /\ UNCHANGED <<config, storeVars, bounds>>

-----------------------------------------------------------------------------
(* The rest of the machine                                                   *)

Kill(p) ==
    /\ pc[p] # "idle"
    /\ End(p, "cut_off")
    /\ UNCHANGED <<config, storeVars, bounds>>

\* --write-config, with another model, mode or device.
WriteConfig ==
    /\ configs < MaxConfigs
    /\ configs' = configs + 1
    /\ config' \in Setups
    /\ UNCHANGED <<storeVars, camera, procVars, ops, calm>>

EnrollStep(p) ==
    \/ CheckEnrolled(p) \/ Configure(p) \/ OpenEnroll(p) \/ Record(p) \/ MkDir(p)
    \/ OpenBin(p) \/ WriteBin(p) \/ OpenMeta(p) \/ WriteMeta(p) \/ SaveFails(p)
DeleteStep(p) == UnlinkBin(p) \/ UnlinkMeta(p) \/ RmDir(p)
VerifyStep(p) ==
    \/ LoadConfig(p) \/ LoadAll(p) \/ OpenVerify(p)
    \/ SeesNobody(p) \/ Compares(p) \/ Throws(p) \/ RunsOut(p)

Step(p) == EnrollStep(p) \/ DeleteStep(p) \/ VerifyStep(p)

Next == (\E p \in Procs : Begin(p) \/ Step(p) \/ Kill(p)) \/ WriteConfig

Spec == Init /\ [][Next]_vars

\* Every command that was started is scheduled; nothing else has to happen.
FairSpec == Spec /\ \A p \in Procs : WF_vars(Step(p))

-----------------------------------------------------------------------------
(* Properties                                                                *)

\* The enrolment a file holds, if it holds the whole of it.
InForce(file) ==
    IF file = <<>> THEN None
    ELSE LET e == file[1].of
             whole == serializeEmbeddings(e)
         IN  IF \A k \in DOMAIN whole : k \in DOMAIN file /\ file[k] = whole[k]
               THEN e ELSE None

\* The enrolment loaded templates are, if they are the whole of one.
Loaded(templates) ==
    IF templates = None THEN None
    ELSE LET e == templates[1].of IN
         IF templates = Tail(serializeEmbeddings(e)) THEN e ELSE Garbage

\* Saves, deletions and verifications, in whatever order their steps come and
\* whatever fails, are those of one whole enrolment at a time (saveAll, remove,
\* loadAll, runVerification; see Recognition).
Promise == INSTANCE Recognition WITH
    enrolled    <- IF bin = None THEN None ELSE InForce(disk[bin]),
    known       <- [p \in Procs |-> Loaded(snap[p])]

RecognitionSpec == Promise!Spec

\* No embedding.bin ever holds templates of two captures: the one camera is the lock
\* that keeps two saves apart (runEnroll, saveAll).
NoMixedTemplates ==
    \A i \in Inodes : \A j, k \in DOMAIN disk[i] : disk[i][j].of = disk[i][k].of

\* A deletion that reports success leaves nothing to recognise, whatever a capture
\* that runs at the same time does (runDelete, remove).
DeletedMeansGone ==
    [][\A p \in Procs :
          pc[p] = "rmdir" /\ said'[p] = "ok" => bin' = None /\ meta' = None]_vars

\* After commands that nothing disturbed, a status report and a login agree: there is
\* a meta.json exactly if there is a whole embedding.bin, and of the same capture.
StatusAgreesWithLogin ==
    calm = "yes" /\ (\A p \in Procs : pc[p] \notin Saving \cup Deleting) =>
        meta = (IF bin = None THEN None ELSE InForce(disk[bin]))

\* Every command ends: a verification makes its attempts and no more.
EveryCommandEnds == \A p \in Procs : pc[p] # "idle" ~> pc[p] = "idle"

(* What a comment says, and the code does not do                             *)

\* EmbeddingFormat.hpp: templates are tagged "so a future embedding-model swap or an
\* IR<->RGB mode change can never be silently compared against mismatched old data".
NeverComparedMismatched ==
    [][\A p \in Procs :
          saw'[p] = "face" /\ saw[p] = "nobody" =>
             \A k \in DOMAIN snap[p] : snap[p][k].of.model = using[p].model
                                       /\ snap[p][k].of.mode = using[p].mode]_vars
=============================================================================
