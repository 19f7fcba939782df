-------------------------- MODULE PamServiceEdit --------------------------
(***************************************************************************)
(* facial-auth-enroll --pam-enable and --pam-disable on one file of         *)
(* /etc/pam.d: helper processes that read it, check recognition, and write  *)
(* it and its backup through a temporary file, while an administrator edits *)
(* it, system calls fail, helpers are killed and the machine loses power.   *)
(*                                                                         *)
(* Names and file data are kept apart, as the file system does: a helper    *)
(* that opened the temporary file writes on into that inode wherever it has *)
(* been renamed to.  Data is written by whole lines.                        *)
(***************************************************************************)
EXTENDS PamServiceConfig, FileData, FiniteSets

CONSTANTS
    Helpers,        \* privileged helper processes
    AdminContents,  \* what the administrator may write
    MaxOps,         \* bound on the commands that are run
    MaxEdits,       \* bound on the administrator's edits
    MaxLosses,      \* bound on power failures
    NoInode, Missing

ASSUME ContentsAssumption == AdminContents \subseteq Seq(Lines)
ASSUME BoundsAssumption   == MaxOps \in Nat /\ MaxEdits \in Nat /\ MaxLosses \in Nat
ASSUME HelpersAssumption  == IsFiniteSet(Helpers)
ASSUME NoneAssumption     == NoInode \notin Nat /\ Missing \notin Seq(Lines)

Attempts  == 5      \* kPamPreEnableAttempts
MinPasses == 4      \* kPamPreEnableMinPasses

Names  == {"service", "backup"}      \* NAME and NAME.pam_facial.orig
Inodes == 1..(2 * Cardinality(Names) + Cardinality(Helpers))

VARIABLES
    file, tmp,     \* the inode a name, and its .pam_facial.tmp, refers to
    disk, synced,  \* what each inode holds, and which are known to be on the disk
    pc, job,       \* each helper's next step, and what it has in hand
    held,          \* history: every content the service file has had
    ops, edits, losses,
    killed         \* has a helper ended without its own clean-up?

fsVars == <<file, tmp, disk, synced>>
bounds == <<edits, losses>>
vars   == <<fsVars, pc, job, held, ops, bounds, killed>>

Steps == {"idle", "read", "verify", "edit", "choose", "open", "write", "rename"}

\* read is *contentOpt, new is newContent; target, fd and off belong to writeFileAtomic.
Jobs == [op : {"none", "enable", "disable"}, read : Seq(Lines \cup {"nul"}),
         new : Seq(Lines \cup {"nul"}), tries : 0..Attempts, passes : 0..Attempts,
         target : Names, fd : Inodes \cup {NoInode}, off : Nat]

NoJob == [op |-> "none", read |-> <<>>, new |-> <<>>, tries |-> 0, passes |-> 0,
          target |-> "service", fd |-> NoInode, off |-> 0]

TypeOK ==
    /\ file \in [Names -> Inodes \cup {NoInode}]
    /\ tmp \in [Names -> Inodes \cup {NoInode}]
    /\ DOMAIN disk = Inodes
    /\ \A i \in Inodes : \A n \in DOMAIN disk[i] : disk[i][n] \in Lines \cup {"nul"}
    /\ synced \subseteq Inodes
    /\ pc \in [Helpers -> Steps]
    /\ DOMAIN job = Helpers
    /\ \A h \in Helpers :
         /\ DOMAIN job[h] = DOMAIN NoJob
         /\ job[h].passes <= job[h].tries /\ job[h].tries <= Attempts
         /\ job[h].target \in Names
         /\ job[h].fd \in Inodes \cup {NoInode}
         /\ pc[h] \in {"write", "rename"} <=> job[h].fd # NoInode
    /\ ops \in 0..MaxOps /\ edits \in 0..MaxEdits /\ losses \in 0..MaxLosses
    /\ killed \in BOOLEAN

Init ==
    /\ \E here \in BOOLEAN, content \in AdminContents :
         /\ file = [n \in Names |-> IF here /\ n = "service" THEN 1 ELSE NoInode]
         /\ disk = [i \in Inodes |-> IF here /\ i = 1 THEN content ELSE <<>>]
         /\ held = IF here THEN {content} ELSE {}
    /\ tmp = [n \in Names |-> NoInode]
    /\ synced = Inodes
    /\ pc = [h \in Helpers |-> "idle"]
    /\ job = [h \in Helpers |-> NoJob]
    /\ ops = 0 /\ edits = 0 /\ losses = 0
    /\ killed = FALSE

Content(inode) == IF inode = NoInode THEN Missing ELSE disk[inode]

\* The service file holds this content from now on.
Note(content) == held' = held \cup {content}

\* An inode no name and no descriptor refers to.
FreeInode ==
    CHOOSE i \in Inodes :
        /\ \A n \in Names : i # file[n] /\ i # tmp[n]
        /\ \A h \in Helpers : i # job[h].fd

-----------------------------------------------------------------------------
(* runPamEnable and runPamDisable                                            *)

Goto(h, step) == pc' = [pc EXCEPT ![h] = step]

\* Mutant of Finish: the descriptor and the rest of the command's state are kept.
KeepJob(h) ==
    /\ Goto(h, "idle")
    /\ UNCHANGED job

\* The command is over, with whatever STATUS it printed.
Finish(h) ==
    /\ Goto(h, "idle")
    /\ job' = [job EXCEPT ![h] = NoJob]

Begin(h) ==
    /\ pc[h] = "idle" /\ ops < MaxOps
    /\ ops' = ops + 1
    /\ \E op \in {"enable", "disable"} : job' = [job EXCEPT ![h].op = op]
    /\ Goto(h, "read")
    /\ UNCHANGED <<fsVars, held, bounds, killed>>

\* The file is read before the recognition checks.
ReadService(h) ==
    /\ pc[h] = "read"
    /\ IF file["service"] = NoInode
         THEN Finish(h)
         ELSE /\ job' = [job EXCEPT ![h].read = disk[file["service"]]]
              /\ Goto(h, IF job[h].op = "enable" THEN "verify" ELSE "edit")
    /\ UNCHANGED <<fsVars, held, ops, bounds, killed>>

\* Mutant of Passed: one match in five will do.
PassedOnce(passes) == passes > 0

Passed(passes) == passes >= MinPasses

\* One of the recognition attempts, which may throw and end the command; after the
\* last one the threshold decides.
VerifyOnce(h) ==
    /\ pc[h] = "verify"
    /\ \/ /\ job[h].tries < Attempts
          /\ \E match \in {0, 1} :
               job' = [job EXCEPT ![h].tries = @ + 1, ![h].passes = @ + match]
          /\ UNCHANGED pc
       \/ /\ job[h].tries < Attempts
          /\ Finish(h)
       \/ /\ job[h].tries = Attempts
          /\ IF Passed(job[h].passes) THEN Goto(h, "edit") /\ UNCHANGED job ELSE Finish(h)
    /\ UNCHANGED <<fsVars, held, ops, bounds, killed>>

\* newContent is worked out from what was read; nothing is written if it is the same.
Install(h, newContent, step) ==
    /\ pc[h] = "edit"
    /\ IF newContent = job[h].read
         THEN Finish(h)
         ELSE /\ job' = [job EXCEPT ![h].new = newContent]
              /\ Goto(h, step)
    /\ UNCHANGED <<fsVars, held, ops, bounds, killed>>

\* A hand-edited line is reported, and nothing is written.
Enable(h) ==
    /\ job[h].op = "enable"
    /\ Install(h, enableInContent(job[h].read), "choose")

Disable(h) ==
    /\ job[h].op = "disable"
    /\ Install(h, disableInContent(job[h].read), "open")

\* Mutant of NeedsBackup: save what is there before every enable.
AlwaysBackup == TRUE

NeedsBackup == file["backup"] = NoInode

\* Before enabling, the backup is written if there is none yet.
ChooseTarget(h) ==
    /\ pc[h] = "choose"
    /\ job' = [job EXCEPT ![h].target = IF NeedsBackup THEN "backup" ELSE "service"]
    /\ Goto(h, "open")
    /\ UNCHANGED <<fsVars, held, ops, bounds, killed>>

-----------------------------------------------------------------------------
(* writeFileAtomic                                                           *)

Payload(h) == IF job[h].target = "backup" THEN job[h].read ELSE job[h].new

\* Mutant of CleanUp: the temporary file stays behind.
LeaveTmp(h) == UNCHANGED tmp

\* unlink(tmpPath): whichever file has that name by now.
CleanUp(h) == tmp' = [tmp EXCEPT ![job[h].target] = NoInode]

\* open with O_CREAT and O_TRUNC, which may find a temporary file already there.
OpenTmp(h) ==
    /\ pc[h] = "open"
    /\ LET name  == job[h].target
           inode == IF tmp[name] = NoInode THEN FreeInode ELSE tmp[name]
       IN  \/ /\ tmp' = [tmp EXCEPT ![name] = inode]
              /\ disk' = [disk EXCEPT ![inode] = <<>>]
              /\ synced' = synced \ {inode}
              /\ job' = [job EXCEPT ![h].fd = inode, ![h].off = 0]
              /\ Goto(h, "write")
           \/ /\ Finish(h)
              /\ UNCHANGED <<tmp, disk, synced>>
    /\ UNCHANGED <<file, held, ops, bounds, killed>>

\* write may take any part of what remains.
WriteSome(h) ==
    /\ pc[h] = "write"
    /\ \E upto \in (job[h].off + 1)..Len(Payload(h)) :
         /\ disk' = [disk EXCEPT ![job[h].fd] =
                        WriteAt(@, job[h].off, SubSeq(Payload(h), job[h].off + 1, upto), "nul")]
         /\ job' = [job EXCEPT ![h].off = upto]
         /\ held' = IF job[h].fd = file["service"]
                      THEN held \cup {disk'[job[h].fd]} ELSE held
    /\ synced' = synced \ {job[h].fd}
    /\ UNCHANGED <<file, tmp, pc, ops, bounds, killed>>

\* Mutant of Fsync: the data is left to the page cache.
NoFsync(h) ==
    /\ pc[h] = "write" /\ job[h].off = Len(Payload(h))
    /\ Goto(h, "rename")
    /\ UNCHANGED <<fsVars, job, held, ops, bounds, killed>>

Fsync(h) ==
    /\ pc[h] = "write" /\ job[h].off = Len(Payload(h))
    /\ synced' = synced \cup {job[h].fd}
    /\ Goto(h, "rename")
    /\ UNCHANGED <<file, tmp, disk, job, held, ops, bounds, killed>>

\* write, fsync or rename fails: the temporary file is removed and the command ends.
WriteFails(h) ==
    /\ pc[h] \in {"write", "rename"}
    /\ CleanUp(h)
    /\ Finish(h)
    /\ UNCHANGED <<file, disk, synced, held, ops, bounds, killed>>

\* The rename installs the file of that name; after the backup comes the service.
RenameTmp(h) ==
    LET name == job[h].target IN
    /\ pc[h] = "rename" /\ tmp[name] # NoInode
    /\ file' = [file EXCEPT ![name] = tmp[name]]
    /\ tmp' = [tmp EXCEPT ![name] = NoInode]
    /\ \/ /\ name = "service"
          /\ Note(disk[tmp[name]])
          /\ Finish(h)
       \/ /\ name = "backup"
          /\ job' = [job EXCEPT ![h].target = "service", ![h].fd = NoInode, ![h].off = 0]
          /\ Goto(h, "open")
          /\ UNCHANGED held
    /\ UNCHANGED <<disk, synced, ops, bounds, killed>>

HelperStep(h) ==
    \/ Begin(h) \/ ReadService(h) \/ VerifyOnce(h) \/ Enable(h) \/ Disable(h)
    \/ ChooseTarget(h) \/ OpenTmp(h) \/ WriteSome(h) \/ Fsync(h) \/ WriteFails(h) \/ RenameTmp(h)

-----------------------------------------------------------------------------
(* The rest of the machine                                                   *)

\* An administrator saves the file, in an inode of its own.
AdminEdit ==
    /\ edits < MaxEdits
    /\ edits' = edits + 1
    /\ \E content \in AdminContents :
         /\ file' = [file EXCEPT !["service"] = FreeInode]
         /\ disk' = [disk EXCEPT ![FreeInode] = content]
         /\ synced' = synced \cup {FreeInode}
         /\ Note(content)
    /\ UNCHANGED <<tmp, pc, job, ops, losses, killed>>

\* A helper is killed at any step.
KillHelper(h) ==
    /\ pc[h] # "idle"
    /\ Finish(h)
    /\ killed' = TRUE
    /\ UNCHANGED <<fsVars, held, ops, bounds>>

\* Power fails: of data that was not synced any beginning may be on the disk.
PowerLoss ==
    /\ losses < MaxLosses
    /\ losses' = losses + 1
    /\ \E kept \in [Inodes \ synced -> UNION {0..Len(disk[i]) : i \in Inodes}] :
         /\ \A i \in Inodes \ synced : kept[i] <= Len(disk[i])
         /\ disk' = [i \in Inodes |->
                       IF i \in synced THEN disk[i] ELSE SubSeq(disk[i], 1, kept[i])]
    /\ synced' = Inodes
    /\ pc' = [h \in Helpers |-> "idle"]
    /\ job' = [h \in Helpers |-> NoJob]
    /\ killed' = TRUE
    /\ held' = IF file["service"] = NoInode THEN held ELSE held \cup {disk'[file["service"]]}
    /\ UNCHANGED <<file, tmp, ops, edits>>

Next ==
    \/ \E h \in Helpers : HelperStep(h) \/ KillHelper(h)
    \/ AdminEdit \/ PowerLoss

Spec == Init /\ [][Next]_vars

-----------------------------------------------------------------------------
(* Properties                                                                *)

\* The file and its backup are, at every moment, whole and put there in a permitted
\* way (writeFileAtomic, runPamEnable, runPamDisable; see PamServiceFile).
Promise == INSTANCE PamServiceFile WITH
    service <- Content(file["service"]),
    backup  <- Content(file["backup"])

ServiceFileSpec == Promise!Spec

\* Helper h puts what it edited under the name of the service file.
Installs(h) == file'["service"] # file["service"] /\ job'[h] # job[h]

\* The tool installs its line into a file without one only after four of the five
\* recognition attempts of that very command matched (runPamEnable).
EnableIsEarned ==
    [][\A h \in Helpers :
          job[h].op = "enable" /\ Installs(h)
            => job[h].tries = Attempts /\ job[h].passes >= MinPasses]_vars

\* To a login, enabling adds a face and takes nothing away, and removing takes the face
\* away and nothing else: whoever has the password gets in as before ("Your password will
\* keep working exactly as before", PamEnableConfirmDialog).  Removing says nothing of a
\* line that was made required by hand.
PasswordKeepsWorking ==
    [][\A h \in Helpers, factors \in SUBSET {"face", "password"} :
          Installs(h) =>
            LET before == Accepts(job[h].read, factors)
                after  == Accepts(disk'[file'["service"]], factors)
            IN  /\ job[h].op = "enable" => (after <=> before \/ "face" \in factors)
                /\ job[h].op = "disable" /\ (\A i \in DOMAIN job[h].read :
                                               job[h].read[i] # "required")
                     => (after <=> Accepts(job[h].read, factors \ {"face"}))]_vars

\* A command that was not killed leaves no temporary file behind, whichever of its
\* system calls failed (writeFileAtomic).
NoLitter ==
    ~killed /\ (\A h \in Helpers : pc[h] = "idle") => \A n \in Names : tmp[n] = NoInode

(* What the comments and the docs say, and the code does not always do       *)

\* enroll/main.cpp: NAME can never be left half-written, so what is under that name
\* changes only by putting another file there, never in place.  One helper keeps to it,
\* two do not.
NeverHalfWritten ==
    [][LET live == file["service"] IN
          live # NoInode /\ file'["service"] = live => disk'[live] = disk[live]]_vars

\* docs/testing-safely.md: a pam_facial.so line with any other control flag "is left
\* alone and reported, never auto-corrected" by the command that enables.
HandEditLeftAlone ==
    [][\A h \in Helpers :
          job[h].op = "enable" /\ Installs(h)
            => detectPamFacialState(disk[file["service"]]) # "EnabledUnsafe"]_vars
=============================================================================
