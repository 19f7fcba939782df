# TLA+ models of pam-facial

TLA+ specifications of the parts of pam-facial whose correctness depends on the order in
which processes, files, signals and users act: the PAM module's authentication call, the
privileged edits of `/etc/pam.d`, enrolment with the verification that uses it, and the control
application over all of them. They are model-checked with TLC on small instances; what matters
most about each is also proved with TLAPS for every instance. Paths below are relative to the
repository.

`PROJECT.json` is the index: components, runs, which definition models which source lines,
hazards, findings, theorems and, for every checked property, a deliberate bug that breaks it.

## 1. The system

| Component | State it keeps | Operations | Talks to |
|---|---|---|---|
| PAM module, `src/pam/pam_facial.cpp` | nothing between calls; in a call: the confirmation mode, a pipe, a child, the terminal's foreground group, two deadlines | `pam_sm_authenticate`, `pam_sm_setcred` | the host's conversation, `facial-auth-confirm`, `facial-auth-verify`, `config.conf` |
| Confirmation policy, `src/core/pam/PamConfirmationPrompt.hpp` | none | parsing of modes, timeout and replies | used by the module |
| Confirmation dialog, `src/confirm-gui` | one dialog | ask, exit with 0, 1 or another code | started by the module's child |
| Verifier, `src/verify`, `src/core/verify` | templates and a camera for one run | `runVerification`, exit code | store, config, camera; started by the module and by `facial-auth-enroll` |
| Enrolment store, `src/core/storage` | `/var/lib/facial-auth/USER/{embedding.bin,meta.json}` | `saveAll`, `loadAll`, `loadMetadata`, `remove` | enroll, verify |
| Privileged helper, `src/enroll/main.cpp` | none between runs | enrol, delete, status, test, write-config, pam-enable, pam-disable | store, config, camera, `/etc/pam.d` |
| PAM service text, `src/core/pam/PamServiceConfig.cpp` | none | detect, enable, disable | the helper, the PAM page |
| Camera, `src/core/camera` | device, mapped buffers | open, capture, close; enumeration and selection | enroll, verify, control GUI |
| Matcher, detector, embedder, `src/core/match`, `src/core/face` | models | distance, detect, embed | enroll, verify |
| Configuration, `src/core/config` | `/etc/facial-auth/config.conf` | load, parse, serialize | everything |
| Control GUI, `src/gui` | per page: preview camera, one helper runner, pending action | enrol, delete, test, save, enable, disable | the helper through `pkexec` |

What is hard in it, and what makes each part correct:

* **Authentication call.** Six processes interleave: the host, the child that asks, the dialog
  (a grandchild), the verifier, the user, the shell. One pipe byte means yes, no or "no dialog";
  a deadline races the answer; the terminal's foreground group is handed over and must come
  back; `SIGCHLD` may be ignored, `waitpid` interrupted, children stopped. *Correct:* the camera
  starts only after a timely yes to the prompt last put; success only with a match; every call
  returns and leaves nothing behind.
* **Service file edits.** A fixed temporary name, no lock, and recognition checks of up to half
  a minute between the read and the write; crashes, failing calls, power loss, an administrator
  editing at the same time. *Correct:* the file is whole at every moment and is a permitted edit
  of a content it had; the line is installed only after the required matches.
* **Enrolment.** Two files written one after the other in place, no lock, deletions and logins
  at any moment; the camera, which one process can stream from, is what keeps two captures
  apart. *Correct:* a login uses one whole enrolment or none; a reported deletion is complete;
  status and login agree.
* **Configuration.** Truncate, write, no check and no lock: a reader may find it empty or cut
  short, and what is missing takes a default; each writer carries over keys it has not changed.
  *Correct:* a login leaves a question out only where somebody chose that; the stream that is
  saved is one a camera has.
* **Control GUI.** Three pages, each with its own helper, its own idea of "busy" and its own copy
  of what it read; a preview that competes with the helpers for the camera; cameras that are
  unplugged under a list of them. *Correct:* RGB is acknowledged before it is saved, an untouched
  camera stays configured, the preview yields to a capture and comes back, the rows of the PAM
  page are true, every command is answered.

All hazards are listed at their line in `PROJECT.json`, with the properties that cover them.

## 2. Modules and how they correspond to the code

    CameraConsent  <--refines--  PamFacial <- MCPamFacial
                                     ^------- PamFacialProofs <- PamCallProofs
    PamServiceConfig <- PamServiceFile  <--refines--  PamServiceEdit <- MCPamServiceEdit
    FileData <-------------------------------------- PamServiceEdit, Enrollment
                                           PamServiceEdit <- PamServiceProofs <- PamServiceRefinement
    EmbeddingFormat <- Enrollment <- MCEnrollment
                       Enrollment  --refines-->  Recognition
                       Enrollment <- EnrollmentProofs <- EnrollmentRefinement
    CameraEnumerator <- CameraSelection <-+
                              ConfigFile <+- EnrollHelperRunner <- EnrollmentPage,
                                                 SettingsPage, PamIntegrationPage <- ControlGui
                                                 ControlGui <- MCControlGui
                                                 ControlGui <- ControlGuiProofs <- SettingsProofs

**`PamFacial`** is one call of `pam_sm_authenticate`. `host` is the program counter of the
calling process; its actions are the system calls of `authenticateImpl`,
`confirmCameraUseViaPam`, `runConfirmationChild` and `waitForChildWithTimeout`, one per action
where another process can act in between. `child` is the forked prompt (`doTextConfirmation`,
`tryGuiConfirmation`), `helper` the dialog, `verify` the verifier. `pipe` is the pipe's content,
`timer` the open deadline, `fg` the terminal's foreground group and `stopped` what job control
has stopped; an ignored `SIGCHLD` is `session.autoReap`. `said` and `found` record what the user and
the verification really concluded; no step of the host, the child or the dialog reads `said`.
The configuration may be rewritten at any moment of the call and is read where the code reads it.

**`CameraConsent`** is the promise without processes, pipe or terminal. `PamFacial` implements
it under a mapping from the host's program counter to the stages of an attempt (`Consent`).

**`PamServiceConfig`** holds the text edits on sequences of line classes: a facial line is its
control flag, and every other line is left alone. **`PamServiceEdit`** runs `runPamEnable` and
`runPamDisable` in helper processes against a file system with names and inodes apart, which is
what makes a shared temporary file visible: a helper that opened it goes on writing wherever it
has been renamed to. `synced` says which inodes survive a power failure whole. **`PamServiceFile`**
is what the file and its backup may do, whatever happens.

**`Enrollment`** runs `runEnroll`, `runDelete` and `runVerification` (for `facial-auth-verify`,
`--test` and the checks of `--pam-enable`) as processes on one user's directory. `bin` is the inode
named `embedding.bin`, `disk` what inodes hold, `meta` is `meta.json`, `camera` who streams from a
device. Templates carry the enrolment they belong to, so that a mixture shows. **`EmbeddingFormat`**
is the file's layout: a header with the tags and the record count, and the records.
**`Recognition`** is what enrolment and verification promise together: at most one whole
enrolment is in force, a new one only comes into force when none is, and a verification that
concludes did so about one that was in force when it looked. **`FileData`** is a write at an offset.

**`CameraEnumerator`** and **`CameraSelection`** are pure: the frame size that `pickFrameSize`
settles on, the nodes that `listCameras` groups into cameras by bus, and the three functions that
decide which camera and mode the settings page shows. **`ConfigFile`** is `config.conf` as a
function from the keys that stand in it to what `load` takes them for, `load` with its defaults,
`serialize` in the order in which a write cut short loses keys, and `WrittenOver`: what stands in the file
when two processes have written it from its start, the end of the longer text behind the other one.

**`EnrollHelperRunner`** is what the pages share: the file, the cameras, the enrolment and the
service files, and for each page the `QProcess` with the `facial-auth-enroll` it runs. `helper[p].at`
goes from the `pkexec` prompt over loading, emptying and writing the configuration, opening and
using the camera, to an end that waits for the event loop. `streaming` says who has which node open.
**`EnrollmentPage`**, **`SettingsPage`** and **`PamIntegrationPage`** hold one action for each slot;
a slot is one step, for the event loop runs one at a time and the modal dialogs lock the window.
**`ControlGui`** composes them: tabs, slots, the events of the helpers, cameras that are plugged and
unplugged, an administrator's edits. Of the helpers it has the steps that the pages can tell apart;
their own steps are those of `Enrollment` and `PamServiceEdit`.

## 3. What the runs check

| Run | Question | Result |
|---|---|---|
| `pam_consent` | safety and refinement of `CameraConsent`, with Ctrl-Z and interrupted waits | holds |
| `pam_returns` | every call returns, leaves no process behind, gives the terminal back | holds, without Ctrl-Z and interrupted waits |
| `pam_tty_race` | the text child has the terminal whenever it reads it (pam_facial.cpp:186-189) | violated |
| `pam_ctrl_z` | the wait is bounded whatever the child does (pam_facial.cpp:171-176) | violated |
| `service_edit` | refinement of `PamServiceFile`, never written in place, no litter, enabling is earned, passwords keep working, with crashes and edits | holds for one helper |
| `service_stale` | a hand-edited line is left alone (docs/testing-safely.md:118-120) | violated |
| `service_torn` | a service file is never half-written (enroll/main.cpp:198-200) | violated by two helpers |
| `enrollment` | refinement of `Recognition`, no mixtures, complete deletions, agreement, termination | holds on one camera |
| `enroll_mismatch` | tagged templates are never compared with mismatched data (EmbeddingFormat.hpp:19-21) | violated |
| `control_gui` | what is saved was chosen, the camera is shared, pages tell the truth, commands are answered | holds |
| `gui_rgb` | saving RGB is acknowledged first (SettingsPage.cpp:37-40, README.md:185) | violated |
| `gui_preview` | the preview is closed while a helper captures (EnrollmentPage.hpp:22-25) | violated |

The seven violations are described, with the quoted sentence, under `findings`. In short: the
terminal is handed over by the parent after the fork, so the child may read it too early and is
stopped for good; the wait after an answer has no deadline, so a child stopped just after
answering holds the host; the edit that is installed is of the content read before the
recognition checks; two helpers share one temporary file; the tags of an enrolment are
stored and never compared; a camera that has only RGB is shown in that mode without a signal, so
saving it asks nobody; and showing the page again reopens its preview whatever its helper is doing.

Properties, beyond each module's type invariant:

* `ConsentBeforeCamera`, `SuccessNeedsConsentAndMatch`, `GaveUpIsFinal` (an abandoned prompt can
  no longer start the camera), `GuiLeavesTerminalAlone`, `ConsentSpec`; `NothingLeftBehind`,
  `TerminalGivenBack`, `AlwaysReturns`.
* `ServiceFileSpec`, `NeverHalfWritten`, `EnableIsEarned`, `NoLitter`; `PasswordKeepsWorking`, in which `Accepts` is
  what libpam makes of the lines before and after an edit.
* `RecognitionSpec`, `NoMixedTemplates`, `DeletedMeansGone`, `StatusAgreesWithLogin`,
  `EveryCommandEnds`.
* `RgbChosenIsAcknowledged`, `NoConfirmationUnasked`, `SavedStreamIsOne`, `UntouchedCameraKept`;
  `PreviewYields`, `DarkPreviewExplained`; `RowsTrue`; `CommandAnswered`.

### Bounds, and why they are enough

* *Authentication:* one call at a time, in every session of `AllSessions`: with and without
  display, conversation and terminal, foreground and background, `SIGCHLD` ignored or not,
  `SIGTTOU` ignored or not, and a call without a user name. Calls share nothing but the
  configuration. One rewrite of `config.conf` (`MaxConfigWrites`) suffices for two reads that
  disagree, and a call makes at most two. Prompts are bounded by the code: at most one of each kind.
* *Service files:* three commands allow enable, disable, enable, and the backup that exists
  already. One edit and one power failure fall at every step. The files are up to three lines
  long, which allows a partial write, and include two facial lines. Two helpers are needed for
  the shared temporary file and are enough for it.
* *Enrolment:* two processes and three commands, in all combinations of save, delete and verify,
  from no enrolment or an earlier one with a single template, which a new one of three
  templates replaces: a shorter file under a longer one and the reverse. Two capture attempts
  distinguish the last one from others. `TemplateCounts` allows 1, 3 to 9; the instances use 1 and 3.
* *Control GUI:* five sessions, each for the interplay it allows: the Enrollment page with the PAM
  page (a capture here, the recognition checks there) and with the Settings page (two writers, and
  a preview of the camera that is being configured), over a configured infrared camera and over a
  new camera whose one node gives both formats; the Settings page with a webcam that has no infrared,
  with a camera that is configured for RGB, and with cameras that come and go. A user who works
  in a third page meanwhile adds nothing, as the pages only share files and cameras. Two
  commands (`MaxRuns`) overlap in every way two pages allow. One mishap (`MaxMishaps`) is a kill, a
  failing call, a write cut short, a camera replugged or an administrator's edit. A write that is
  cut short ends after the fifth of seven keys (`Torn`): where both confirmation modes get lost.
  `Gains` holds one position: no property depends on the gain. One configuration asks no question, and
  the user may choose to drop the other one (`Prompting`).
* `Procs + 1` inodes (`2 * names + helpers` for service files) are as many as can be in use at
  once, so `FreeInode` never lacks one.

### Fairness

`AlwaysReturns` assumes that the host is scheduled, that a child that can run is scheduled and
that time passes (`WF` of `HostStep`, `ChildStep` and `TimerExpires`): the kernel's
scheduler and clock. Nothing is assumed of the user, the dialog, the verifier or the shell; a
host the shell itself has stopped is allowed to stay so. `EveryCommandEnds` assumes that a command
which was started is scheduled (`WF` of its steps). An attempt to capture ends because
`captureFrame` polls with a timeout. `CommandAnswered` assumes the same of an authorised helper of
the control application and of the event loop that delivers its end (`WF` of `Proceeds`); the user may
leave the `pkexec` prompt unanswered for ever, so a command that waits there is not counted. No fairness is given to kills, failures, the administrator or the start of commands.
Deadlock checking is off in every run: a call that has returned, or commands
that have all been run, stop.

## 4. What is proved

### The authentication call

`PamFacialProofs` proves, for every set of sessions, every bound, and with or without Ctrl-Z and
interrupted waits (that is, from `SessionsAssumption` and `WritesAssumption` alone):

* `Typing`: `Spec => []TypeOK`;
* `CameraNeedsConsent`: `Spec => []ConsentBeforeCamera`;
* `SuccessIsEarned`: `Spec => []SuccessNeedsConsentAndMatch`.

`ConsentBeforeCamera` is not inductive: nothing in it says where the yes that starts the camera
came from. `ConsentInv` follows it back. `Chain`: a dialog that exited with 0, a byte 1 in the
child, in a pipe that is still open, or in the host's hands was put there by a yes to the prompt
now open. `StillAsking`: while that prompt can still be answered no such byte is anywhere, so
neither the reply of a second prompt nor a changed mind can be taken for it. `Phases` says which
processes can be there at which of the host's steps, which is why a child or dialog of an
earlier prompt cannot put a byte into a later one's pipe: it is dead or cut off before the next
prompt opens. `Success` ties the result to the reaped exit code and that to the finding.
`ConsentStep` shows that each of the thirty-odd actions keeps all of it; `ConsentInvariant` concludes.

`PamCallProofs` goes on from there, to everything else the runs check of the call but its liveness:

* `TerminalIsGivenBack`: `Spec => []TerminalGivenBack`, and `OnlyTextTakesTheTerminal`:
  `Spec => GuiLeavesTerminalAlone`, with Ctrl-Z and interrupted waits too;
* `GivenUpStaysSo`: `Spec => GaveUpIsFinal`;
* `NothingIsLeft`: `Spec => []NothingLeftBehind`, on the assumption that waits are not interrupted;
* `CallImplementsConsent`: `Spec => ConsentSpec`, so that `CameraConsent` describes every call.

`CallInv` adds to `ConsentInv` what they need. `TerminalInv`: from which of the host's steps on the
child can have the terminal, and that each of them leads to `Restore`. `GroupInv`: when the host kills, the
child and its dialog are in the group it kills. `LeftoverInv`: a dialog is waited for by its child or is going
to be killed with it. `ReplyInv`: which replies are still to come, and that
where a dialog can still give one although its child did not wait for it, the host has "could not ask" and no
answer; this is what keeps a late yes from being a step that `CameraConsent` does not have.

### The service files

`PamServiceProofs` proves, for any number of helpers, commands, edits, kills and power failures:

* `NoLitterStays`: `Spec => []NoLitter`. It is not inductive, for it says nothing of a file whose
  command is still at work. `Attended`: as long as nobody has been killed, a temporary name has a
  helper that is about to rename or to remove it; that two helpers share a name does no harm here.
* `EnableAlwaysEarned`: `Spec => EnableIsEarned`, from `Earned`: whoever is past the checks has
  taken all of the attempts and enough of them matched.
* `ServiceTyping`: `Spec => []TypeOK`. `Fresh`: there are two inodes for each name and one for each
  helper, and a helper that leaves the others with the descriptor of a nameless file has given up its own, so
  that there is always an inode left for a new file (`InodeLeft`).

`PamServiceRefinement` proves, for one helper (`OneHelper`) and otherwise in general:

* `EditImplementsFile`: `Spec => ServiceFileSpec`. With two helpers it is false: the run
  `service_torn` shows how they tear the file. `RefInv` says that no inode has two names, that what has been renamed is whole
  and on the disk, that what is being written is the beginning of the edit of what was read, and that the backup
  goes first. A rename then is a step of `PamServiceFile`, and every other step of a helper, a kill and a power failure
  are none.
* `PasswordStillWorks`: `Spec => PasswordKeepsWorking`, for files of any length: `InstalledIsNew` says that
  what is installed is a whole edit, `EnabledAccepts` and `DisabledAccepts` what libpam makes of it.

* `WholeWithOneHelper`: `Spec => NeverHalfWritten`, what a comment says of the atomic write and the run
  `service_torn` refutes. `LiveIsKept`: a helper opens, empties and fills an inode that no file has, and a power
  failure keeps what was synced; it takes a second helper to write on into a file that was renamed meanwhile.
* `HandEditsAreSafeBetween`: `Spec /\ [][EditsBetween]_vars => HandEditLeftAlone`, what the docs say and the run
  `service_stale` refutes. `ReadInv`: as long as the administrator saves only between two commands, what a command has
  read is what the file still holds. With one helper it is thus the save between the read and the rename that
  gets overwritten, and nothing else.

The assumptions are those of the module: `ContentsAssumption`, `BoundsAssumption`, `HelpersAssumption`
(there are finitely many helpers) and `NoneAssumption`. What `disableInContent` keeps is worked out by its loop, a
recursive function of the line it has come to. `DisableSelects` proves that it keeps lines that are to be kept, and all
of them, for files of any length. The library's induction rules cannot be used here, so the argument is one of the least
counterexample: `AllPlaces` takes the first place at which a statement fails, from the well-foundedness of
the naturals, and `Gatherer` and `GatheredIsKept` use it in place of an induction. TLC compares the loop with
`SelectSeq` for every file of up to four lines (`DisablingAssumption` of `MCPamServiceEdit`).

### Enrolment and verification

`EnrollmentProofs` and `EnrollmentRefinement` prove, for any number of processes and commands, every
kill and failure, and every model, mode and recording, from `ProcsAssumption` (there are
finitely many processes) and `NoneAssumption` (`None` is no value of anything else). The first three
hold on one camera (`OneCamera`, an assumption of the theorems: with two of them the statements are
false, see below), the last two on any number:

* `CameraIsTheLock`: `Spec => []NoMixedTemplates`. The code has no lock; the proof shows what
  stands in for one. `Lock`: whoever records or saves has the camera, and so is alone (`OnlyOneStreams`).
  `Opened` and `Wrote`: a file open for writing holds just what its writer has written.
* `StatusAgrees`: `Spec => []StatusAgreesWithLogin`. `AgreeInv` adds what `meta.json` is at each step of
  a save and of a deletion while nothing was cut short.
* `EnrollmentImplementsRecognition`: `Spec => RecognitionSpec`. `RefInv` adds that every file is
  the beginning of one enrolment, and that what a verification has loaded is a whole one or nothing. Each
  action is then a step of `Recognition`, on the enrolment in force and the verdicts, or none.
* `DeletionIsTold`: `Spec => DeletedMeansGone`. `SilentInv`: a command that has not ended has not
  said anything yet, so that success is what `RmDir` says, which looks at the directory itself.
* `EnrollmentTyping`: `Spec => []TypeOK`. `TypeInv` adds what a process must know at its step.
  `InodeLeft`: there is one inode more than processes, each of which has one file open
  at most, so that a new file never takes over one that is still being written.

### The control application

`ControlGuiProofs` proves, for all cameras, files, services, sessions and bounds, from the named
assumptions of its modules:

* `PreviewIsYielded`: `Spec => []PreviewYields`; its `YieldInv` adds that only the Enrollment page's
  slots touch the preview, and which command is whose.
* `RowsAreTrue`: `Spec => []RowsTrue`. `RowInv` adds that only the PAM page's own helper edits a
  service file, so that a page at rest can only be made wrong by others, whom `stale` records.
* `NoQuestionIsLost`: `Spec => []NoConfirmationUnasked`. `AskedInv` says of the file, of what each helper has
  loaded and of what it was given to save that a question missing in it was dropped by somebody. It
  is kept because the defaults ask (`DefaultsAsk`): whatever lines are lost, `load` fills them in with a question. As
  long as two commands do not write at a time, a writer finds the file as it has left it, empty (`AloneInv`), so
  that nothing follows what it writes (`NothingBehind`). Where they do, the end of another text may
  follow, in which one question can be read as the other (`WrittenIsOk`); the theorem then says that somebody
  chose to do without one of them (`Chosen`).
* `DarkIsExplained`: `Spec => []DarkPreviewExplained`. `DarkInv`: what a slot waits for
  (`page.pending`) has a helper that will answer, and each way out of `startPreview` opens the camera or
  says why it did not.

`SettingsProofs` proves `CameraIsKept`: `Spec => []UntouchedCameraKept`, for every finite set of nodes
that may be plugged at any scan. `SelectionFinds` is the heart of it: where the wanted path is,
`selectCameraDevice` finds it in a mode that this camera has at this path, and where it is not, the entry it adds has it.
`KeptInv` carries that from refresh to refresh, through declined disclaimers and saves.

`CamerasAreGrouped` is about `listCameras` itself: whatever nodes are found, each bus is one camera of the
list and each camera one bus, in the order of their first nodes. The model numbers the buses by how many come before
(`Nth`), where the code appends to a list as it meets them; `Numbered` shows that this counts them from one up without a gap.

It goes on to the window as a whole, from `SessionsAssumption` (nodes have paths and list the sizes they
have; a configuration that is there is one that `load` can read):

* `GuiTyping`: `Spec => []TypeOK`. `TypeInv` adds, part by part, what a slot relies on. `FormInv`: the camera on
  show is one of the list, and its mode is the one that its streams make of the mode that was confirmed last.
  `FilesInv`: what a helper carries can be written. `StreamsInv`: a camera is open for who captures, and for one at
  a time. `PageInv`: the page waits exactly while its helper runs.
* `SavedIsOneStream`: `Spec => []SavedStreamIsOne`. The property looks at the file alone. `OffersInv` says of
  every camera in the form, of those that were added because they are not plugged too, that its streams are those
  of a node or of the file that the window was opened with. `SavedInv` follows such a stream through the form, what
  Save hands to `--write-config` (`SetSound`: all of a stream or nothing of it), what a helper has loaded and the
  file. `OneWriter` is why it is the same one all the way: as long as no two commands write, the file is
  empty when its writer writes, and the mode that an enrolment was given is still the one in the file.
* `RgbIsAcknowledged`: `Spec => []RgbChosenIsAcknowledged`, under `OrdinarySessions`, from the same
  `SavedInv` (`RgbSound`, `IrSafe`), whatever fails or is torn. `OrdinarySessions` says that the nodes of a camera come
  and go together (`WholeCameras`) and that a file that names a camera's colour node says mode "rgb"
  (`ModeIsTold`). Without the first, a camera whose infrared node is late is a camera without infrared for as
  long; without the second, `selectCameraDevice` takes the mode from the node that it finds. TLC evaluates both
  on the sessions of the runs (`InstancesAssumption` of `MCControlGui`).

### Only model-checked

Every safety property of a passing run is proved. The temporal ones (`AlwaysReturns`, `EveryCommandEnds`,
`CommandAnswered`) are only model-checked: liveness under fairness is beyond the prover, as is `ENABLED`. So are, by
their nature, the violations; for two of them (`service_torn`, `service_stale`) a theorem says what
it takes. No module uses RECURSIVE, which the provers could not look into.

## 5. Abstractions and what is not modelled

* For a login and for `Enrollment`, `config.conf` is rewritten in one step and read in one step.
  The code truncates it, writes it and does not check the outcome (enroll/main.cpp:353-358): those
  three steps are in `EnrollHelperRunner`. A write cut short ends between two lines there: a mode
  that is cut off is taken for the default like one that is missing, and what else is cut off (a path, a size, the gain)
  no property compares after a failure.
* Two helpers that write `config.conf` at a time leave the end of the longer text behind the other one, to the byte.
  `Tails` has what `load` makes of it: whole lines, or the last one cut behind `greeter_`, which is the only part of a
  line whose key `load` knows. The lengths of the texts are left open. Where the texts are cut short besides,
  the two are joined between lines. What follows counts for `Config::load`, which takes the last line with a
  key; a login (`findConfigValue`) takes the first, and so hears of it only after the next command has loaded and
  saved the file.
* Of `config.conf` the control application's models hold the keys that name the camera and its mode,
  the gain, and the two confirmation modes. The threshold, the timeouts and the friendly name go
  through the settings page unchanged and are left out. Frame rates are too: a size stands for its stream.
* The modal dialogs (risk, enabling, instructions, results) are part of the step that opens them: they
  lock the window, and the helpers' steps in between commute with the answer, for each slot's helper
  reads the file again after it.
* Minimising and closing the window are left out: hiding and showing the page again by a tab
  switch has the same effect on the preview.
* Files are read in one go; `unlink` of an existing file succeeds; a rename is durable once it
  is done; data that is not synced survives a power failure as any beginning of itself.
* `NoMixedTemplates` and `RecognitionSpec` are about one value of `device_path`. With two
  cameras configured one after the other, two captures can save at the same time, and nothing
  but luck keeps their records apart; the repository makes no statement about that case.
* `StatusAgreesWithLogin` leaves out commands that were killed or failed and overlapping saves
  and deletions; those do leave one of the two files without the other, which `--status`, reading
  only `meta.json`, and a login, reading only `embedding.bin`, judge differently.
* `NothingLeftBehind` is checked and proved without interrupted waits: a host that handles signals
  without `SA_RESTART` can leave a zombie behind at pam_facial.cpp:278 and a dialog on the screen at 130.
* `TerminalGivenBack` is about hosts that held the terminal. A background host takes the
  foreground and gives it back to the group it found: the condition at pam_facial.cpp:241 asks
  whether that group could be read, where the comment above it (238-240) speaks of the caller's own.
* Durations are an expiry that may come at any moment after arming. Images, vectors and
  distances are outcomes. Logging, wording, layout and argument parsing are left out.
* `NoConfirmationUnasked` tells the two questions apart only as long as no two pages write the configuration at
  the same time ("race" in `trouble`). When they do: Settings saves that the greeter asks nothing while an
  enrolment with a shorter path saves its gain; both have emptied the file, the longer text is written first, and
  its last line is cut behind `greeter_`. `load` then reads `confirmation_mode = none`, which nobody chose, and the
  next command saves it. What holds even then is that a question is only missing where somebody dropped one.
* `PreviewYields`, `SavedStreamIsOne` and `RgbChosenIsAcknowledged` leave out the ways in which they do
  fail: the page shown anew while its helper runs (`reshown`, the run `gui_preview`), and two pages that write
  the configuration at the same time ("race" in `trouble`), after which the stream of one camera can stand with
  the mode of another. With three commands that other mode can be an RGB nobody was asked about: Settings saves
  the RGB of a webcam that has nothing else; a click on Enroll takes this mode along and waits for `pkexec`; Settings
  changes to a camera with infrared and saves that; the enrolment's helper loads the new file and writes the
  mode it was given. `SavedStreamIsOne` leaves out failures too ("fault"): a write cut short keeps some of a
  stream's keys and loses the others.
* Some things the model has on record that no property forbids, as the repository says nothing of
  them: a helper that ends while its page is hidden starts that page's preview; an enrolment that fails
  has already saved its mode and gain; saving and deleting leave the preview running; the
  settings page saves what it loaded when the window was made, over what others changed since; a click on
  the PAM page goes by the file and not by the button it is on; and the slider, which is cut off and not
  rounded when it is read back (`ReadsLow`), drifts.
* `PasswordKeepsWorking` leaves out removing a line that was made `required` by hand, which does widen
  what a login accepts.
* Not modelled: the logger, the test tools, build and packaging; of the drivers' buffers, the
  models' floating-point work and the parsing of single lines only the outcomes. The reasons are in
  `PROJECT.json`.

## 6. Plan

Done, in this order: `CameraConsent`, `PamFacial` and its proofs, with the refinement of `CameraConsent`; `PamServiceConfig`,
`PamServiceFile`, `PamServiceEdit`; `FileData`, `EmbeddingFormat`, `Recognition`, `Enrollment`; the
control application with `CameraEnumerator`, `CameraSelection` and `ConfigFile`, and its proofs; what libpam
makes of an edit (`Accepts`, `PasswordKeepsWorking`); the proofs about service files and enrolment,
with the refinements of `PamServiceFile` and `Recognition`, deletion and typing; the preview and the camera that is kept;
the typing of the control application, what it saves, and what the refuted statements about service files take to be true.

Next, modules:

1. The buffers of `V4L2Camera`: dequeued, copied, requeued, lost.
2. The parsers of `PamConfirmationPrompt` and their clamping.

Next, theorems:

1. What the remaining violations take: the terminal that the child reads, and the preview of a page that is not
   shown anew.
2. The lemmas that the buffers of `V4L2Camera` will need.
