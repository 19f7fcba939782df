-------------------------- MODULE CameraSelection --------------------------
(***************************************************************************)
(* CameraSelection.cpp: which of the scanned cameras the Settings page       *)
(* shows, and in which mode, for a configured device.  A camera is           *)
(* [ir, rgb], each a stream option or None.                                  *)
(***************************************************************************)
EXTENDS CameraEnumerator

NoPath   == ""
CamModes == {"ir", "rgb"}
NoCamera == [ir |-> None, rgb |-> None]     \* "No cameras detected"

ModesAt(camera, path) == {m \in CamModes : camera[m] # None /\ camera[m].path = path}

\* The "(not detected)" entry that stands for a configured camera.
NotDetected(want) ==
    [NoCamera EXCEPT ![want.mode] =
        [path |-> want.path, format |-> want.format, size |-> want.size]]

\* Mutant of selectCameraDevice: a configured camera that is not there is given up.
FirstDetected(scanned, want) ==
    LET hits == {i \in DOMAIN scanned : ModesAt(scanned[i], want.path) # {}} IN
    [devices |-> IF scanned = <<>> THEN <<NoCamera>> ELSE scanned,
     index   |-> IF hits = {} THEN 1 ELSE CHOOSE i \in hits : TRUE,
     mode    |-> want.mode]

\* The first camera one of whose streams has the configured path; a node that is both
\* streams goes by the pixel format.
selectCameraDevice(scanned, want) ==
    LET hits == {i \in DOMAIN scanned : ModesAt(scanned[i], want.path) # {}}
        hit  == CHOOSE i \in hits : \A j \in hits : i <= j
        modes == ModesAt(scanned[hit], want.path)
    IN  IF want.path = NoPath
          THEN [devices |-> IF scanned = <<>> THEN <<NoCamera>> ELSE scanned,
                index |-> 1, mode |-> want.mode]
        ELSE IF hits = {}
          THEN [devices |-> Append(scanned, NotDetected(want)),
                index |-> Len(scanned) + 1, mode |-> want.mode]
        ELSE [devices |-> scanned, index |-> hit,
              mode |-> IF modes = CamModes
                         THEN IF want.format = "YUYV" THEN "rgb" ELSE "ir"
                         ELSE CHOOSE m \in modes : TRUE]

Offered(camera) == {m \in CamModes : camera[m] # None}

NoMode == ""

selectCameraMode(camera, desired) ==
    IF desired \in Offered(camera) THEN desired
    ELSE IF "ir" \in Offered(camera) THEN "ir"
    ELSE IF "rgb" \in Offered(camera) THEN "rgb" ELSE NoMode

resolveModeForDeviceChange(camera, lastConfirmed) ==
    IF lastConfirmed = "ir" /\ camera.ir = None THEN "rgb"
    ELSE IF lastConfirmed = "rgb" /\ camera.rgb = None THEN "ir"
    ELSE lastConfirmed
=============================================================================
