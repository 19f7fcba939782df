---------------------------- MODULE MCControlGui ----------------------------
(***************************************************************************)
(* Instances of ControlGui for TLC: the cameras and the files.               *)
(***************************************************************************)
EXTENDS ControlGui

Discrete(size) == [discrete |-> TRUE, size |-> size]
Node(index, bus, path, grey, yuyv) ==
    [index |-> index, bus |-> bus, path |-> path, capture |-> TRUE,
     sizes |-> [f \in Formats |-> IF f = "GREY" THEN grey ELSE yuyv]]

\* One camera with a node for each stream, and its metadata node.
Infrared == Node(0, "usb1", "ir-node", <<Discrete("340x340")>>, <<>>)
Colour   == Node(2, "usb1", "rgb-node", <<>>, <<Discrete("1920x1080"), Discrete(Vga)>>)
Metadata == [Node(3, "usb1", "meta-node", <<>>, <<>>) EXCEPT !.capture = FALSE]
Logi     == {Infrared, Colour, Metadata}

\* A camera whose one node gives both formats, of any size up to one.
Both     == {Node(4, "usb2", "both-node", <<[discrete |-> FALSE, size |-> "1280x720"]>>,
                  <<Discrete(Vga)>>)}

\* A plain webcam.
Webcam   == {Node(6, "usb3", "web-node", <<>>, <<Discrete(Vga)>>)}

FileOf(path, format, mode, size, confirm) ==
    serialize([path |-> path, format |-> format, mode |-> mode, size |-> size, gain |-> 100,
               confirm |-> confirm, greeter |-> "text"])

IrFile  == FileOf("ir-node", "GREY", "ir", "340x340", "none")
RgbFile == FileOf("rgb-node", "YUYV", "rgb", Vga, "gui")

Session(tabs, file, scans) == [tabs |-> tabs, conf |-> file, scans |-> scans]
Cameras  == {"enrollment", "settings"}
Login    == {"enrollment", "pam"}
Typical  == {Session(Login, IrFile, {Logi}), Session(Cameras, IrFile, {Logi}),
             Session(Cameras, None, {Both}),
             Session({"settings"}, None, {Webcam, Logi \cup Webcam}),
             Session({"settings"}, RgbFile, {Logi, Both, Logi \cup Both})}
FreshWebcam == {Session({"settings"}, None, {Webcam})}
Ordinary    == {Session(Cameras, IrFile, {Logi})}

\* What the proof about RGB takes of a session holds of these.
ASSUME InstancesAssumption ==
    \A s \in Typical \cup FreshWebcam \cup Ordinary : WholeCameras(s) /\ ModeIsTold(s)

Torn == {5}
Prompting == {[confirm |-> "gui", greeter |-> "none"]}
=============================================================================
