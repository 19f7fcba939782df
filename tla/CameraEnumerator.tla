-------------------------- MODULE CameraEnumerator --------------------------
(***************************************************************************)
(* listCameras: the video nodes a scan of /dev finds, as the physical       *)
(* cameras the Settings page offers.                                        *)
(*                                                                         *)
(* A node is [index, bus, path, capture, sizes]: its number, its bus_info,  *)
(* the path it is saved under (by-id if udev made one), whether it captures *)
(* and streams, and the frame sizes its driver enumerates for each format,  *)
(* in order.  A size that is not discrete stands for its maximum.           *)
(***************************************************************************)
EXTENDS Naturals, Sequences, FiniteSets

CONSTANT None     \* std::nullopt

Formats == {"GREY", "YUYV"}
Vga     == "640x480"

\* Mutant of pickFrameSize: the historical default, whatever the driver offers.
AlwaysVga(sizes) == IF sizes = <<>> THEN None ELSE Vga

\* 640x480 or the first range, whichever comes first; else the first size.
pickFrameSize(sizes) ==
    LET settles == {i \in DOMAIN sizes : ~sizes[i].discrete \/ sizes[i].size = Vga} IN
    IF sizes = <<>> THEN None
    ELSE IF settles = {} THEN sizes[1].size
    ELSE sizes[CHOOSE i \in settles : \A j \in settles : i <= j].size

\* What the node gives in a format, if the application can use it.
StreamOption(node, format) ==
    LET size == pickFrameSize(node.sizes[format]) IN
    IF size = None THEN None
    ELSE [path |-> node.path, format |-> format, size |-> size]

\* The stream of the first of these nodes that has one in the format.
FirstStream(nodes, format) ==
    LET able == {n \in nodes : StreamOption(n, format) # None} IN
    IF able = {} THEN None
    ELSE StreamOption(CHOOSE n \in able : \A m \in able : n.index <= m.index, format)

\* The nodes that capture something usable, grouped by bus_info into cameras, in the
\* order of each one's first node.
listCameras(nodes) ==
    LET found   == {n \in nodes : n.capture /\ \E f \in Formats : StreamOption(n, f) # None}
        On(bus) == {n \in found : n.bus = bus}
        Before(b, c) == \E n \in On(b) : \A m \in On(c) : n.index < m.index
        buses   == {n.bus : n \in found}
        Nth(k)  == CHOOSE b \in buses : Cardinality({c \in buses : Before(c, b)}) = k - 1
    IN  [k \in 1..Cardinality(buses) |->
            [ir |-> FirstStream(On(Nth(k)), "GREY"), rgb |-> FirstStream(On(Nth(k)), "YUYV")]]
=============================================================================
