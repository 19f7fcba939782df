--------------------------- MODULE SettingsProofs ---------------------------
(***************************************************************************)
(* The Settings page keeps the camera of a user who did not choose another; *)
(* the types of the whole window; and what Save and the helpers leave in     *)
(* config.conf: one stream, and no RGB that nobody was asked about.  For     *)
(* every set of nodes that may be plugged, and any file.                     *)
(***************************************************************************)
EXTENDS ControlGuiProofs, FiniteSetTheorems, SequenceTheorems, WellFoundedInduction

-----------------------------------------------------------------------------
(* What listCameras gives                                                    *)

\* A stream, or none.
IsStream(x) == x = None \/ x = [path |-> x.path, format |-> x.format, size |-> x.size]

IsCamera(c) == c = [ir |-> c.ir, rgb |-> c.rgb] /\ IsStream(c.ir) /\ IsStream(c.rgb)

LEMMA FirstIsStream ==
    ASSUME NEW nodes, NEW format
    PROVE  IsStream(FirstStream(nodes, format))
<1>1. ASSUME NEW n PROVE IsStream(StreamOption(n, format))
  <2> DEFINE size == pickFrameSize(n.sizes[format])
  <2>1. CASE size = None
    BY <2>1 DEF StreamOption, IsStream
  <2>2. CASE size # None
    <3>1. StreamOption(n, format) = [path |-> n.path, format |-> format, size |-> size]
      BY <2>2 DEF StreamOption
    <3> HIDE DEF size
    <3> QED BY <3>1 DEF IsStream
  <2> QED BY <2>1, <2>2
<1> DEFINE able  == {n \in nodes : StreamOption(n, format) # None}
           first == CHOOSE n \in able : \A m \in able : n.index <= m.index
<1>2. FirstStream(nodes, format) = IF able = {} THEN None ELSE StreamOption(first, format)
  BY DEF FirstStream
<1>3. IsStream(StreamOption(first, format)) /\ IsStream(None)
  BY <1>1 DEF IsStream
<1> HIDE DEF able, first
<1> QED BY <1>2, <1>3

\* A finite set of nodes gives a sequence of cameras.
LEMMA ScanIsSequence ==
    ASSUME NEW nodes, IsFiniteSet(nodes)
    PROVE  \E n \in Nat : /\ DOMAIN listCameras(nodes) = 1..n
                          /\ listCameras(nodes) = [k \in 1..n |-> listCameras(nodes)[k]]
                          /\ \A k \in 1..n : IsCamera(listCameras(nodes)[k])
<1> DEFINE found   == {n \in nodes : n.capture /\ \E f \in Formats : StreamOption(n, f) # None}
           On(bus) == {n \in found : n.bus = bus}
           Before(b, c) == \E n \in On(b) : \A m \in On(c) : n.index < m.index
           buses   == {n.bus : n \in found}
           Nth(k)  == CHOOSE b \in buses : Cardinality({c \in buses : Before(c, b)}) = k - 1
<1>1. Cardinality(buses) \in Nat
  <2>1. IsFiniteSet(found)
    BY FS_Subset
  <2>2. [n \in found |-> n.bus] \in Surjection(found, buses)
    BY DEF Surjection
  <2> QED BY <2>1, <2>2, FS_Surjection, FS_CardinalityType
<1>2. listCameras(nodes) = [k \in 1..Cardinality(buses) |->
          [ir |-> FirstStream(On(Nth(k)), "GREY"), rgb |-> FirstStream(On(Nth(k)), "YUYV")]]
  BY DEF listCameras
<1>3. ASSUME NEW k \in 1..Cardinality(buses) PROVE IsCamera(listCameras(nodes)[k])
  <2> DEFINE ir == FirstStream(On(Nth(k)), "GREY")
             rgb == FirstStream(On(Nth(k)), "YUYV")
  <2>1. IsStream(ir) /\ IsStream(rgb)
    BY FirstIsStream
  <2>2. listCameras(nodes)[k] = [ir |-> ir, rgb |-> rgb]
    BY <1>2
  <2> HIDE DEF ir, rgb
  <2> QED BY <2>1, <2>2 DEF IsCamera
<1> DEFINE card == Cardinality(buses)
<1>4. DOMAIN listCameras(nodes) = 1..card
      /\ listCameras(nodes) = [k \in 1..card |-> listCameras(nodes)[k]]
  BY <1>2
<1> HIDE DEF card
<1>5. card \in Nat
  BY <1>1 DEF card
<1>6. \A k \in 1..card : IsCamera(listCameras(nodes)[k])
  BY <1>3 DEF card
<1> QED BY <1>4, <1>5, <1>6

\* The first of a non-empty set of places.
LEMMA Least ==
    ASSUME NEW S \in SUBSET Nat, S # {}
    PROVE  \E m \in S : \A k \in S : m <= k
<1> DEFINE R == {p \in Nat \X Nat : p[1] < p[2]}
<1>1. R = OpToRel(<, Nat)
  BY DEF OpToRel
<1>2. IsWellFoundedOn(R, Nat)
  BY <1>1, NatLessThanWellFounded
<1>3. PICK m \in S : \A k \in S : ~(<<k, m>> \in R)
  BY <1>2, WFMin
<1>4. ASSUME NEW k \in S PROVE m <= k
  <2>1. k \in Nat /\ m \in Nat
    OBVIOUS
  <2>2. <<k, m>> \in Nat \X Nat /\ <<k, m>>[1] = k /\ <<k, m>>[2] = m
    BY <2>1
  <2>3. ~(k < m)
    BY <1>3, <2>2
  <2> QED BY <2>1, <2>3
<1> QED BY <1>4

\* The size is one that is enumerated.
LEMMA PickedSize ==
    ASSUME NEW S, NEW sizes \in Seq(S), sizes # <<>>
    PROVE  \E i \in DOMAIN sizes : pickFrameSize(sizes) = sizes[i].size
<1> DEFINE settles == {i \in DOMAIN sizes : ~sizes[i].discrete \/ sizes[i].size = Vga}
           first   == CHOOSE i \in settles : \A j \in settles : i <= j
<1>1. CASE settles = {}
  BY <1>1 DEF pickFrameSize
<1>2. CASE settles # {}
  <2>1. pickFrameSize(sizes) = sizes[first].size
    BY <1>2 DEF pickFrameSize
  <2>2. settles \in SUBSET Nat
    OBVIOUS
  <2>3. settles \subseteq DOMAIN sizes
    OBVIOUS
  <2> HIDE DEF settles
  <2>4. \E i \in settles : \A j \in settles : i <= j
    BY <1>2, <2>2, Least
  <2>5. first \in settles
    BY <2>4
  <2> QED BY <2>1, <2>3, <2>5
<1> QED BY <1>1, <1>2

\* Nodes that a scan may find.
AreNodes(nodes) ==
    /\ IsFiniteSet(nodes)
    /\ \A n \in nodes :
         /\ n.path \notin {None, NoPath} /\ n.index \in Nat
         /\ \A f \in Formats : n.sizes[f] \in Seq([discrete : BOOLEAN, size : STRING])

\* The stream of a camera is what one of the nodes gives, in a size that it enumerates.
Gives(nodes, stream, format) ==
    \E n \in nodes : \E i \in DOMAIN n.sizes[format] :
        /\ stream.path = n.path /\ stream.format = format
        /\ stream.size = n.sizes[format][i].size

LEMMA FirstIsGiven ==
    ASSUME NEW nodes, AreNodes(nodes), NEW some \in SUBSET nodes, NEW format \in Formats,
           FirstStream(some, format) # None
    PROVE  Gives(nodes, FirstStream(some, format), format)
<1> DEFINE able    == {n \in some : StreamOption(n, format) # None}
           indices == {n.index : n \in able}
           first   == CHOOSE n \in able : \A m \in able : n.index <= m.index
<1>1. able # {} /\ FirstStream(some, format) = StreamOption(first, format)
  BY DEF FirstStream
<1>2. able \subseteq nodes /\ \A n \in able : StreamOption(n, format) # None
  OBVIOUS
<1> HIDE DEF able
<1>3. first \in able
  <2>1. indices \in SUBSET Nat /\ indices # {}
    BY <1>1, <1>2 DEF AreNodes
  <2>2. PICK least \in indices : \A k \in indices : least <= k
    <3> HIDE DEF indices
    <3> QED BY <2>1, Least
  <2>3. \E n \in able : \A m \in able : n.index <= m.index
    BY <2>2
  <2> QED BY <2>3
<1> HIDE DEF first
<1> DEFINE sizes == first.sizes[format]
<1>4. first \in nodes /\ sizes \in Seq([discrete : BOOLEAN, size : STRING])
  BY <1>2, <1>3 DEF AreNodes
<1>5. /\ pickFrameSize(sizes) # None
      /\ StreamOption(first, format) = [path |-> first.path, format |-> format,
                                        size |-> pickFrameSize(sizes)]
  BY <1>2, <1>3 DEF StreamOption
<1>6. sizes # <<>>
  BY <1>5 DEF pickFrameSize
<1>7. PICK i \in DOMAIN sizes : pickFrameSize(sizes) = sizes[i].size
  <2> HIDE DEF sizes
  <2> QED BY <1>4, <1>6, PickedSize
<1> QED BY <1>1, <1>4, <1>5, <1>7 DEF Gives

LEMMA CameraIsGiven ==
    ASSUME NEW nodes, AreNodes(nodes), NEW k \in DOMAIN listCameras(nodes)
    PROVE  LET camera == listCameras(nodes)[k] IN
           /\ camera.ir # None  => Gives(nodes, camera.ir, "GREY")
           /\ camera.rgb # None => Gives(nodes, camera.rgb, "YUYV")
<1> DEFINE found   == {n \in nodes : n.capture /\ \E f \in Formats : StreamOption(n, f) # None}
           On(bus) == {n \in found : n.bus = bus}
           Before(b, c) == \E n \in On(b) : \A m \in On(c) : n.index < m.index
           buses   == {n.bus : n \in found}
           Nth(i)  == CHOOSE b \in buses : Cardinality({c \in buses : Before(c, b)}) = i - 1
           some    == On(Nth(k))
<1>1. listCameras(nodes) = [i \in 1..Cardinality(buses) |->
          [ir |-> FirstStream(On(Nth(i)), "GREY"), rgb |-> FirstStream(On(Nth(i)), "YUYV")]]
  BY DEF listCameras
<1>2. listCameras(nodes)[k] = [ir |-> FirstStream(some, "GREY"), rgb |-> FirstStream(some, "YUYV")]
  BY <1>1
<1>3. some \in SUBSET nodes
  OBVIOUS
<1> HIDE DEF some
<1>4. {"GREY", "YUYV"} \subseteq Formats
  BY DEF Formats
<1> QED BY <1>2, <1>3, <1>4, FirstIsGiven

-----------------------------------------------------------------------------
(* How listCameras groups                                                    *)

\* How many come before each of B, by L.
Ranks(B, L) == [b \in B |-> Cardinality({c \in B : L[c] < L[b]})]

\* This numbers a finite set.
LEMMA Numbered ==
    ASSUME NEW B, IsFiniteSet(B), NEW L \in Injection(B, Nat)
    PROVE  /\ Ranks(B, L) \in Bijection(B, 0..(Cardinality(B) - 1))
           /\ \A b, c \in B : L[b] < L[c] <=> Ranks(B, L)[b] < Ranks(B, L)[c]
<1> DEFINE Below(b) == {c \in B : L[c] < L[b]}
           card == Cardinality(B)
           rank == Ranks(B, L)
<1>0. L \in [B -> Nat] /\ \A b, c \in B : L[b] = L[c] => b = c
  BY DEF Injection, IsInjective
<1>1. card \in Nat
  BY FS_CardinalityType
<1>2. \A b \in B : IsFiniteSet(Below(b)) /\ Cardinality(Below(b)) \in Nat
  BY FS_Subset, FS_CardinalityType
<1>3. ASSUME NEW b \in B PROVE Cardinality(Below(b)) < card
  <2>1. Below(b) \in SUBSET B /\ b \notin Below(b)
    BY <1>0
  <2> HIDE DEF Below
  <2>2. Cardinality(Below(b)) <= card /\ Cardinality(Below(b)) # card
    BY <2>1, FS_Subset
  <2> QED BY <1>1, <1>2, <2>2
<1>4. ASSUME NEW b \in B, NEW c \in B, L[b] < L[c]
      PROVE  Cardinality(Below(b)) < Cardinality(Below(c))
  <2>1. Below(b) \in SUBSET Below(c) /\ b \in Below(c) /\ b \notin Below(b)
    BY <1>0, <1>4
  <2> HIDE DEF Below
  <2>2. /\ Cardinality(Below(b)) <= Cardinality(Below(c))
        /\ Cardinality(Below(b)) # Cardinality(Below(c))
    BY <1>2, <2>1, FS_Subset
  <2> QED BY <1>2, <2>2
<1>5. rank = [b \in B |-> rank[b]] /\ \A b \in B : rank[b] = Cardinality(Below(b))
  BY DEF Ranks
<1> HIDE DEF Below, card, rank
<1>6. rank \in [B -> 0..(card - 1)]
  <2>1. \A b \in B : Cardinality(Below(b)) \in 0..(card - 1)
    BY <1>1, <1>2, <1>3
  <2> QED BY <1>5, <2>1
<1>7. ASSUME NEW b \in B, NEW c \in B PROVE L[b] < L[c] <=> rank[b] < rank[c]
  <2>1. L[b] \in Nat /\ L[c] \in Nat /\ rank[b] \in Nat /\ rank[c] \in Nat
    BY <1>0, <1>2, <1>5
  <2>2. L[b] < L[c] => rank[b] < rank[c]
    BY <1>4, <1>5
  <2>3. L[c] < L[b] => rank[c] < rank[b]
    BY <1>4, <1>5
  <2>4. L[b] = L[c] => rank[b] = rank[c]
    BY <1>0
  <2> QED BY <2>1, <2>2, <2>3, <2>4
<1>8. rank \in Injection(B, 0..(card - 1))
  <2>1. ASSUME NEW b \in B, NEW c \in B, rank[b] = rank[c] PROVE b = c
    <3>1. L[b] \in Nat /\ L[c] \in Nat /\ rank[b] \in Nat /\ rank[c] \in Nat
      BY <1>0, <1>2, <1>5
    <3>2. ~(L[b] < L[c]) /\ ~(L[c] < L[b])
      BY <1>7, <2>1, <3>1
    <3> QED BY <1>0, <3>1, <3>2
  <2> QED BY <1>6, <2>1 DEF Injection, IsInjective
<1>9. IsFiniteSet(0..(card - 1)) /\ Cardinality(0..(card - 1)) = card
  <2>1. card - 1 \in Int /\ 0 \in Int
    BY <1>1
  <2>2. Cardinality(0..(card - 1)) = IF 0 > card - 1 THEN 0 ELSE card - 1 - 0 + 1
    BY <2>1, FS_Interval
  <2>3. (IF 0 > card - 1 THEN 0 ELSE card - 1 - 0 + 1) = card
    BY <1>1
  <2> QED BY <2>1, <2>2, <2>3, FS_Interval
<1>10. rank \in Surjection(B, 0..(card - 1))
  BY <1>8, <1>9, FS_Injection DEF card
<1> QED BY <1>7, <1>8, <1>10 DEF Bijection, card, rank

\* The nodes that the application can use, those of them on one bus, and their numbers.
Usable(nodes)        == {n \in nodes : n.capture /\ \E f \in Formats : StreamOption(n, f) # None}
OnBus(nodes, bus)    == {n \in Usable(nodes) : n.bus = bus}
Numbers(nodes, bus)  == {n.index : n \in OnBus(nodes, bus)}
FirstOn(nodes, bus)  == CHOOSE i \in Numbers(nodes, bus) : \A k \in Numbers(nodes, bus) : i <= k

LEMMA FirstIsOne ==
    ASSUME NEW nodes, AreNodes(nodes), NEW bus, OnBus(nodes, bus) # {}
    PROVE  /\ FirstOn(nodes, bus) \in Nat
           /\ \E n \in OnBus(nodes, bus) : n.index = FirstOn(nodes, bus)
           /\ \A n \in OnBus(nodes, bus) : FirstOn(nodes, bus) <= n.index
<1>1. Numbers(nodes, bus) \in SUBSET Nat /\ Numbers(nodes, bus) # {}
  BY DEF Numbers, OnBus, Usable, AreNodes
<1>2. \E i \in Numbers(nodes, bus) : \A k \in Numbers(nodes, bus) : i <= k
  BY <1>1, Least
<1>3. /\ FirstOn(nodes, bus) \in Numbers(nodes, bus)
      /\ \A k \in Numbers(nodes, bus) : FirstOn(nodes, bus) <= k
  BY <1>2 DEF FirstOn
<1> QED BY <1>1, <1>3 DEF Numbers

\* Whatever nodes a scan finds: each bus with a node that can be used is one camera of the
\* list and each camera is one bus, in the order of their first nodes; and its streams are
\* those of the first node on that bus with the format (listCameras).
THEOREM CamerasAreGrouped ==
    ASSUME NEW nodes, AreNodes(nodes), \A m, n \in nodes : m.index = n.index => m = n,
           NEW buses, buses = {n.bus : n \in Usable(nodes)}
    PROVE  \E place \in Bijection(buses, DOMAIN listCameras(nodes)) :
             /\ \A b \in buses :
                  listCameras(nodes)[place[b]] =
                    [ir  |-> FirstStream(OnBus(nodes, b), "GREY"),
                     rgb |-> FirstStream(OnBus(nodes, b), "YUYV")]
             /\ \A b, c \in buses :
                  place[b] < place[c] <=> FirstOn(nodes, b) < FirstOn(nodes, c)
<1> DEFINE On(bus) == OnBus(nodes, bus)
           Before(b, c) == \E n \in On(b) : \A m \in On(c) : n.index < m.index
           Earlier(b) == {c \in buses : Before(c, b)}
           Nth(k)  == CHOOSE b \in buses : Cardinality(Earlier(b)) = k - 1
           card == Cardinality(buses)
           L    == [b \in buses |-> FirstOn(nodes, b)]
           rank == Ranks(buses, L)
           place == [b \in buses |-> rank[b] + 1]
<1>1. IsFiniteSet(buses) /\ card \in Nat
  <2>1. IsFiniteSet(Usable(nodes))
    BY FS_Subset DEF Usable, AreNodes
  <2>2. [n \in Usable(nodes) |-> n.bus] \in Surjection(Usable(nodes), buses)
    BY DEF Surjection
  <2> QED BY <2>1, <2>2, FS_Surjection, FS_CardinalityType
<1>2. listCameras(nodes) = [k \in 1..card |->
          [ir |-> FirstStream(On(Nth(k)), "GREY"), rgb |-> FirstStream(On(Nth(k)), "YUYV")]]
  BY DEF listCameras, OnBus, Usable
<1>3. \A b \in buses : On(b) # {}
  BY DEF OnBus
<1>4. ASSUME NEW b \in buses
      PROVE  /\ L[b] \in Nat /\ \E n \in On(b) : n.index = L[b]
             /\ \A n \in On(b) : L[b] <= n.index /\ n.index \in Nat /\ n.bus = b /\ n \in nodes
  <2>1. L[b] = FirstOn(nodes, b)
    OBVIOUS
  <2>2. \A n \in On(b) : n.index \in Nat /\ n.bus = b /\ n \in nodes
    BY DEF OnBus, Usable, AreNodes
  <2> QED BY <1>3, <2>1, <2>2, FirstIsOne
<1> HIDE DEF On, L
<1>5. \A b, c \in buses : L[b] = L[c] => b = c
  <2> SUFFICES ASSUME NEW b \in buses, NEW c \in buses, L[b] = L[c] PROVE b = c
    OBVIOUS
  <2>1. PICK m \in On(b) : m.index = L[b] /\ m.bus = b /\ m \in nodes
    BY <1>4
  <2>2. PICK n \in On(c) : n.index = L[c] /\ n.bus = c /\ n \in nodes
    BY <1>4
  <2> QED BY <2>1, <2>2
<1>6. \A b, c \in buses : Before(b, c) <=> L[b] < L[c]
  <2> SUFFICES ASSUME NEW b \in buses, NEW c \in buses PROVE Before(b, c) <=> L[b] < L[c]
    OBVIOUS
  <2>1. ASSUME Before(b, c) PROVE L[b] < L[c]
    <3>1. PICK n \in On(b) : \A m \in On(c) : n.index < m.index
      BY <2>1
    <3>2. PICK m \in On(c) : m.index = L[c]
      BY <1>4
    <3>3. L[b] <= n.index /\ n.index < L[c] /\ n.index \in Nat
      BY <1>4, <3>1, <3>2
    <3> QED BY <1>4, <3>3
  <2>2. ASSUME L[b] < L[c] PROVE Before(b, c)
    <3>1. PICK n \in On(b) : n.index = L[b]
      BY <1>4
    <3>2. ASSUME NEW m \in On(c) PROVE n.index < m.index
      <4>1. L[c] <= m.index /\ m.index \in Nat /\ L[b] \in Nat /\ L[c] \in Nat
        BY <1>4
      <4> QED BY <2>2, <3>1, <4>1
    <3> QED BY <3>2
  <2> QED BY <2>1, <2>2
<1>7. L \in Injection(buses, Nat)
  <2>1. L = [b \in buses |-> L[b]]
    BY DEF L
  <2> QED BY <1>4, <1>5, <2>1 DEF Injection, IsInjective
<1>8. /\ rank \in Bijection(buses, 0..(card - 1))
      /\ \A b, c \in buses : L[b] < L[c] <=> rank[b] < rank[c]
  BY <1>1, <1>7, Numbered
<1>9. \A b \in buses : rank[b] = Cardinality(Earlier(b))
  <2> SUFFICES ASSUME NEW b \in buses PROVE rank[b] = Cardinality(Earlier(b))
    OBVIOUS
  <2>1. Earlier(b) = {c \in buses : L[c] < L[b]}
    <3> HIDE DEF Before
    <3> QED BY <1>6
  <2> HIDE DEF Earlier
  <2> QED BY <2>1 DEF Ranks
<1> HIDE DEF rank, Earlier, card
<1>10. \A b \in buses : rank[b] \in Nat /\ rank[b] <= card - 1 /\ place[b] = rank[b] + 1
  <2>1. \A b \in buses : rank[b] \in 0..(card - 1)
    BY <1>8 DEF Bijection, Injection
  <2> QED BY <1>1, <2>1
<1>11. place = [b \in buses |-> place[b]]
  OBVIOUS
<1> HIDE DEF place
<1>12. \A b \in buses : Nth(place[b]) = b
  <2> SUFFICES ASSUME NEW b \in buses PROVE Nth(place[b]) = b
    OBVIOUS
  <2>1. place[b] - 1 = rank[b]
    BY <1>1, <1>10
  <2>2. \A c \in buses : Cardinality(Earlier(c)) = place[b] - 1 <=> c = b
    <3>1. \A c \in buses : rank[c] = rank[b] => c = b
      BY <1>8 DEF Bijection, Injection, IsInjective
    <3> QED BY <1>9, <2>1, <3>1
  <2> QED BY <2>2
<1>13. DOMAIN listCameras(nodes) = 1..card
  BY <1>2
<1>14. place \in Bijection(buses, 1..card)
  <2>1. \A b \in buses : place[b] \in 1..card
    BY <1>1, <1>10
  <2>2. \A b, c \in buses : place[b] = place[c] => b = c
    <3>1. \A b, c \in buses : rank[b] = rank[c] => b = c
      BY <1>8 DEF Bijection, Injection, IsInjective
    <3> QED BY <1>1, <1>10, <3>1
  <2>3. \A k \in 1..card : \E b \in buses : place[b] = k
    <3> SUFFICES ASSUME NEW k \in 1..card PROVE \E b \in buses : place[b] = k
      OBVIOUS
    <3>1. k - 1 \in 0..(card - 1) /\ (k - 1) + 1 = k
      BY <1>1
    <3>2. PICK b \in buses : rank[b] = k - 1
      BY <1>8, <3>1 DEF Bijection, Surjection
    <3> QED BY <1>10, <3>1, <3>2
  <2> QED BY <1>11, <2>1, <2>2, <2>3 DEF Bijection, Injection, Surjection, IsInjective
<1>15. \A b \in buses : listCameras(nodes)[place[b]] =
                          [ir  |-> FirstStream(OnBus(nodes, b), "GREY"),
                           rgb |-> FirstStream(OnBus(nodes, b), "YUYV")]
  <2> SUFFICES ASSUME NEW b \in buses
               PROVE  listCameras(nodes)[place[b]] =
                        [ir |-> FirstStream(On(b), "GREY"), rgb |-> FirstStream(On(b), "YUYV")]
    BY DEF On
  <2>1. place[b] \in 1..card /\ Nth(place[b]) = b
    BY <1>12, <1>14 DEF Bijection, Injection
  <2> HIDE DEF Nth
  <2> QED BY <1>2, <2>1
<1>16. \A b, c \in buses : place[b] < place[c] <=> FirstOn(nodes, b) < FirstOn(nodes, c)
  <2> SUFFICES ASSUME NEW b \in buses, NEW c \in buses
               PROVE  place[b] < place[c] <=> L[b] < L[c]
    BY DEF L
  <2>1. /\ rank[b] \in Nat /\ rank[c] \in Nat
        /\ place[b] = rank[b] + 1 /\ place[c] = rank[c] + 1
    BY <1>10
  <2> QED BY <1>8, <2>1
<1> QED BY <1>13, <1>14, <1>15, <1>16

-----------------------------------------------------------------------------
(* What the selection finds                                                  *)

\* The camera shown has the wanted path, in the mode it is shown in.
Finds(now, path) ==
    LET camera == now.cameras[now.device] IN
    /\ now.mode \in CamModes /\ now.sureMode = now.mode /\ now.sureDevice = now.device
    /\ IsCamera(camera)
    /\ camera[now.mode] # None /\ camera[now.mode].path = path

\* A stream in the mode asked for is the one that is kept.
LEMMA ModeKept ==
    ASSUME NEW camera, IsCamera(camera), NEW mode \in CamModes, camera[mode] # None
    PROVE  selectCameraMode(camera, mode) = mode
BY DEF selectCameraMode, Offered, CamModes

Want(want) == [path |-> want.path, format |-> want.format, size |-> want.size]

LEMMA SelectionFinds ==
    ASSUME NEW nodes, IsFiniteSet(nodes),
           NEW want, want.path # NoPath, want.mode \in CamModes, Want(want) # None,
           NEW s, s = selectCameraDevice(listCameras(nodes), want)
    PROVE  /\ s.mode \in CamModes
           /\ IsCamera(s.devices[s.index])
           /\ s.devices[s.index][s.mode] # None
           /\ s.devices[s.index][s.mode].path = want.path
<1> DEFINE scanned == listCameras(nodes)
           hits  == {i \in DOMAIN scanned : ModesAt(scanned[i], want.path) # {}}
           hit   == CHOOSE i \in hits : \A j \in hits : i <= j
           modes == ModesAt(scanned[hit], want.path)
<1>1. PICK n \in Nat : /\ DOMAIN scanned = 1..n
                       /\ scanned = [k \in 1..n |-> scanned[k]]
                       /\ \A k \in 1..n : IsCamera(scanned[k])
  BY ScanIsSequence
<1>2. CASE hits = {}
  <2> DEFINE absent == NotDetected(want)
  <2>1. s = [devices |-> Append(scanned, absent), index |-> Len(scanned) + 1, mode |-> want.mode]
    BY <1>2 DEF selectCameraDevice
  <2>2. absent = [NoCamera EXCEPT ![want.mode] = Want(want)]
    BY DEF NotDetected, Want
  <2>3. IsCamera(absent) /\ absent[want.mode] = Want(want)
    <3>1. NoCamera = [ir |-> None, rgb |-> None] /\ IsStream(Want(want)) /\ IsStream(None)
      BY DEF NoCamera, IsStream, Want
    <3>2. CASE want.mode = "ir"
      <4>1. absent = [ir |-> Want(want), rgb |-> None]
        BY <2>2, <3>1, <3>2
      <4> HIDE DEF absent
      <4> QED BY <3>1, <3>2, <4>1 DEF IsCamera
    <3>3. CASE want.mode = "rgb"
      <4>1. absent = [ir |-> None, rgb |-> Want(want)]
        BY <2>2, <3>1, <3>3
      <4> HIDE DEF absent
      <4> QED BY <3>1, <3>3, <4>1 DEF IsCamera
    <3> QED BY <3>2, <3>3 DEF CamModes
  <2>4. Append(scanned, absent)[Len(scanned) + 1] = absent
    <3> DEFINE all == {scanned[k] : k \in 1..n} \cup {absent}
    <3>1. scanned \in Seq(all)
      BY <1>1
    <3> HIDE DEF all, scanned, absent
    <3>2. absent \in all
      BY DEF all
    <3> QED BY <3>1, <3>2, AppendProperties
  <2>5. Want(want).path = want.path
    BY DEF Want
  <2> HIDE DEF scanned, absent
  <2> QED BY <2>1, <2>3, <2>4, <2>5
<1>3. CASE hits # {}
  <2>1. hit \in hits
    <3>1. hits \in SUBSET Nat
      BY <1>1
    <3> HIDE DEF hits
    <3>2. \E i \in hits : \A j \in hits : i <= j
      BY <1>3, <3>1, Least
    <3> QED BY <3>2
  <2> DEFINE mode == IF modes = CamModes
                       THEN IF want.format = "YUYV" THEN "rgb" ELSE "ir"
                       ELSE CHOOSE m \in modes : TRUE
  <2>2. s = [devices |-> scanned, index |-> hit, mode |-> mode]
    BY <1>3 DEF selectCameraDevice
  <2>3. modes # {} /\ IsCamera(scanned[hit])
    BY <1>1, <2>1
  <2>4. mode \in modes
    <3> HIDE DEF modes
    <3> QED BY <2>3 DEF CamModes
  <2>5. mode \in CamModes /\ scanned[hit][mode] # None /\ scanned[hit][mode].path = want.path
    <3> HIDE DEF mode
    <3> QED BY <2>4 DEF ModesAt
  <2> HIDE DEF scanned, hit, mode
  <2> QED BY <2>2, <2>3, <2>5
<1> QED BY <1>2, <1>3

-----------------------------------------------------------------------------
(* What the page does with it                                                *)

FormShape(now) ==
    now = [cameras |-> now.cameras, device |-> now.device, sureDevice |-> now.sureDevice,
           mode |-> now.mode, sureMode |-> now.sureMode, confirm |-> now.confirm,
           greeter |-> now.greeter, configured |-> now.configured, chose |-> now.chose]

\* As long as the user chose nothing, the page shows the configured path.
KeptInv ==
    /\ Scanned /\ FormShape(form)
    /\ ~form.chose /\ form.configured # NoPath => Finds(form, form.configured)

\* Populating changes the camera and the mode, to what the selection gives.
LEMMA PopulatedShows ==
    ASSUME NEW now, FormShape(now), NEW want, NEW next, next = populated(now, want)
    PROVE  LET s == selectCameraDevice(listCameras(plugged), want) IN
           /\ FormShape(next)
           /\ next.cameras = s.devices /\ next.device = s.index /\ next.sureDevice = s.index
           /\ next.sureMode = s.mode
           /\ next.mode = selectCameraMode(s.devices[s.index], s.mode)
           /\ next.configured = now.configured /\ next.chose = now.chose
<1> DEFINE s    == selectCameraDevice(listCameras(plugged), want)
           mode == selectCameraMode(s.devices[s.index], s.mode)
<1>1. next = [now EXCEPT !.cameras = s.devices, !.device = s.index, !.sureDevice = s.index,
                         !.sureMode = s.mode, !.mode = mode]
  BY DEF populated
<1> HIDE DEF mode, s
<1>2. next = [cameras |-> s.devices, device |-> s.index, sureDevice |-> s.index, mode |-> mode,
              sureMode |-> s.mode, confirm |-> now.confirm, greeter |-> now.greeter,
              configured |-> now.configured, chose |-> now.chose]
  BY <1>1 DEF FormShape
<1>3. FormShape(next)
  BY <1>2 DEF FormShape
<1> QED BY <1>2, <1>3 DEF s, mode

\* It finds what it is asked for.
LEMMA PopulatedFinds ==
    ASSUME NEW now, FormShape(now), NEW want, NEW next, next = populated(now, want),
           IsFiniteSet(plugged)
    PROVE  /\ FormShape(next)
           /\ next.configured = now.configured /\ next.chose = now.chose
           /\ want.path # NoPath /\ want.mode \in CamModes /\ Want(want) # None =>
                Finds(next, want.path)
<1> SUFFICES ASSUME want.path # NoPath, want.mode \in CamModes, Want(want) # None
             PROVE  Finds(next, want.path)
  BY PopulatedShows
<1> DEFINE s == selectCameraDevice(listCameras(plugged), want)
<1>1. /\ s.mode \in CamModes /\ IsCamera(s.devices[s.index])
      /\ s.devices[s.index][s.mode] # None /\ s.devices[s.index][s.mode].path = want.path
  <2> HIDE DEF s
  <2>1. s = selectCameraDevice(listCameras(plugged), want)
    BY DEF s
  <2> QED BY <2>1, SelectionFinds
<1>2. /\ next.cameras = s.devices /\ next.device = s.index /\ next.sureDevice = s.index
      /\ next.sureMode = s.mode /\ next.mode = selectCameraMode(s.devices[s.index], s.mode)
  BY PopulatedShows
<1> HIDE DEF s
<1>3. next.mode = s.mode
  BY <1>1, <1>2, ModeKept
<1> QED BY <1>1, <1>2, <1>3 DEF Finds

\* The stream on show is the one in the mode that is found.
LEMMA ShownIsFound ==
    ASSUME NEW path, Finds(form, path)
    PROVE  /\ shownStream # None /\ shownStream.path = path
           /\ shownStream = Want(shownStream)
<1>1. shownStream = Shown[form.mode]
  BY DEF Finds, shownStream, Shown, CamModes, IsCamera
<1>2. IsStream(Shown[form.mode])
  BY DEF Finds, Shown, CamModes, IsCamera
<1> QED BY <1>1, <1>2 DEF Finds, Shown, IsStream, Want

Kept == ~form.chose /\ form.configured # NoPath => Finds(form, form.configured)

LEMMA RefreshKeeps == KeptInv /\ onRefreshCamerasClicked => FormShape(form)' /\ Kept'
<1> SUFFICES ASSUME KeptInv, onRefreshCamerasClicked PROVE FormShape(form)' /\ Kept'
  OBVIOUS
<1> DEFINE shown == shownStream
           mode  == form.mode
           want  == IF shown = None THEN defaults
                    ELSE [defaults EXCEPT !.path = shown.path, !.format = shown.format,
                                          !.mode = mode, !.size = shown.size]
<1>1. form' = populated(form, want)
  BY DEF onRefreshCamerasClicked
<1>2. IsFiniteSet(plugged)
  BY SessionsAssumption DEF KeptInv, Scanned
<1> HIDE DEF shown, mode
<1>3. shown # None => want.path = shown.path /\ want.mode = mode /\ Want(want) = Want(shown)
  BY DEF defaults, Want
<1> HIDE DEF want
<1>4. /\ FormShape(form')
      /\ form'.configured = form.configured /\ form'.chose = form.chose
      /\ want.path # NoPath /\ want.mode \in CamModes /\ Want(want) # None =>
           Finds(form', want.path)
  BY <1>1, <1>2, PopulatedFinds DEF KeptInv
<1>5. ASSUME ~form.chose, form.configured # NoPath PROVE Finds(form', form.configured)
  <2>1. Finds(form, form.configured)
    BY <1>5 DEF KeptInv
  <2>2. shown # None /\ shown.path = form.configured /\ Want(shown) = shown
    BY <2>1, ShownIsFound DEF shown
  <2>3. mode \in CamModes
    BY <2>1 DEF Finds, mode
  <2> QED BY <1>3, <1>4, <1>5, <2>2, <2>3
<1> QED BY <1>4, <1>5 DEF Kept

\* Of the slots, only those that the user gives another camera or mode lose it.
LEMMA SlotsKeep == KeptInv /\ SettingsClick => FormShape(form)' /\ Kept'
<1> SUFFICES ASSUME KeptInv, SettingsClick PROVE FormShape(form)' /\ Kept'
  OBVIOUS
<1>1. CASE onRefreshCamerasClicked
  BY <1>1, RefreshKeeps
<1>2. CASE onCameraDeviceChanged
  <2>1. PICK i, desired, mode :
          form' = [form EXCEPT !.device = i, !.sureDevice = i, !.sureMode = desired,
                               !.mode = mode, !.chose = TRUE]
    BY <1>2 DEF onCameraDeviceChanged
  <2> QED BY <2>1 DEF KeptInv, FormShape, Kept
<1>3. CASE onCameraDeviceDeclined
  <2>1. form' = [form EXCEPT !.device = form.sureDevice]
    BY <1>3 DEF onCameraDeviceDeclined
  <2> QED BY <2>1 DEF KeptInv, FormShape, Kept, Finds
<1>4. CASE onCameraModeChanged
  <2>1. PICK mode : form' = [form EXCEPT !.mode = mode, !.sureMode = mode, !.chose = TRUE]
    BY <1>4 DEF onCameraModeChanged
  <2> QED BY <2>1 DEF KeptInv, FormShape, Kept
<1>5. CASE onCameraModeDeclined
  <2>1. form' = [form EXCEPT !.mode = form.sureMode]
    BY <1>5 DEF onCameraModeDeclined, declinedMode
  <2> QED BY <2>1 DEF KeptInv, FormShape, Kept, Finds
<1>6. CASE onConfirmationModeChosen
  <2>1. PICK p : form' = [form EXCEPT !.confirm = p.confirm, !.greeter = p.greeter]
    BY <1>6 DEF onConfirmationModeChosen
  <2> QED BY <2>1 DEF KeptInv, FormShape, Kept, Finds
<1>7. CASE onSaveClicked
  BY <1>7 DEF onSaveClicked, KeptInv, Kept
<1> QED BY <1>1, <1>2, <1>3, <1>4, <1>5, <1>6, <1>7 DEF SettingsClick

LEMMA KeptStep == KeptInv /\ [Next]_vars => KeptInv'
<1> SUFFICES ASSUME KeptInv, [Next]_vars PROVE FormShape(form)' /\ Kept'
  BY ScannedStep DEF KeptInv, Kept
<1>1. CASE UNCHANGED form
  BY <1>1 DEF KeptInv, Kept
<1>2. CASE Click
  BY <1>1, <1>2, SlotsKeep DEF Click
<1>3. CASE ~Click
  BY <1>1, <1>3 DEF Next, SwitchTab, Tick, Run, Dispatch, onSettingsFinished, Replug, AdminEdit,
     vars
<1> QED BY <1>2, <1>3

\* Whatever is plugged in or out, refreshed, declined or saved, and by whomever: the page of
\* a user who chose no camera shows the configured path, and saves it
\* (populateCameraDeviceCombo, onRefreshCamerasClicked, onSaveClicked).
THEOREM CameraIsKept == Spec => []UntouchedCameraKept
<1>1. Init => KeptInv
  <2> SUFFICES ASSUME Init PROVE KeptInv
    OBVIOUS
  <2> DEFINE config == IF conf = None THEN defaults ELSE load(conf)
             blank  == [cameras |-> <<>>, device |-> 0, sureDevice |-> 0, mode |-> NoMode,
                        sureMode |-> NoMode, confirm |-> config.confirm,
                        greeter |-> config.greeter, configured |-> config.path, chose |-> FALSE]
  <2>1. Scanned /\ IsFiniteSet(plugged)
    BY SessionsAssumption DEF Init, Scanned
  <2>2. form = populated(blank, config)
    BY DEF Init, FormInit
  <2>3. config.path # NoPath => config.mode \in CamModes /\ Want(config) # None
    <3>1. CASE conf = None
      BY <3>1 DEF defaults, NoPath
    <3>2. CASE conf # None
      BY <3>2, SessionsAssumption DEF Init, Want
    <3> QED BY <3>1, <3>2
  <2> HIDE DEF config
  <2>4. FormShape(blank) /\ blank.configured = config.path
    BY DEF FormShape
  <2> HIDE DEF blank
  <2> QED BY <2>1, <2>2, <2>3, <2>4, PopulatedFinds DEF KeptInv
<1>2. KeptInv => UntouchedCameraKept
  BY ShownIsFound DEF KeptInv, UntouchedCameraKept
<1> QED BY <1>1, <1>2, KeptStep, PTL DEF Spec

-----------------------------------------------------------------------------
(* The form, whatever the user chooses                                       *)

\* What the selection gives: scanned cameras and an entry for a path that none of them has,
\* of which it shows one, in a mode in which the path was found or is asked for.
LEMMA SelectionGives ==
    ASSUME NEW nodes, IsFiniteSet(nodes),
           NEW want, want.mode \in CamModes,
           NEW s, s = selectCameraDevice(listCameras(nodes), want)
    PROVE  /\ s.index \in DOMAIN s.devices /\ s.mode \in CamModes
           /\ \A i \in DOMAIN s.devices :
                \/ \E j \in DOMAIN listCameras(nodes) : s.devices[i] = listCameras(nodes)[j]
                \/ s.devices[i] = NoCamera
                \/ want.path # NoPath /\ s.devices[i] = NotDetected(want)
           /\ \/ want.path = NoPath /\ s.mode = want.mode
              \/ want.path # NoPath /\ s.mode = want.mode /\ s.devices[s.index] = NotDetected(want)
              \/ /\ want.path # NoPath
                 /\ \E j \in DOMAIN listCameras(nodes) : s.devices[s.index] = listCameras(nodes)[j]
                 /\ s.mode \in ModesAt(s.devices[s.index], want.path)
                 /\ ModesAt(s.devices[s.index], want.path) = CamModes =>
                      s.mode = IF want.format = "YUYV" THEN "rgb" ELSE "ir"
<1> DEFINE scanned == listCameras(nodes)
           hits  == {i \in DOMAIN scanned : ModesAt(scanned[i], want.path) # {}}
           hit   == CHOOSE i \in hits : \A j \in hits : i <= j
           modes == ModesAt(scanned[hit], want.path)
<1>1. PICK n \in Nat : DOMAIN scanned = 1..n /\ scanned = [k \in 1..n |-> scanned[k]]
  BY ScanIsSequence
<1>2. CASE want.path = NoPath
  <2> DEFINE devices == IF scanned = <<>> THEN <<NoCamera>> ELSE scanned
  <2>1. s = [devices |-> devices, index |-> 1, mode |-> want.mode]
    BY <1>2 DEF selectCameraDevice
  <2>2. 1 \in DOMAIN devices
    <3>1. n = 0 => scanned = <<>>
      BY <1>1
    <3> HIDE DEF scanned
    <3>2. n # 0 => 1 \in DOMAIN scanned
      BY <1>1
    <3> QED BY <3>1, <3>2
  <2>3. \A i \in DOMAIN devices :
          (\E j \in DOMAIN scanned : devices[i] = scanned[j]) \/ devices[i] = NoCamera
    <3> HIDE DEF scanned
    <3> QED OBVIOUS
  <2> HIDE DEF devices
  <2> QED BY <1>2, <2>1, <2>2, <2>3
<1>3. CASE want.path # NoPath /\ hits = {}
  <2> DEFINE absent == NotDetected(want)
  <2>1. s = [devices |-> Append(scanned, absent), index |-> Len(scanned) + 1, mode |-> want.mode]
    BY <1>3 DEF selectCameraDevice
  <2>2. /\ DOMAIN Append(scanned, absent) = 1..(n + 1) /\ Len(scanned) = n
        /\ Append(scanned, absent)[n + 1] = absent
        /\ \A i \in 1..n : Append(scanned, absent)[i] = scanned[i]
    <3> DEFINE all == {scanned[k] : k \in 1..n} \cup {absent}
    <3>1. scanned \in Seq(all)
      BY <1>1
    <3> HIDE DEF all, absent
    <3>2. absent \in all
      BY DEF all
    <3>3. Len(scanned) = n
      BY <1>1, <3>1
    <3> HIDE DEF scanned
    <3> QED BY <1>1, <3>1, <3>2, <3>3, AppendProperties
  <2>3. s.devices = Append(scanned, absent) /\ s.index = n + 1 /\ s.mode = want.mode
    BY <2>1, <2>2
  <2> HIDE DEF absent
  <2>4. ASSUME NEW i \in DOMAIN s.devices
        PROVE  (\E j \in DOMAIN scanned : s.devices[i] = scanned[j]) \/ s.devices[i] = absent
    <3>1. i \in 1..n \/ i = n + 1
      BY <2>2, <2>3, <2>4
    <3> QED BY <1>1, <2>2, <2>3, <3>1
  <2>5. s.index \in DOMAIN s.devices /\ s.devices[s.index] = absent
    BY <2>2, <2>3
  <2> QED BY <1>3, <2>3, <2>4, <2>5 DEF absent
<1>4. CASE want.path # NoPath /\ hits # {}
  <2>1. hit \in hits
    <3>1. hits \in SUBSET Nat
      BY <1>1
    <3> HIDE DEF hits
    <3>2. \E i \in hits : \A j \in hits : i <= j
      BY <1>4, <3>1, Least
    <3> QED BY <3>2
  <2> DEFINE mode == IF modes = CamModes
                       THEN IF want.format = "YUYV" THEN "rgb" ELSE "ir"
                       ELSE CHOOSE m \in modes : TRUE
  <2>2. s = [devices |-> scanned, index |-> hit, mode |-> mode]
    BY <1>4 DEF selectCameraDevice
  <2>3. hit \in DOMAIN scanned /\ modes # {} /\ modes \subseteq CamModes
    BY <2>1 DEF ModesAt
  <2>4. mode \in modes /\ (modes = CamModes => mode = IF want.format = "YUYV" THEN "rgb" ELSE "ir")
    <3> HIDE DEF modes
    <3> QED BY <2>3 DEF CamModes
  <2> HIDE DEF hit, mode
  <2>5. s.devices = scanned /\ s.index = hit /\ s.mode = mode
    BY <2>2
  <2> HIDE DEF scanned
  <2> QED BY <1>4, <2>3, <2>4, <2>5 DEF scanned
<1> QED BY <1>2, <1>3, <1>4

\* An entry that stands for what is wanted has that, in the mode wanted, and nothing else.
LEMMA AbsentEntry ==
    ASSUME NEW want, want.mode \in CamModes
    PROVE  /\ IsCamera(NotDetected(want)) /\ IsCamera(NoCamera)
           /\ NoCamera.ir = None /\ NoCamera.rgb = None
           /\ \A m \in CamModes : NotDetected(want)[m] = IF m = want.mode THEN Want(want) ELSE None
<1> DEFINE absent == NotDetected(want)
<1>1. absent = [NoCamera EXCEPT ![want.mode] = Want(want)]
  BY DEF NotDetected, Want
<1>2. NoCamera = [ir |-> None, rgb |-> None] /\ IsStream(Want(want)) /\ IsStream(None)
  BY DEF NoCamera, IsStream, Want
<1>3. CASE want.mode = "ir"
  <2>1. absent = [ir |-> Want(want), rgb |-> None]
    BY <1>1, <1>2, <1>3
  <2> HIDE DEF absent
  <2> QED BY <1>2, <1>3, <2>1 DEF IsCamera, CamModes, absent
<1>4. CASE want.mode = "rgb"
  <2>1. absent = [ir |-> None, rgb |-> Want(want)]
    BY <1>1, <1>2, <1>4
  <2> HIDE DEF absent
  <2> QED BY <1>2, <1>4, <2>1 DEF IsCamera, CamModes, absent
<1> QED BY <1>3, <1>4 DEF CamModes

\* The camera on show is one of the list, and its mode the one that its streams make of the
\* mode confirmed last.
FormInv ==
    /\ Scanned /\ FormShape(form)
    /\ form.device \in DOMAIN form.cameras /\ form.sureDevice = form.device
    /\ form.sureMode \in CamModes /\ form.mode = selectCameraMode(Shown, form.sureMode)
    /\ \A i \in DOMAIN form.cameras : IsCamera(form.cameras[i])

\* The same of any form.
FormOk(now) ==
    /\ FormShape(now)
    /\ now.device \in DOMAIN now.cameras /\ now.sureDevice = now.device
    /\ now.sureMode \in CamModes
    /\ now.mode = selectCameraMode(now.cameras[now.device], now.sureMode)
    /\ \A i \in DOMAIN now.cameras : IsCamera(now.cameras[i])

LEMMA PopulatedIsOk ==
    ASSUME NEW now, FormShape(now), NEW want, want.mode \in CamModes, IsFiniteSet(plugged),
           NEW next, next = populated(now, want)
    PROVE  FormOk(next)
<1> DEFINE s == selectCameraDevice(listCameras(plugged), want)
<1>1. /\ FormShape(next)
      /\ next.cameras = s.devices /\ next.device = s.index /\ next.sureDevice = s.index
      /\ next.sureMode = s.mode /\ next.mode = selectCameraMode(s.devices[s.index], s.mode)
  BY PopulatedShows
<1> HIDE DEF s
<1>2. /\ s.index \in DOMAIN s.devices /\ s.mode \in CamModes
      /\ \A i \in DOMAIN s.devices :
           \/ \E j \in DOMAIN listCameras(plugged) : s.devices[i] = listCameras(plugged)[j]
           \/ s.devices[i] = NoCamera
           \/ s.devices[i] = NotDetected(want)
  BY SelectionGives DEF s
<1>3. \A j \in DOMAIN listCameras(plugged) : IsCamera(listCameras(plugged)[j])
  BY ScanIsSequence
<1>4. \A i \in DOMAIN s.devices : IsCamera(s.devices[i])
  BY <1>2, <1>3, AbsentEntry
<1> QED BY <1>1, <1>2, <1>4 DEF FormOk

LEMMA PluggedNodes == Scanned => AreNodes(plugged)
BY SessionsAssumption DEF Scanned, AreNodes

\* What the page is opened with, and what Refresh looks for.
Configuration == IF conf = None THEN defaults ELSE load(conf)
Blank(config) ==
    [cameras |-> <<>>, device |-> 0, sureDevice |-> 0, mode |-> NoMode, sureMode |-> NoMode,
     confirm |-> config.confirm, greeter |-> config.greeter, configured |-> config.path,
     chose |-> FALSE]
Sought ==
    IF shownStream = None THEN defaults
    ELSE [defaults EXCEPT !.path = shownStream.path, !.format = shownStream.format,
                          !.mode = form.mode, !.size = shownStream.size]

LEMMA FormOpens ==
    ASSUME Init
    PROVE  /\ Scanned /\ FormShape(Blank(Configuration))
           /\ form = populated(Blank(Configuration), Configuration)
           /\ Configuration.mode \in CamModes
<1>1. Scanned
  BY DEF Init, Scanned
<1>2. form = populated(Blank(Configuration), Configuration)
  BY DEF Init, FormInit, Blank, Configuration
<1>3. Configuration.mode \in CamModes
  <2>1. defaults.mode \in CamModes
    BY DEF defaults, CamModes
  <2> QED BY <2>1, SessionsAssumption DEF Init, Configuration
<1>4. FormShape(Blank(Configuration))
  BY DEF Blank, FormShape
<1> QED BY <1>1, <1>2, <1>3, <1>4

LEMMA FormSeeks ==
    ASSUME FormInv, onRefreshCamerasClicked
    PROVE  /\ form' = populated(form, Sought) /\ Sought.mode \in CamModes
           /\ IF shownStream = None THEN Sought = defaults
              ELSE /\ form.mode \in CamModes /\ shownStream = Shown[form.mode]
                   /\ Sought.mode = form.mode /\ Want(Sought) = shownStream
<1>1. form' = populated(form, Sought)
  BY DEF onRefreshCamerasClicked, Sought
<1>2. CASE shownStream = None
  BY <1>1, <1>2 DEF Sought, defaults, CamModes
<1>3. CASE shownStream # None
  <2>1. IsCamera(Shown)
    BY DEF FormInv, Shown
  <2>2. form.mode \in CamModes
    <3>1. form.mode \in CamModes \/ (form.mode = NoMode /\ Offered(Shown) = {})
      BY DEF FormInv, selectCameraMode, Offered, CamModes
    <3>2. Offered(Shown) # {}
      BY <1>3, <3>1 DEF shownStream, Offered, CamModes, NoMode
    <3> QED BY <3>1, <3>2
  <2>3. shownStream = Shown[form.mode] /\ IsStream(shownStream)
    BY <2>1, <2>2 DEF shownStream, CamModes, IsCamera
  <2> DEFINE stream == shownStream
             mode   == form.mode
  <2>4. Sought = [defaults EXCEPT !.path = stream.path, !.format = stream.format,
                                  !.mode = mode, !.size = stream.size]
    BY <1>3 DEF Sought
  <2>5. stream = [path |-> stream.path, format |-> stream.format, size |-> stream.size]
    BY <1>3, <2>3 DEF IsStream
  <2> HIDE DEF stream, mode
  <2>6. Sought.mode = mode /\ Want(Sought) = stream
    BY <2>4, <2>5 DEF defaults, Want
  <2> QED BY <1>1, <1>3, <2>2, <2>3, <2>6 DEF stream, mode
<1> QED BY <1>2, <1>3

\* A camera that the user chose, in a mode that it makes of the one asked for.
LEMMA DeviceChanges ==
    ASSUME FormInv, onCameraDeviceChanged
    PROVE  \E i \in DOMAIN form.cameras :
             LET desired == resolveModeForDeviceChange(form.cameras[i], form.sureMode) IN
             /\ FormShape(form') /\ form'.cameras = form.cameras
             /\ form'.device = i /\ form'.sureDevice = i
             /\ form'.sureMode = desired
             /\ form'.mode = selectCameraMode(form.cameras[i], desired)
             /\ IF desired = "rgb" THEN acked' = TRUE ELSE UNCHANGED acked
<1>1. PICK i \in DOMAIN form.cameras :
        LET desired == resolveModeForDeviceChange(form.cameras[i], form.sureMode) IN
        /\ confirmed(desired)
        /\ form' = [form EXCEPT !.device = i, !.sureDevice = i, !.sureMode = desired,
                                !.mode = selectCameraMode(form.cameras[i], desired),
                                !.chose = TRUE]
  BY DEF onCameraDeviceChanged
<1> DEFINE desired == resolveModeForDeviceChange(form.cameras[i], form.sureMode)
           mode    == selectCameraMode(form.cameras[i], desired)
<1>2. form' = [form EXCEPT !.device = i, !.sureDevice = i, !.sureMode = desired, !.mode = mode,
                           !.chose = TRUE]
  BY <1>1
<1>3. IF desired = "rgb" THEN acked' = TRUE ELSE UNCHANGED acked
  BY <1>1 DEF confirmed
<1> HIDE DEF desired, mode
<1>4. /\ FormShape(form') /\ form'.cameras = form.cameras
      /\ form'.device = i /\ form'.sureDevice = i /\ form'.sureMode = desired /\ form'.mode = mode
  BY <1>2 DEF FormInv, FormShape
<1> QED BY <1>3, <1>4 DEF desired, mode

\* A mode that the user chose.
LEMMA ModeChanges ==
    ASSUME FormInv, onCameraModeChanged
    PROVE  \E mode \in Offered(Shown) :
             /\ FormShape(form') /\ form'.cameras = form.cameras
             /\ form'.device = form.device /\ form'.sureDevice = form.sureDevice
             /\ form'.sureMode = mode /\ form'.mode = mode
             /\ IF mode = "rgb" THEN acked' = TRUE ELSE UNCHANGED acked
<1>1. PICK mode \in Offered(Shown) \ {form.mode} :
        /\ IF mode = form.sureMode THEN UNCHANGED acked ELSE confirmed(mode)
        /\ form' = [form EXCEPT !.mode = mode, !.sureMode = mode, !.chose = TRUE]
  BY DEF onCameraModeChanged
<1>2. mode # form.sureMode
  BY <1>1 DEF FormInv, selectCameraMode
<1>3. /\ FormShape(form') /\ form'.cameras = form.cameras
      /\ form'.device = form.device /\ form'.sureDevice = form.sureDevice
      /\ form'.sureMode = mode /\ form'.mode = mode
  BY <1>1 DEF FormInv, FormShape
<1> QED BY <1>1, <1>2, <1>3 DEF confirmed

\* Whatever is declined, and the confirmations, leave the camera and the mode.
LEMMA OthersLeave ==
    ASSUME FormInv,
           onCameraDeviceDeclined \/ onCameraModeDeclined \/ onConfirmationModeChosen \/ onSaveClicked
    PROVE  /\ FormShape(form') /\ form'.cameras = form.cameras
           /\ form'.device = form.device /\ form'.sureDevice = form.sureDevice
           /\ form'.sureMode = form.sureMode /\ form'.mode = form.mode
           /\ UNCHANGED acked
<1>1. CASE onCameraDeviceDeclined
  BY <1>1 DEF onCameraDeviceDeclined, FormInv, FormShape
<1>2. CASE onCameraModeDeclined
  <2>1. form.sureMode = form.mode
    BY <1>2 DEF onCameraModeDeclined, FormInv, selectCameraMode, Offered, CamModes
  <2>2. form' = [form EXCEPT !.mode = form.sureMode] /\ UNCHANGED acked
    BY <1>2 DEF onCameraModeDeclined, declinedMode
  <2> QED BY <2>1, <2>2 DEF FormInv, FormShape
<1>3. CASE onConfirmationModeChosen
  <2>1. PICK p : form' = [form EXCEPT !.confirm = p.confirm, !.greeter = p.greeter]
    BY <1>3 DEF onConfirmationModeChosen
  <2>2. UNCHANGED acked
    BY <1>3 DEF onConfirmationModeChosen
  <2> QED BY <2>1, <2>2 DEF FormInv, FormShape
<1>4. CASE onSaveClicked
  BY <1>4 DEF onSaveClicked, FormInv
<1> QED BY <1>1, <1>2, <1>3, <1>4

LEMMA FormStep == FormInv /\ [Next]_vars => FormInv'
<1> SUFFICES ASSUME FormInv, [Next]_vars PROVE FormInv'
  OBVIOUS
<1>0. Scanned'
  BY ScannedStep DEF FormInv
<1>1. CASE UNCHANGED form
  BY <1>0, <1>1 DEF FormInv, Shown
<1>2. CASE Click /\ tab = "settings"
  <2>0. SettingsClick
    BY <1>2 DEF Click
  <2>1. CASE onRefreshCamerasClicked
    <3>1. form' = populated(form, Sought) /\ Sought.mode \in CamModes
      BY <2>1, FormSeeks
    <3>2. FormShape(form) /\ IsFiniteSet(plugged)
      BY PluggedNodes DEF FormInv, AreNodes
    <3>3. FormOk(form')
      BY <3>1, <3>2, PopulatedIsOk
    <3> QED BY <1>0, <3>3 DEF FormInv, FormOk, Shown
  <2>2. CASE onCameraDeviceChanged
    <3>1. PICK i \in DOMAIN form.cameras :
            LET desired == resolveModeForDeviceChange(form.cameras[i], form.sureMode) IN
            /\ FormShape(form') /\ form'.cameras = form.cameras
            /\ form'.device = i /\ form'.sureDevice = i /\ form'.sureMode = desired
            /\ form'.mode = selectCameraMode(form.cameras[i], desired)
      BY <2>2, DeviceChanges
    <3>2. resolveModeForDeviceChange(form.cameras[i], form.sureMode) \in CamModes
      BY DEF FormInv, resolveModeForDeviceChange, CamModes
    <3> QED BY <1>0, <3>1, <3>2 DEF FormInv, Shown
  <2>3. CASE onCameraModeChanged
    <3>1. PICK mode \in Offered(Shown) :
            /\ FormShape(form') /\ form'.cameras = form.cameras
            /\ form'.device = form.device /\ form'.sureDevice = form.sureDevice
            /\ form'.sureMode = mode /\ form'.mode = mode
      BY <2>3, ModeChanges
    <3>2. mode \in CamModes /\ mode = selectCameraMode(Shown, mode)
      BY DEF Offered, selectCameraMode
    <3> QED BY <1>0, <3>1, <3>2 DEF FormInv, Shown
  <2>4. CASE ~onRefreshCamerasClicked /\ ~onCameraDeviceChanged /\ ~onCameraModeChanged
    BY <1>0, <2>0, <2>4, OthersLeave DEF SettingsClick, FormInv, Shown
  <2> QED BY <2>1, <2>2, <2>3, <2>4
<1>3. CASE ~(Click /\ tab = "settings")
  BY <1>1, <1>3 DEF Next, Click, SwitchTab, Tick, Run, Dispatch, onSettingsFinished, Replug,
     AdminEdit, vars
<1> QED BY <1>2, <1>3

-----------------------------------------------------------------------------
(* Types                                                                     *)

\* A file, or overrides: known keys, and a number for the gain.
FileTyped(file) ==
    DOMAIN file \subseteq DOMAIN defaults /\ ("gain" \in DOMAIN file => file["gain"] \in Int)

\* What a command carries.
CarriedTyped(p) ==
    /\ helper[p].at \in Steps /\ helper[p].cmd.op \in Ops /\ helper[p].answer \in Answers
    /\ helper[p].at \in {"truncate", "write"} =>
         /\ helper[p].cmd.op \in Writers
         /\ DOMAIN helper[p].loaded.config = DOMAIN defaults
         /\ FileTyped(helper[p].loaded.config)
    /\ helper[p].at = "write" => FileTyped(conf)
    /\ helper[p].cmd.op = "enroll" => helper[p].cmd.gain \in Int
    /\ helper[p].cmd.op = "write_config" /\ "gain" \in DOMAIN helper[p].cmd.set =>
         helper[p].cmd.set["gain"] \in Int

FilesInv == Processes /\ (conf = None \/ FileTyped(conf)) /\ \A p \in Pages : CarriedTyped(p)

\* A camera is open for whoever captures, and for one at a time.
StreamsInv ==
    /\ StreamShape
    /\ \A p \in Pages : streaming[p] # None <=> helper[p].at = "capture"
    /\ \A g, h \in Holders : g # h /\ streaming[g] = streaming[h] => streaming[g] = None

PageInv ==
    /\ PageShape
    /\ page.label \in Labels /\ page.slider \in GainMin..GainMax /\ page.pending \in Actions
    /\ page.pending # "none" <=> isBusy("enrollment")

RestInv ==
    /\ enrolled \in BOOLEAN /\ acked \in BOOLEAN /\ trouble \subseteq {"fault", "race"}
    /\ service \in [Services -> States] /\ row \in [Services -> States]
    /\ tab \in Pages \cup {"none"}

TypeInv == FormInv /\ FilesInv /\ StreamsInv /\ PageInv /\ RestInv

LEMMA GotoIs ==
    ASSUME Shape, NEW p \in Pages, NEW step, Goto(p, step)
    PROVE  /\ helper'[p].at = step
           /\ helper'[p].loaded = helper[p].loaded /\ helper'[p].answer = helper[p].answer
BY DEF Shape, Goto

LEMMA EndIs ==
    ASSUME Shape, NEW p \in Pages, NEW answer, End(p, answer)
    PROVE  helper'[p].at = "ended" /\ helper'[p].answer = answer
<1>1. helper[p] = [at |-> helper[p].at, cmd |-> helper[p].cmd,
                   loaded |-> helper[p].loaded, answer |-> helper[p].answer]
  BY DEF Shape
<1>2. helper'[p] = [at |-> "ended", cmd |-> helper[p].cmd, loaded |-> None, answer |-> answer]
  BY <1>1 DEF Shape, End
<1> QED BY <1>2

\* Loading ends a command, or gives it the configuration that it goes on with.
LEMMA LoadIs ==
    ASSUME Shape, NEW p \in Pages, Load(p)
    PROVE  LET cmd == helper[p].cmd IN
           \/ /\ Precheck(cmd) # None /\ End(p, Precheck(cmd))
           \/ /\ Precheck(cmd) = None /\ cmd.op \in Writers
              /\ helper'[p].at = "truncate" /\ helper'[p].answer = helper[p].answer
              /\ helper'[p].loaded.config = Configured(cmd)
              /\ UNCHANGED streaming
           \/ /\ Precheck(cmd) = None /\ cmd.op \notin Writers
              /\ helper'[p].at = "open" /\ helper'[p].answer = helper[p].answer
              /\ UNCHANGED streaming
<1> DEFINE cmd  == helper[p].cmd
           step == IF cmd.op \in Writers THEN "truncate" ELSE "open"
           config == Configured(cmd)
<1>1. CASE Precheck(cmd) # None
  BY <1>1 DEF Load
<1>2. CASE Precheck(cmd) = None
  <2>1. PICK seen :
          /\ helper' = [helper EXCEPT
               ![p].at = IF cmd.op \in Writers THEN "truncate" ELSE "open",
               ![p].loaded = IF cmd.op \in Writers THEN [config |-> config, seen |-> "none"]
                             ELSE [config |-> load(conf), seen |-> seen]]
          /\ UNCHANGED streaming
    BY <1>2 DEF Load
  <2> DEFINE loaded == IF cmd.op \in Writers THEN [config |-> config, seen |-> "none"]
                       ELSE [config |-> load(conf), seen |-> seen]
  <2>2. /\ helper'[p].at = step /\ helper'[p].loaded = loaded
        /\ helper'[p].answer = helper[p].answer
    <3>1. helper' = [helper EXCEPT ![p].at = step, ![p].loaded = loaded]
      BY <2>1
    <3> HIDE DEF loaded, step, cmd
    <3>2. helper[p] = [at |-> helper[p].at, cmd |-> helper[p].cmd,
                       loaded |-> helper[p].loaded, answer |-> helper[p].answer]
      BY DEF Shape
    <3> QED BY <3>1, <3>2 DEF Shape
  <2>3. cmd.op \in Writers => loaded.config = config
    OBVIOUS
  <2> HIDE DEF loaded, config
  <2> QED BY <1>2, <2>1, <2>2, <2>3 DEF config
<1> QED BY <1>1, <1>2

LEMMA PrecheckAnswers ==
    ASSUME NEW cmd, Precheck(cmd) # None PROVE Precheck(cmd) \in Answers
BY DEF Precheck, Answers

\* What a writer is about to save has all the keys.
LEMMA ConfiguredIsTyped ==
    ASSUME FilesInv, NEW p \in Pages, helper[p].cmd.op \in Writers,
           Precheck(helper[p].cmd) = None
    PROVE  LET config == Configured(helper[p].cmd) IN
           DOMAIN config = DOMAIN defaults /\ FileTyped(config)
<1> DEFINE cmd == helper[p].cmd
<1>1. "gain" \in DOMAIN defaults /\ defaults["gain"] \in Int
  BY DEF defaults
<1>2. ASSUME FileTyped(conf) PROVE DOMAIN load(conf) = DOMAIN defaults /\ load(conf)["gain"] \in Int
  BY <1>1, <1>2 DEF FileTyped, load
<1>3. CASE cmd.op = "enroll"
  <2>1. conf # None
    BY <1>3, NoneAssumption DEF Precheck, Answers
  <2>2. FileTyped(conf) /\ cmd.gain \in Int
    BY <1>3, <2>1 DEF FilesInv, CarriedTyped
  <2> DEFINE old  == load(conf)
             mode == cmd.mode
             gain == cmd.gain
  <2>3. Configured(cmd) = [old EXCEPT !.mode = mode, !.gain = gain]
    BY <1>3 DEF Configured
  <2>4. DOMAIN old = DOMAIN defaults
    BY <1>2, <2>2
  <2> HIDE DEF old, mode, gain
  <2>5. DOMAIN Configured(cmd) = DOMAIN defaults /\ Configured(cmd)["gain"] = gain
    BY <1>1, <2>3, <2>4
  <2> QED BY <2>2, <2>5 DEF gain, FileTyped
<1>4. CASE cmd.op = "write_config"
  <2> DEFINE old == IF conf = None THEN defaults ELSE load(conf)
  <2>1. Configured(cmd) = [k \in DOMAIN old |-> IF k \in DOMAIN cmd.set THEN cmd.set[k] ELSE old[k]]
    BY <1>4 DEF Configured, applyConfigOverrides
  <2>2. DOMAIN old = DOMAIN defaults /\ old["gain"] \in Int
    BY <1>1, <1>2 DEF FilesInv
  <2>3. "gain" \in DOMAIN cmd.set => cmd.set["gain"] \in Int
    BY <1>4 DEF FilesInv, CarriedTyped
  <2> HIDE DEF old, cmd
  <2>4. DOMAIN Configured(cmd) = DOMAIN defaults /\ Configured(cmd)["gain"] \in Int
    BY <1>1, <2>1, <2>2, <2>3
  <2> QED BY <2>4 DEF FileTyped, cmd
<1> QED BY <1>3, <1>4 DEF Writers

\* What reaches the file has known keys, and a number for the gain.
LEMMA WrittenIsTyped ==
    ASSUME NEW file, FileTyped(file),
           NEW config, FileTyped(config), DOMAIN config = DOMAIN defaults,
           NEW n \in 0..Len(ConfigKeys), NEW written,
           written \in WrittenOver(file, FirstLines(config, n))
    PROVE  FileTyped(written)
<1> DEFINE text == FirstLines(config, n)
<1>1. FileTyped(text)
  <2>1. Len(ConfigKeys) = 7 /\ \A i \in 1..7 : ConfigKeys[i] \in DOMAIN defaults
    BY DEF ConfigKeys, defaults
  <2>2. /\ \A k \in DOMAIN text : text[k] = config[k]
        /\ \A k \in DOMAIN text : \E i \in 1..n : k = ConfigKeys[i]
    BY DEF FirstLines
  <2>3. DOMAIN text \subseteq DOMAIN defaults
    BY <2>1, <2>2
  <2> HIDE DEF text
  <2> QED BY <2>2, <2>3 DEF FileTyped
<1>2. ASSUME NEW tail \in Tails(file) PROVE FileTyped(tail)
  <2>1. CASE \E lines : tail = [k \in DOMAIN file \cap lines |-> file[k]]
    BY <2>1 DEF FileTyped
  <2>2. CASE \E value : tail = [confirm |-> value]
    BY <2>2 DEF FileTyped, defaults
  <2> QED BY <2>1, <2>2 DEF Tails
<1> HIDE DEF text
<1>3. PICK tail \in Tails(file) :
        written = [k \in DOMAIN text \cup DOMAIN tail |->
                     IF k \in DOMAIN tail THEN tail[k] ELSE text[k]]
  BY DEF WrittenOver, text
<1> QED BY <1>1, <1>2, <1>3 DEF FileTyped

\* A helper's step.
LEMMA HelperTyped ==
    ASSUME FilesInv, NEW p \in Pages, Helper(p)
    PROVE  /\ conf' = None \/ FileTyped(conf')
           /\ \A q \in Pages : CarriedTyped(q)'
<1>0. Moves(p) /\ Shape
  BY HelperMoves DEF FilesInv, Processes
<1>1. ASSUME conf' = conf \/ FileTyped(conf'), CarriedTyped(p)'
      PROVE  /\ conf' = None \/ FileTyped(conf')
             /\ \A q \in Pages : CarriedTyped(q)'
  BY <1>0, <1>1 DEF FilesInv, CarriedTyped, Moves
<1>2. CASE Load(p)
  <2>1. UNCHANGED conf
    BY <1>2 DEF Load
  <2> DEFINE cmd == helper[p].cmd
  <2>2. CASE Precheck(cmd) # None /\ End(p, Precheck(cmd))
    <3>1. helper'[p].at = "ended" /\ helper'[p].answer \in Answers
      BY <1>0, <2>2, EndIs, PrecheckAnswers
    <3>2. CarriedTyped(p)'
      BY <1>0, <3>1 DEF FilesInv, CarriedTyped, Moves, Steps
    <3> QED BY <1>1, <2>1, <3>2
  <2>3. CASE /\ Precheck(cmd) = None /\ cmd.op \in Writers
             /\ helper'[p].at = "truncate" /\ helper'[p].answer = helper[p].answer
             /\ helper'[p].loaded.config = Configured(cmd)
    <3> DEFINE config == Configured(cmd)
    <3>1. DOMAIN config = DOMAIN defaults /\ FileTyped(config)
      BY <2>3, ConfiguredIsTyped
    <3>2. helper'[p].loaded.config = config
      BY <2>3
    <3> HIDE DEF config
    <3>3. /\ DOMAIN helper'[p].loaded.config = DOMAIN defaults
          /\ FileTyped(helper'[p].loaded.config)
      BY <3>1, <3>2
    <3>4. CarriedTyped(p)'
      BY <1>0, <2>3, <3>3 DEF FilesInv, CarriedTyped, Moves, Steps, FileTyped
    <3> QED BY <1>1, <2>1, <3>4
  <2>4. CASE helper'[p].at = "open" /\ helper'[p].answer = helper[p].answer
    <3>1. CarriedTyped(p)'
      BY <1>0, <2>4 DEF FilesInv, CarriedTyped, Moves, Steps
    <3> QED BY <1>1, <2>1, <3>1
  <2> QED BY <1>0, <1>2, <2>2, <2>3, <2>4, LoadIs
<1>3. CASE Truncate(p)
  <2>1. /\ helper[p].at = "truncate" /\ helper'[p].at = "write"
        /\ helper'[p].loaded = helper[p].loaded /\ helper'[p].answer = helper[p].answer
    BY <1>0, <1>3, GotoIs DEF Truncate
  <2>2. FileTyped(conf')
    BY <1>3 DEF Truncate, Empty, FileTyped
  <2>3. CarriedTyped(p)'
    BY <1>0, <2>1, <2>2 DEF FilesInv, CarriedTyped, Moves, Steps, FileTyped
  <2> QED BY <1>1, <2>2, <2>3
<1>4. CASE WriteConf(p) \/ WriteConfShort(p)
  <2>1. /\ helper[p].at = "write" /\ FileTyped(conf)
        /\ FileTyped(helper[p].loaded.config)
        /\ DOMAIN helper[p].loaded.config = DOMAIN defaults
    BY <1>4 DEF WriteConf, WriteConfShort, FilesInv, CarriedTyped
  <2>2. FileTyped(conf')
    <3>1. PICK n \in 0..Len(ConfigKeys) :
            conf' \in WrittenOver(conf, FirstLines(helper[p].loaded.config, n))
      BY <1>4, WrittenLines
    <3> QED BY <2>1, <3>1, WrittenIsTyped
  <2>3. \/ helper'[p].at = "open" /\ helper'[p].answer = helper[p].answer
        \/ helper'[p].at = "ended" /\ helper'[p].answer = "ok"
    BY <1>0, <1>4, GotoIs, EndIs DEF WriteConf, WriteConfShort, AfterWrite
  <2>4. CarriedTyped(p)'
    BY <1>0, <2>3 DEF FilesInv, CarriedTyped, Moves, Steps, Answers
  <2> QED BY <1>1, <2>2, <2>4
<1>5. CASE Refused(p) \/ Authorised(p) \/ Open(p) \/ Capture(p) \/ Apply(p) \/ Fails(p)
  <2>1. UNCHANGED conf
    BY <1>5 DEF Refused, Authorised, Open, Capture, Apply, Fails, systemVars
  <2>2. \/ helper'[p].at \in {"load", "apply", "capture"} /\ helper'[p].answer = helper[p].answer
        \/ helper'[p].at = "ended" /\ helper'[p].answer \in Answers
    <3>1. \A answer \in Answers :
            End(p, answer) => helper'[p].at = "ended" /\ helper'[p].answer \in Answers
      BY <1>0, EndIs
    <3>2. \A step : Goto(p, step) => helper'[p].at = step /\ helper'[p].answer = helper[p].answer
      BY <1>0, GotoIs
    <3>3. {"ok", "error", "seen", "unavailable"} \subseteq Answers
      BY DEF Answers
    <3> QED BY <1>5, <3>1, <3>2, <3>3 DEF Refused, Authorised, Open, Capture, Apply, Fails, NoCameraAnswer
  <2>3. CarriedTyped(p)'
    BY <1>0, <2>2 DEF FilesInv, CarriedTyped, Moves, Steps
  <2> QED BY <1>1, <2>1, <2>3
<1> QED BY <1>2, <1>3, <1>4, <1>5 DEF Helper, HelperStep

LEMMA FilesStep == FilesInv /\ PageInv /\ [Next]_vars => FilesInv'
<1> SUFFICES ASSUME FilesInv, PageInv, [Next]_vars
             PROVE  (conf' = None \/ FileTyped(conf)') /\ \A p \in Pages : CarriedTyped(p)'
  BY ProcessesStep DEF FilesInv
<1>1. CASE UNCHANGED <<conf, helper>>
  BY <1>1 DEF FilesInv, CarriedTyped, FileTyped
<1>2. ASSUME NEW p \in Pages, NEW cmd, run(p, cmd), UNCHANGED conf, cmd.op \in Ops,
             cmd.op = "enroll" => cmd.gain \in Int,
             cmd.op = "write_config" /\ "gain" \in DOMAIN cmd.set => cmd.set["gain"] \in Int
      PROVE  (conf' = None \/ FileTyped(conf)') /\ \A q \in Pages : CarriedTyped(q)'
  <2>1. /\ helper'[p].at = "prompt" /\ helper'[p].cmd = cmd
        /\ \A q \in Pages \ {p} : helper'[q] = helper[q]
    BY <1>2, RunMoves DEF FilesInv, Processes
  <2>2. helper'[p].answer = "none"
    BY <1>2 DEF run, FilesInv, Processes, Shape
  <2>3. CarriedTyped(p)'
    BY <1>2, <2>1, <2>2 DEF CarriedTyped, Steps, Answers
  <2>4. ASSUME NEW q \in Pages \ {p} PROVE CarriedTyped(q)'
    BY <1>2, <2>1 DEF FilesInv, CarriedTyped, FileTyped
  <2>5. conf' = None \/ FileTyped(conf)'
    BY <1>2 DEF FilesInv, FileTyped
  <2> QED BY <2>3, <2>4, <2>5
<1>3. CASE SwitchTab
  BY <1>1, <1>3 DEF SwitchTab, showEnrollment, hideEnrollment, showPam, sharedVars, systemVars,
     unchangedSystem, unchangedRun
<1>4. CASE Click
  <2>1. CASE tab = "enrollment" /\ EnrollmentClick
    <3>1. UNCHANGED conf
      BY <2>1 DEF EnrollmentClick, onGainSliderChanged, onSaveGainClicked, onEnrollClicked,
         startEnroll, onDeleteClicked, onTestClicked, unchangedSystem
    <3>2. page.slider \in Int
      BY DEF PageInv, GainMin, GainMax
    <3>3. CASE onSaveGainClicked
      BY <1>2, <3>1, <3>2, <3>3 DEF onSaveGainClicked, writeConfig, Pages, Ops
    <3>4. CASE onEnrollClicked
      BY <1>2, <3>1, <3>2, <3>4 DEF onEnrollClicked, startEnroll, enroll, Pages, Ops
    <3>5. CASE onDeleteClicked \/ onTestClicked
      BY <1>2, <3>1, <3>5 DEF onDeleteClicked, onTestClicked, remove, test, Pages, Ops
    <3>6. CASE onGainSliderChanged
      BY <1>1, <3>1, <3>6 DEF onGainSliderChanged, unchangedRun
    <3> QED BY <2>1, <3>3, <3>4, <3>5, <3>6 DEF EnrollmentClick
  <2>2. CASE tab = "settings" /\ onSaveClicked
    <3>1. run("settings", [op |-> "write_config", set |-> savedOverrides]) /\ UNCHANGED conf
      BY <2>2 DEF onSaveClicked, writeConfig, systemVars
    <3>2. "gain" \notin DOMAIN savedOverrides
      BY DEF savedOverrides
    <3> QED BY <1>2, <3>1, <3>2 DEF Pages, Ops
  <2>3. CASE tab = "settings" /\ SettingsClick /\ ~onSaveClicked
    BY <1>1, <2>3 DEF SettingsClick, onRefreshCamerasClicked, onCameraDeviceChanged,
       onCameraDeviceDeclined, onCameraModeChanged, onCameraModeDeclined,
       onConfirmationModeChosen, unchangedBySettings, systemVars
  <2>4. CASE tab = "pam" /\ PamClick
    <3>1. UNCHANGED conf /\ \E cmd : cmd.op \in PamOps /\ run("pam", cmd)
      BY <2>4 DEF PamClick, onActionClicked, enablePam, disablePam, systemVars, PamOps
    <3> QED BY <1>2, <3>1 DEF Pages, Ops, PamOps
  <2> QED BY <1>4, <2>1, <2>2, <2>3, <2>4 DEF Click
<1>5. CASE Tick
  BY <1>1, <1>5 DEF Tick, onPreviewTick, unchangedSystem, unchangedRun
<1>6. ASSUME NEW p \in Pages, Run(p)
      PROVE  (conf' = None \/ FileTyped(conf)') /\ \A q \in Pages : CarriedTyped(q)'
  BY <1>6, HelperTyped DEF Run, FileTyped
<1>7. ASSUME NEW p \in Pages, Dispatch(p)
      PROVE  (conf' = None \/ FileTyped(conf)') /\ \A q \in Pages : CarriedTyped(q)'
  <2>1. UNCHANGED conf /\ Finished(p)
    BY <1>7 DEF Dispatch, onEnrollmentFinished, onSettingsFinished, onPamFinished,
       unchangedSystem, systemVars
  <2>2. /\ helper'[p].at = "idle" /\ helper'[p].cmd.op = "none"
        /\ \A q \in Pages \ {p} : helper'[q] = helper[q]
    BY <2>1, FinishedMoves DEF FilesInv, Processes
  <2>3. helper'[p].answer = "none"
    BY <2>1 DEF Finished, Idle, FilesInv, Processes, Shape
  <2>4. CarriedTyped(p)'
    BY <2>2, <2>3 DEF CarriedTyped, Steps, Ops, Answers
  <2>5. ASSUME NEW q \in Pages \ {p} PROVE CarriedTyped(q)'
    BY <2>1, <2>2 DEF FilesInv, CarriedTyped, FileTyped
  <2> QED BY <2>1, <2>4, <2>5 DEF FilesInv, FileTyped
<1>8. CASE Replug \/ AdminEdit
  BY <1>1, <1>8 DEF Replug, AdminEdit
<1>9. CASE UNCHANGED vars
  BY <1>1, <1>9 DEF vars, sharedVars, systemVars
<1> QED BY <1>3, <1>4, <1>5, <1>6, <1>7, <1>8, <1>9 DEF Next

\* The preview comes up with the gain that is saved, within the slider's bounds.
LEMMA SliderBounds == ASSUME NEW gain \in Int PROVE SliderFor(gain) \in GainMin..GainMax
<1> DEFINE position == IF gain \in ReadsLow THEN gain - 1 ELSE gain
<1>1. position \in Int
  OBVIOUS
<1>2. SliderFor(gain) = IF position < GainMin THEN GainMin
                        ELSE IF position > GainMax THEN GainMax ELSE position
  BY DEF SliderFor
<1> HIDE DEF position
<1> QED BY <1>1, <1>2 DEF GainMin, GainMax

\* Only the preview's own camera is opened or closed, and only a free one is opened.
Previews ==
    \/ UNCHANGED streaming
    \/ streaming' = [streaming EXCEPT !["preview"] = None]
    \/ \E path : /\ \A h \in Holders : streaming[h] # path
                 /\ streaming' = [streaming EXCEPT !["preview"] = path]

LEMMA StartTyped ==
    ASSUME StreamShape, conf = None \/ FileTyped(conf),
           NEW label \in Labels, NEW slider \in GainMin..GainMax, NEW isEnrolled, NEW pending,
           NEW reshown,
           startPreview([label |-> label, slider |-> slider, isEnrolled |-> isEnrolled,
                         pending |-> pending, reshown |-> reshown])
    PROVE  /\ PageShape' /\ page'.label \in Labels /\ page'.slider \in GainMin..GainMax
           /\ page'.pending = pending
           /\ Previews
<1> DEFINE now == [label |-> label, slider |-> slider, isEnrolled |-> isEnrolled,
                   pending |-> pending, reshown |-> reshown]
<1>1. CASE camera_ # None
  BY <1>1 DEF startPreview, PageShape, Previews
<1>2. CASE camera_ = None /\ conf = None
  BY <1>2 DEF startPreview, PageShape, Previews, Labels
<1>3. CASE camera_ = None /\ conf # None
  <2> DEFINE position == SliderFor(load(conf).gain)
             path     == load(conf).path
  <2>1. /\ \/ page' = [now EXCEPT !.slider = position]
           \/ page' = [[now EXCEPT !.slider = position] EXCEPT !.label = "reason"]
        /\ \/ UNCHANGED streaming
           \/ CanOpen(path) /\ streaming' = [streaming EXCEPT !["preview"] = path]
    BY <1>3 DEF startPreview
  <2>2. position \in GainMin..GainMax
    <3>1. load(conf).gain \in Int
      <4>1. "gain" \in DOMAIN defaults /\ defaults["gain"] \in Int
        BY DEF defaults
      <4> QED BY <1>3, <4>1 DEF FileTyped, load
    <3> QED BY <3>1, SliderBounds
  <2> HIDE DEF position, path
  <2>3. PageShape' /\ page'.label \in Labels /\ page'.slider \in GainMin..GainMax
        /\ page'.pending = pending
    BY <2>1, <2>2 DEF PageShape, Labels
  <2>4. Previews
    BY <2>1 DEF Previews, CanOpen
  <2> QED BY <2>3, <2>4
<1> QED BY <1>1, <1>2, <1>3

\* What a page's helper does to the cameras: it opens one that is free, or closes its own.
LEMMA HelperOpens ==
    ASSUME Shape, Scanned, StreamShape, NEW p \in Pages, Helper(p),
           streaming[p] # None <=> helper[p].at = "capture"
    PROVE  /\ \/ UNCHANGED streaming
              \/ streaming' = [streaming EXCEPT ![p] = None]
              \/ \E path : /\ path # None /\ \A h \in Holders : streaming[h] # path
                           /\ streaming' = [streaming EXCEPT ![p] = path]
           /\ streaming'[p] # None <=> helper'[p].at = "capture"
<1>0. p \in Holders
  BY DEF Holders
<1>1. ASSUME NEW answer, End(p, answer)
      PROVE  /\ streaming' = [streaming EXCEPT ![p] = None]
             /\ helper'[p].at = "ended" /\ streaming'[p] = None
  BY <1>0, <1>1, EndIs DEF End, StreamShape
<1>2. ASSUME NEW step, Goto(p, step) PROVE helper'[p].at = step
  BY <1>2, GotoIs
<1>3. CASE Refused(p) \/ Fails(p) \/ Apply(p)
  BY <1>1, <1>3 DEF Refused, Fails, Apply
<1>4. CASE Authorised(p) \/ Truncate(p)
  BY <1>2, <1>4 DEF Authorised, Truncate, systemVars
<1>5. CASE Load(p)
  <2>1. helper[p].at = "load"
    BY <1>5 DEF Load
  <2>2. \/ \E answer : End(p, answer)
        \/ helper'[p].at \in {"truncate", "open"} /\ UNCHANGED streaming
    BY <1>5, LoadIs
  <2> QED BY <1>1, <2>1, <2>2
<1>6. CASE WriteConf(p) \/ WriteConfShort(p)
  <2>1. helper[p].at = "write"
    BY <1>6 DEF WriteConf, WriteConfShort
  <2>2. \/ \E answer : End(p, answer)
        \/ helper'[p].at = "open" /\ UNCHANGED streaming
    BY <1>2, <1>6 DEF WriteConf, WriteConfShort, AfterWrite
  <2> QED BY <1>1, <2>1, <2>2
<1>7. CASE Open(p)
  <2> DEFINE path == helper[p].loaded.config.path
  <2>1. \/ \E answer : End(p, answer)
        \/ /\ CanOpen(path) /\ streaming' = [streaming EXCEPT ![p] = path]
           /\ helper'[p].at = "capture"
    BY <1>2, <1>7 DEF Open
  <2>2. CanOpen(path) => path # None /\ \A h \in Holders : streaming[h] # path
    BY SessionsAssumption DEF CanOpen, Present, Scanned
  <2> HIDE DEF path
  <2> QED BY <1>0, <1>1, <2>1, <2>2 DEF StreamShape
<1>8. CASE Capture(p)
  <2>1. \/ \E answer : End(p, answer)
        \/ helper'[p].at = "apply" /\ streaming' = [streaming EXCEPT ![p] = None]
    BY <1>2, <1>8 DEF Capture
  <2> QED BY <1>0, <1>1, <2>1 DEF StreamShape
<1> QED BY <1>3, <1>4, <1>5, <1>6, <1>7, <1>8 DEF Helper, HelperStep

\* Of one holder that opens a free camera, or closes its own.
LEMMA OneEach ==
    ASSUME StreamShape, NEW h \in Holders,
           \A f, g \in Holders : f # g /\ streaming[f] = streaming[g] => streaming[f] = None,
           \/ UNCHANGED streaming
           \/ streaming' = [streaming EXCEPT ![h] = None]
           \/ \E path : /\ \A g \in Holders : streaming[g] # path
                        /\ streaming' = [streaming EXCEPT ![h] = path]
    PROVE  /\ StreamShape'
           /\ \A f, g \in Holders : f # g /\ streaming'[f] = streaming'[g] => streaming'[f] = None
           /\ \A g \in Holders \ {h} : streaming'[g] = streaming[g]
<1>1. StreamShape' /\ \A g \in Holders \ {h} : streaming'[g] = streaming[g]
  BY DEF StreamShape
<1>2. CASE UNCHANGED streaming
  BY <1>1, <1>2
<1>3. CASE streaming' = [streaming EXCEPT ![h] = None]
  <2>1. streaming'[h] = None
    BY <1>3 DEF StreamShape
  <2> QED BY <1>1, <2>1
<1>4. ASSUME NEW path, \A g \in Holders : streaming[g] # path,
             streaming' = [streaming EXCEPT ![h] = path]
      PROVE  \A f, g \in Holders : f # g /\ streaming'[f] = streaming'[g] => streaming'[f] = None
  <2>1. streaming'[h] = path
    BY <1>4 DEF StreamShape
  <2> QED BY <1>1, <1>4, <2>1
<1> QED BY <1>1, <1>2, <1>3, <1>4

LEMMA PageStep == TypeInv /\ [Next]_vars => PageInv' /\ StreamsInv'
<1> SUFFICES ASSUME TypeInv, [Next]_vars PROVE PageInv' /\ StreamsInv'
  OBVIOUS
<1>0. /\ "enrollment" \in Pages /\ "preview" \in Holders /\ Pages \subseteq Holders
      /\ "preview" \notin Pages
      /\ Processes /\ Shape /\ PageShape /\ StreamShape /\ Scanned
  BY DEF Pages, Holders, TypeInv, FilesInv, Processes, PageInv, StreamsInv, FormInv
<1> DEFINE at == helper["enrollment"].at
           Keeps == \A p \in Pages : helper'[p].at = "capture" <=> helper[p].at = "capture"
\* The cameras, where no helper takes a step.
<1>1. ASSUME Previews, Keeps PROVE StreamsInv'
  <2>1. /\ StreamShape'
        /\ \A f, g \in Holders : f # g /\ streaming'[f] = streaming'[g] => streaming'[f] = None
        /\ \A g \in Holders \ {"preview"} : streaming'[g] = streaming[g]
    BY <1>0, <1>1, OneEach DEF Previews, TypeInv, StreamsInv
  <2> QED BY <1>0, <1>1, <2>1 DEF TypeInv, StreamsInv
<1>2. ASSUME UNCHANGED page, at = "idle" <=> at' = "idle" PROVE PageInv'
  BY <1>2 DEF TypeInv, PageInv, PageShape, isBusy
<1>3. CASE UNCHANGED <<page, streaming, helper>>
  BY <1>1, <1>2, <1>3 DEF Previews
\* A command of another page.
<1>4. ASSUME NEW p \in Pages \ {"enrollment"}, NEW cmd, run(p, cmd), UNCHANGED <<page, streaming>>
      PROVE  PageInv' /\ StreamsInv'
  <2>1. /\ helper[p].at = "idle" /\ helper'[p].at = "prompt"
        /\ \A q \in Pages \ {p} : helper'[q] = helper[q]
    BY <1>0, <1>4, RunMoves
  <2>2. Keeps /\ at' = at
    BY <1>0, <2>1
  <2> QED BY <1>1, <1>2, <1>4, <2>2 DEF Previews
\* One of this page.
<1>5. ASSUME NEW cmd, run("enrollment", cmd), NEW action \in Actions \ {"none"}, pend(action),
             UNCHANGED streaming \/ stopPreview
      PROVE  PageInv' /\ StreamsInv'
  <2>1. /\ helper["enrollment"].at = "idle" /\ helper'["enrollment"].at = "prompt"
        /\ \A q \in Pages \ {"enrollment"} : helper'[q] = helper[q]
    BY <1>0, <1>5, RunMoves
  <2>2. Keeps /\ isBusy("enrollment")'
    BY <1>0, <2>1 DEF isBusy
  <2>3. page' = [page EXCEPT !.pending = action]
    BY <1>5 DEF pend
  <2>4. /\ PageShape' /\ page'.label = page.label /\ page'.slider = page.slider
        /\ page'.pending = action
    BY <1>0, <2>3 DEF PageShape
  <2>5. PageInv'
    BY <1>5, <2>2, <2>4 DEF TypeInv, PageInv
  <2> QED BY <1>1, <1>5, <2>2, <2>5 DEF Previews, stopPreview
<1>6. CASE SwitchTab
  <2>1. CASE showEnrollment
    <3>1. startPreview([label |-> page.label, slider |-> page.slider,
                        isEnrolled |-> page.isEnrolled, pending |-> page.pending,
                        reshown |-> isBusy("enrollment")])
      BY <1>0, <2>1 DEF showEnrollment, PageShape
    <3>2. /\ PageShape' /\ page'.label \in Labels /\ page'.slider \in GainMin..GainMax
          /\ page'.pending = page.pending /\ Previews
      BY <1>0, <3>1, StartTyped DEF TypeInv, PageInv, FilesInv
    <3>3. UNCHANGED helper
      BY <2>1 DEF showEnrollment, unchangedRun
    <3> QED BY <1>1, <3>2, <3>3 DEF TypeInv, PageInv, isBusy
  <2>2. CASE hideEnrollment
    BY <1>1, <1>2, <2>2 DEF hideEnrollment, stopPreview, unchangedRun, Previews
  <2>3. CASE UNCHANGED <<sharedVars, page>>
    BY <1>3, <2>3 DEF sharedVars, systemVars
  <2> QED BY <1>6, <2>1, <2>2, <2>3 DEF SwitchTab, showPam
<1>7. CASE Click
  <2>1. CASE tab = "enrollment" /\ onGainSliderChanged
    <3>1. PICK value \in Gains : page' = [page EXCEPT !.slider = value]
      BY <2>1 DEF onGainSliderChanged
    <3>2. /\ PageShape' /\ page'.label = page.label /\ page'.slider = value
          /\ page'.pending = page.pending
      BY <1>0, <3>1 DEF PageShape
    <3>3. UNCHANGED <<helper, streaming>>
      BY <2>1 DEF onGainSliderChanged, unchangedRun
    <3> QED BY <1>1, <3>2, <3>3, GainsAssumption DEF TypeInv, PageInv, isBusy, Previews
  <2>2. CASE tab = "enrollment" /\ EnrollmentClick /\ ~onGainSliderChanged
    <3>1. {"save_gain", "enroll", "delete", "test"} \subseteq Actions \ {"none"}
      BY DEF Actions
    <3> QED BY <1>5, <2>2, <3>1 DEF EnrollmentClick, onSaveGainClicked, writeConfig,
            onEnrollClicked, startEnroll, enroll, onDeleteClicked, remove, onTestClicked, test,
            yieldCamera
  <2>3. CASE tab = "settings" /\ SettingsClick
    <3>1. UNCHANGED <<page, streaming>>
      BY <1>7, <2>3 DEF Click, SettingsClick, onSaveClicked, onRefreshCamerasClicked,
         onCameraDeviceChanged, onCameraDeviceDeclined, onCameraModeChanged,
         onCameraModeDeclined, onConfirmationModeChosen, unchangedBySettings, systemVars
    <3>2. UNCHANGED helper \/ \E cmd : run("settings", cmd)
      BY <1>0, <1>7, <2>3, ClickMoves
    <3> QED BY <1>3, <1>4, <3>1, <3>2 DEF Pages
  <2>4. CASE tab = "pam" /\ PamClick
    <3>1. UNCHANGED <<page, streaming>>
      BY <1>7, <2>4 DEF Click, PamClick, onActionClicked, systemVars
    <3>2. UNCHANGED helper \/ \E cmd : run("pam", cmd)
      BY <1>0, <1>7, <2>4, ClickMoves
    <3> QED BY <1>3, <1>4, <3>1, <3>2 DEF Pages
  <2> QED BY <1>7, <2>1, <2>2, <2>3, <2>4 DEF Click
<1>8. CASE Tick
  <2>1. UNCHANGED helper /\ Previews
    BY <1>8 DEF Tick, onPreviewTick, unchangedRun, stopPreview, Previews
  <2>2. \E label \in Labels : page' = [page EXCEPT !.label = label]
    BY <1>8 DEF Tick, onPreviewTick, Labels
  <2>3. /\ PageShape' /\ page'.label \in Labels /\ page'.slider = page.slider
        /\ page'.pending = page.pending
    BY <1>0, <2>2 DEF PageShape
  <2> QED BY <1>1, <2>1, <2>3 DEF TypeInv, PageInv, isBusy
<1>9. ASSUME NEW p \in Pages, Run(p) PROVE PageInv' /\ StreamsInv'
  <2>1. /\ UNCHANGED page /\ Helper(p)
        /\ helper[p].at # "idle" /\ helper'[p].at # "idle"
        /\ \A q \in Pages \ {p} : helper'[q] = helper[q]
    BY <1>0, <1>9, HelperMoves DEF Run, Moves
  <2>2. PageInv'
    BY <1>0, <1>2, <2>1
  <2>3. /\ \/ UNCHANGED streaming
           \/ streaming' = [streaming EXCEPT ![p] = None]
           \/ \E path : /\ path # None /\ \A h \in Holders : streaming[h] # path
                        /\ streaming' = [streaming EXCEPT ![p] = path]
        /\ streaming'[p] # None <=> helper'[p].at = "capture"
    BY <1>0, <2>1, HelperOpens DEF TypeInv, StreamsInv
  <2>4. /\ StreamShape'
        /\ \A f, g \in Holders : f # g /\ streaming'[f] = streaming'[g] => streaming'[f] = None
        /\ \A g \in Holders \ {p} : streaming'[g] = streaming[g]
    <3>1. p \in Holders
      BY <1>0
    <3> QED BY <1>0, <2>3, <3>1, OneEach DEF TypeInv, StreamsInv
  <2>5. \A q \in Pages : streaming'[q] # None <=> helper'[q].at = "capture"
    BY <1>0, <2>1, <2>3, <2>4 DEF TypeInv, StreamsInv
  <2> QED BY <2>2, <2>4, <2>5 DEF StreamsInv
<1>10. ASSUME NEW p \in Pages, Dispatch(p) PROVE PageInv' /\ StreamsInv'
  <2>1. Finished(p)
    BY <1>10 DEF Dispatch, onEnrollmentFinished, onSettingsFinished, onPamFinished
  <2>2. /\ helper[p].at = "ended" /\ helper'[p].at = "idle"
        /\ \A q \in Pages \ {p} : helper'[q] = helper[q]
    BY <1>0, <2>1, FinishedMoves DEF Finished
  <2>3. Keeps
    BY <2>2
  <2>4. CASE p = "enrollment"
    <3> DEFINE known == Learned(helper["enrollment"].answer)
               now   == [label |-> page.label, slider |-> page.slider, isEnrolled |-> known,
                         pending |-> "none", reshown |-> FALSE]
    <3>1. startPreview(now) \/ (page' = now /\ UNCHANGED streaming)
      BY <1>10, <2>4 DEF Dispatch, onEnrollmentFinished
    <3>2. ~isBusy("enrollment")'
      BY <2>2, <2>4 DEF isBusy
    <3> HIDE DEF known
    <3>3. CASE startPreview(now)
      <4>1. /\ PageShape' /\ page'.label \in Labels /\ page'.slider \in GainMin..GainMax
            /\ page'.pending = "none" /\ Previews
        BY <1>0, <3>3, StartTyped DEF TypeInv, PageInv, FilesInv
      <4>2. "none" \in Actions
        BY DEF Actions
      <4> QED BY <1>1, <2>3, <3>2, <4>1, <4>2 DEF PageInv
    <3>4. CASE page' = now /\ UNCHANGED streaming
      <4>1. PageShape' /\ page'.label = page.label /\ page'.slider = page.slider
            /\ page'.pending = "none"
        BY <3>4 DEF PageShape
      <4> QED BY <1>1, <2>3, <3>2, <3>4, <4>1 DEF TypeInv, PageInv, Previews, Actions
    <3> QED BY <3>1, <3>3, <3>4
  <2>5. CASE p # "enrollment"
    <3>1. UNCHANGED <<page, streaming>>
      BY <1>10, <2>5 DEF Dispatch, onSettingsFinished, onPamFinished, systemVars
    <3> QED BY <1>0, <1>1, <1>2, <2>2, <2>3, <2>5, <3>1 DEF Previews
  <2> QED BY <2>4, <2>5
<1>11. CASE Replug \/ AdminEdit
  BY <1>3, <1>11 DEF Replug, AdminEdit
<1>12. CASE UNCHANGED vars
  BY <1>3, <1>12 DEF vars, sharedVars, systemVars
<1> QED BY <1>6, <1>7, <1>8, <1>9, <1>10, <1>11, <1>12 DEF Next

\* What the other steps change, one at a time.
LEMMA RestStep == RestInv /\ Scanned /\ [Next]_vars => RestInv'
<1> SUFFICES ASSUME RestInv, Scanned, [Next]_vars PROVE RestInv'
  OBVIOUS
<1>1. CASE UNCHANGED <<enrolled, acked, trouble, service, row, tab>>
  BY <1>1 DEF RestInv
<1>2. CASE SwitchTab
  <2>1. UNCHANGED <<enrolled, acked, trouble, service>>
    BY <1>2 DEF SwitchTab, showEnrollment, hideEnrollment, showPam, sharedVars, systemVars,
       historyVars, unchangedSystem, unchangedRun
  <2>2. tab' \in Pages /\ (row' = row \/ row' = service)
    BY <1>2, SessionsAssumption DEF SwitchTab, showPam, refreshAll, Scanned
  <2> QED BY <2>1, <2>2 DEF RestInv
<1>3. CASE Click
  <2>1. UNCHANGED <<enrolled, service, row, tab>>
    <3>1. CASE tab = "enrollment" /\ EnrollmentClick /\ UNCHANGED <<form, row, stale>>
      BY <1>3, <3>1 DEF Click, EnrollmentClick, onGainSliderChanged, onSaveGainClicked,
         onEnrollClicked, startEnroll, onDeleteClicked, onTestClicked, unchangedSystem, guiVars
    <3>2. CASE tab = "settings" /\ SettingsClick /\ UNCHANGED <<page, row, stale>>
      BY <1>3, <3>2 DEF Click, SettingsClick, onSaveClicked, onRefreshCamerasClicked,
         onCameraDeviceChanged, onCameraDeviceDeclined, onCameraModeChanged,
         onCameraModeDeclined, onConfirmationModeChosen, unchangedBySettings, systemVars, guiVars
    <3>3. CASE tab = "pam" /\ PamClick
      BY <1>3, <3>3 DEF Click, PamClick, onActionClicked, systemVars, guiVars
    <3> QED BY <1>3, <3>1, <3>2, <3>3 DEF Click
  <2>2. acked' \in BOOLEAN
    <3>1. CASE UNCHANGED acked
      BY <3>1 DEF RestInv
    <3>2. CASE tab = "settings" /\ SettingsClick
      BY <3>1, <3>2 DEF SettingsClick, onRefreshCamerasClicked, onCameraDeviceChanged,
         onCameraDeviceDeclined, onCameraModeChanged, onCameraModeDeclined,
         onConfirmationModeChosen, onSaveClicked, confirmed
    <3>3. CASE tab # "settings"
      BY <1>3, <3>1, <3>3 DEF Click, EnrollmentClick, onGainSliderChanged, onSaveGainClicked,
         onEnrollClicked, startEnroll, onDeleteClicked, onTestClicked, unchangedSystem,
         historyVars, PamClick, onActionClicked
    <3> QED BY <1>3, <3>2, <3>3 DEF Click
  <2>3. trouble' \subseteq {"fault", "race"}
    <3>1. UNCHANGED trouble \/ \E p, cmd : run(p, cmd)
      <4>1. CASE EnrollmentClick
        BY <4>1, Zenon DEF EnrollmentClick, onGainSliderChanged, unchangedRun, onSaveGainClicked,
           onEnrollClicked, startEnroll, onDeleteClicked, onTestClicked, writeConfig, enroll,
           remove, test
      <4>2. CASE SettingsClick
        BY <4>2 DEF SettingsClick, onRefreshCamerasClicked, onCameraDeviceChanged,
           onCameraDeviceDeclined, onCameraModeChanged, onCameraModeDeclined,
           onConfirmationModeChosen, onSaveClicked, writeConfig, unchangedBySettings
      <4>3. CASE PamClick
        BY <4>3 DEF PamClick, onActionClicked, enablePam, disablePam
      <4> QED BY <1>3, <4>1, <4>2, <4>3 DEF Click
    <3>2. UNCHANGED trouble \/ trouble' \in {trouble, trouble \cup {"race"}}
      BY <3>1 DEF run
    <3> QED BY <3>2 DEF RestInv
  <2> QED BY <2>1, <2>2, <2>3 DEF RestInv
<1>4. CASE Tick
  BY <1>1, <1>4 DEF Tick, onPreviewTick, unchangedSystem, unchangedRun, historyVars, guiVars
<1>5. ASSUME NEW p \in Pages, Run(p) PROVE RestInv'
  <2>1. Helper(p) /\ UNCHANGED <<row, tab>>
    BY <1>5 DEF Run, guiVars
  <2>2. UNCHANGED acked
    BY <2>1 DEF Helper, HelperStep, Refused, Authorised, Load, Truncate, WriteConf,
       WriteConfShort, Open, Capture, Apply, Fails, unchangedByHelper, historyVars
  <2>3. UNCHANGED trouble \/ trouble' = trouble \cup {"fault"}
    BY <2>1 DEF Helper, HelperStep, Refused, Authorised, Load, Truncate, WriteConf,
       WriteConfShort, Open, Capture, Apply, Fails, undisturbed, Fault
  <2>4. UNCHANGED enrolled \/ enrolled' \in BOOLEAN
    BY <2>1 DEF Helper, HelperStep, Refused, Authorised, Load, Truncate, WriteConf,
       WriteConfShort, Open, Capture, Apply, Fails, systemVars
  <2>5. \/ UNCHANGED service
        \/ \E s : \E state \in States : service' = [service EXCEPT ![s] = state]
    <3>1. CASE Apply(p)
      BY <3>1 DEF Apply, States
    <3>2. CASE ~Apply(p)
      BY <2>1, <3>2 DEF Helper, HelperStep, Refused, Authorised, Load, Truncate, WriteConf,
         WriteConfShort, Open, Capture, Fails, systemVars
    <3> QED BY <3>1, <3>2
  <2> QED BY <2>1, <2>2, <2>3, <2>4, <2>5 DEF RestInv
<1>6. ASSUME NEW p \in Pages, Dispatch(p) PROVE RestInv'
  <2>1. /\ UNCHANGED <<enrolled, acked, trouble, service, tab>>
        /\ row' = row \/ row' = service
    BY <1>6 DEF Dispatch, onEnrollmentFinished, onSettingsFinished, onPamFinished, refreshAll,
       unchangedSystem, systemVars, historyVars, guiVars
  <2> QED BY <2>1 DEF RestInv
<1>7. CASE Replug
  BY <1>1, <1>7 DEF Replug, historyVars, guiVars
<1>8. CASE AdminEdit
  <2>1. /\ UNCHANGED <<enrolled, acked, trouble, row, tab>>
        /\ \E s \in Services : \E state \in States : service' = [service EXCEPT ![s] = state]
    BY <1>8 DEF AdminEdit, historyVars, guiVars
  <2> QED BY <2>1 DEF RestInv
<1>9. CASE UNCHANGED vars
  BY <1>1, <1>9 DEF vars, sharedVars, systemVars, historyVars, guiVars
<1> QED BY <1>2, <1>3, <1>4, <1>5, <1>6, <1>7, <1>8, <1>9 DEF Next

LEMMA TypeStep == TypeInv /\ [Next]_vars => TypeInv'
BY FormStep, FilesStep, PageStep, RestStep DEF TypeInv, FormInv

LEMMA TypeOpens == Init => TypeInv
<1> SUFFICES ASSUME Init PROVE TypeInv
  OBVIOUS
<1>1. FormInv
  <2> DEFINE blank  == Blank(Configuration)
             config == Configuration
  <2>1. Scanned /\ FormShape(blank) /\ form = populated(blank, config) /\ config.mode \in CamModes
    BY FormOpens
  <2>2. IsFiniteSet(plugged)
    BY <2>1, PluggedNodes DEF AreNodes
  <2> HIDE DEF blank, config
  <2>3. FormOk(form)
    BY <2>1, <2>2, PopulatedIsOk
  <2> QED BY <2>1, <2>3 DEF FormInv, FormOk, Shown
<1>2. \A p \in Pages : helper[p] = Idle
  BY DEF Init
<1>3. FilesInv
  <2>1. conf = None \/ FileTyped(conf)
    <3> SUFFICES ASSUME conf # None PROVE FileTyped(conf)
      OBVIOUS
    <3>1. DOMAIN conf \subseteq DOMAIN defaults /\ load(conf).gain \in Int
      BY SessionsAssumption DEF Init
    <3>2. "gain" \in DOMAIN conf => conf["gain"] = load(conf)["gain"]
      <4>1. "gain" \in DOMAIN defaults
        BY DEF defaults
      <4> QED BY <4>1 DEF load
    <3> QED BY <3>1, <3>2 DEF FileTyped
  <2>2. \A p \in Pages : CarriedTyped(p)
    BY <1>2 DEF Idle, CarriedTyped, Steps, Ops, Answers
  <2> QED BY <2>1, <2>2, InitProcesses DEF FilesInv
<1>4. StreamsInv
  BY <1>2 DEF Init, StreamsInv, StreamShape, Idle, Holders
<1>5. PageInv
  <2>1. page = [label |-> "unavailable", slider |-> 100, isEnrolled |-> FALSE,
                pending |-> "none", reshown |-> FALSE]
    BY DEF Init, PageInit
  <2>2. ~isBusy("enrollment")
    BY <1>2 DEF isBusy, Idle, Pages
  <2> QED BY <2>1, <2>2 DEF PageInv, PageShape, Labels, Actions, GainMin, GainMax
<1>6. RestInv
  <2>1. service \in [Services -> States]
    BY DEF Init, States
  <2>2. acked \in BOOLEAN
    BY DEF Init
  <2> QED BY <2>1, <2>2 DEF Init, RestInv, PamInit
<1> QED BY <1>1, <1>3, <1>4, <1>5, <1>6 DEF TypeInv

\* For all cameras, files, services and bounds, every variable of the window, its pages and
\* their helpers has its type: a camera is streamed by one holder, who captures or previews;
\* a page waits for an answer exactly while its helper runs; and the form shows one of its
\* cameras, in a mode that it has.
THEOREM GuiTyping == Spec => []TypeOK
<1>1. TypeInv => TypeOK
  <2> SUFFICES ASSUME TypeInv PROVE TypeOK
    OBVIOUS
  <2>1. form.mode \in CamModes \cup {NoMode} /\ (form.mode = NoMode <=> Offered(Shown) = {})
    <3>1. NoMode \notin CamModes
      BY DEF NoMode, CamModes
    <3> QED BY <3>1 DEF TypeInv, FormInv, selectCameraMode, Offered, CamModes
  <2>2. conf = None \/ DOMAIN conf \subseteq DOMAIN defaults
    BY DEF TypeInv, FilesInv, FileTyped
  <2>3. DOMAIN streaming = Holders
    BY DEF TypeInv, StreamsInv, StreamShape
  <2> QED BY <2>1, <2>2, <2>3 DEF TypeInv, FormInv, FilesInv, CarriedTyped, StreamsInv, PageInv,
          RestInv, TypeOK
<1> QED BY <1>1, TypeOpens, TypeStep, PTL DEF Spec

-----------------------------------------------------------------------------
(* What is saved                                                             *)

StreamKeys == {"path", "format", "mode", "size"}

\* What is taken of the sessions where infrared and colour are to be told apart.
OrdinarySessions == \A s \in Sessions : WholeCameras(s) /\ ModeIsTold(s)

\* Every camera whose colour stream has the path has nothing else.
RgbOnly(path) ==
    OrdinarySessions =>
    \A nodes \in session.scans : \A i \in DOMAIN listCameras(nodes) :
        LET camera == listCameras(nodes)[i] IN
        camera.rgb # None /\ camera.rgb.path = path => camera.ir = None

\* Whoever looks for the infrared stream does not come upon the colour stream of a camera
\* that has both.
IrSafe(stream) ==
    OrdinarySessions =>
    \A nodes \in session.scans : \A i \in DOMAIN listCameras(nodes) :
        LET camera == listCameras(nodes)[i] IN
        camera.rgb # None /\ camera.rgb.path = stream.path /\ camera.ir # None =>
            camera.ir.path = stream.path /\ stream.format # "YUYV"

\* In this mode the stream is what a node gives, or what the first file said.
Known(stream, mode) ==
    \/ /\ session.conf # None
       /\ stream.path = load(session.conf).path /\ stream.format = load(session.conf).format
       /\ stream.size = load(session.conf).size /\ mode = load(session.conf).mode
    \/ \E n \in UNION session.scans : \E i \in DOMAIN n.sizes[stream.format] :
         /\ n.path = stream.path /\ n.sizes[stream.format][i].size = stream.size
         /\ mode = IF stream.format = "YUYV" THEN "rgb" ELSE "ir"

\* A configuration with a stream, and one with a mode that nobody need be asked about.
OneStream(config) == config.path # NoPath => Known(config, config.mode)
RgbSound(config)  == config.mode = "rgb" => acked \/ RgbOnly(config.path)

\* An override names no part of a stream, or all of one.
SetSound(set) ==
    \/ StreamKeys \cap DOMAIN set = {}
    \/ StreamKeys \subseteq DOMAIN set /\ RgbSound(set) /\ OneStream(set)

CameraSound(camera) ==
    /\ \A m \in CamModes : camera[m] # None => camera[m].path # NoPath /\ Known(camera[m], m)
    /\ camera.ir # None => IrSafe(camera.ir)

OffersInv ==
    /\ FormInv
    /\ \A i \in DOMAIN form.cameras : CameraSound(form.cameras[i])
    /\ form.mode = "rgb" => acked \/ RgbOnly(Shown.rgb.path)

\* A node's stream is known, and a path that a node has.
LEMMA GivenIsKnown ==
    ASSUME Scanned, NEW stream, NEW mode \in CamModes,
           Gives(plugged, stream, IF mode = "rgb" THEN "YUYV" ELSE "GREY")
    PROVE  stream.path # NoPath /\ Known(stream, mode)
<1> DEFINE format == IF mode = "rgb" THEN "YUYV" ELSE "GREY"
<1>1. PICK n \in plugged : \E i \in DOMAIN n.sizes[format] :
        /\ stream.path = n.path /\ stream.format = format
        /\ stream.size = n.sizes[format][i].size
  BY DEF Gives
<1>2. n \in UNION session.scans /\ n.path # NoPath
  BY SessionsAssumption DEF Scanned
<1>3. mode = IF format = "YUYV" THEN "rgb" ELSE "ir"
  BY DEF CamModes
<1> HIDE DEF format
<1> QED BY <1>1, <1>2, <1>3 DEF Known

\* What a scan offers is sound, and one that offers only colour is known for that.
LEMMA ScannedIsSound ==
    ASSUME Scanned, NEW j \in DOMAIN listCameras(plugged),
           NEW camera, camera = listCameras(plugged)[j]
    PROVE  /\ CameraSound(camera)
           /\ camera.ir = None /\ camera.rgb # None => RgbOnly(camera.rgb.path)
<1>1. /\ camera.ir # None  => Gives(plugged, camera.ir, "GREY")
      /\ camera.rgb # None => Gives(plugged, camera.rgb, "YUYV")
  BY PluggedNodes, CameraIsGiven
<1>2. /\ camera["ir"]  # None => camera["ir"].path # NoPath /\ Known(camera["ir"], "ir")
      /\ camera["rgb"] # None => camera["rgb"].path # NoPath /\ Known(camera["rgb"], "rgb")
  BY <1>1, GivenIsKnown DEF CamModes
<1>3. ASSUME OrdinarySessions, NEW nodes \in session.scans, NEW i \in DOMAIN listCameras(nodes),
             NEW m \in CamModes, NEW o \in CamModes, camera[m] # None,
             listCameras(nodes)[i][o] # None, camera[m].path = listCameras(nodes)[i][o].path
      PROVE  listCameras(nodes)[i] = camera
  <2>1. WholeCameras(session)
    BY <1>3 DEF OrdinarySessions, Scanned
  <2> QED BY <1>3, <2>1 DEF WholeCameras, Scanned
<1>4. camera.ir = None /\ camera.rgb # None => RgbOnly(camera.rgb.path)
  BY <1>3 DEF RgbOnly, CamModes
<1>5. camera.ir # None => IrSafe(camera.ir)
  <2>1. camera.ir # None => camera.ir.format = "GREY"
    BY <1>1 DEF Gives
  <2> QED BY <1>3, <2>1 DEF IrSafe, CamModes
<1> QED BY <1>2, <1>4, <1>5 DEF CameraSound, CamModes

\* Whoever is sought: a known stream, in a mode that nobody need be asked about.
WantSound(want) ==
    /\ want.mode \in CamModes
    /\ want.path # NoPath => Known(Want(want), want.mode)
    /\ want.path # NoPath /\ want.mode = "ir" => IrSafe(Want(want))
    /\ want.mode = "rgb" => acked \/ (want.path # NoPath /\ RgbOnly(want.path))

LEMMA PopulatedIsSound ==
    ASSUME Scanned, NEW now, FormShape(now), NEW want, WantSound(want),
           NEW next, next = populated(now, want)
    PROVE  /\ \A i \in DOMAIN next.cameras : CameraSound(next.cameras[i])
           /\ next.mode = "rgb" => acked \/ RgbOnly(next.cameras[next.device].rgb.path)
<1> DEFINE s      == selectCameraDevice(listCameras(plugged), want)
           camera == s.devices[s.index]
<1>0. /\ next.cameras = s.devices /\ next.device = s.index
      /\ next.mode = selectCameraMode(camera, s.mode)
  BY PopulatedShows
<1>1. /\ s.index \in DOMAIN s.devices /\ s.mode \in CamModes
      /\ \A i \in DOMAIN s.devices :
           \/ \E j \in DOMAIN listCameras(plugged) : s.devices[i] = listCameras(plugged)[j]
           \/ s.devices[i] = NoCamera
           \/ want.path # NoPath /\ s.devices[i] = NotDetected(want)
      /\ \/ want.path = NoPath /\ s.mode = want.mode
         \/ want.path # NoPath /\ s.mode = want.mode /\ camera = NotDetected(want)
         \/ /\ want.path # NoPath
            /\ \E j \in DOMAIN listCameras(plugged) : camera = listCameras(plugged)[j]
            /\ s.mode \in ModesAt(camera, want.path)
            /\ ModesAt(camera, want.path) = CamModes =>
                 s.mode = IF want.format = "YUYV" THEN "rgb" ELSE "ir"
  <2>1. IsFiniteSet(plugged)
    BY PluggedNodes DEF AreNodes
  <2> QED BY <2>1, SelectionGives DEF WantSound
<1> HIDE DEF s
<1>2. ASSUME NEW j \in DOMAIN listCameras(plugged), NEW c, c = listCameras(plugged)[j]
      PROVE  CameraSound(c) /\ (c.ir = None /\ c.rgb # None => RgbOnly(c.rgb.path))
  BY <1>2, ScannedIsSound
<1>3. CameraSound(NoCamera)
  BY DEF NoCamera, CameraSound, CamModes
<1>4. /\ want.path # NoPath => CameraSound(NotDetected(want))
      /\ NotDetected(want).ir = IF want.mode = "ir" THEN Want(want) ELSE None
      /\ NotDetected(want).rgb = IF want.mode = "rgb" THEN Want(want) ELSE None
  <2>1. Want(want).path = want.path
    BY DEF Want
  <2>2. \A m \in CamModes : NotDetected(want)[m] = IF m = want.mode THEN Want(want) ELSE None
    BY AbsentEntry DEF WantSound
  <2>3. /\ NotDetected(want).ir = IF want.mode = "ir" THEN Want(want) ELSE None
        /\ NotDetected(want).rgb = IF want.mode = "rgb" THEN Want(want) ELSE None
    BY <2>2 DEF CamModes
  <2> QED BY <2>1, <2>2, <2>3 DEF CameraSound, WantSound
<1>5. \A i \in DOMAIN next.cameras : CameraSound(next.cameras[i])
  BY <1>0, <1>1, <1>2, <1>3, <1>4
<1>6. ASSUME next.mode = "rgb", ~acked PROVE RgbOnly(camera.rgb.path)
  <2>0. camera.rgb # None /\ (s.mode = "rgb" \/ camera.ir = None)
    BY <1>0, <1>1, <1>6 DEF selectCameraMode, Offered, CamModes, NoMode
  <2>1. CASE want.path = NoPath /\ s.mode = want.mode
    <3>1. camera.ir = None
      BY <1>6, <2>0, <2>1 DEF WantSound
    <3>2. \E j \in DOMAIN listCameras(plugged) : camera = listCameras(plugged)[j]
      BY <1>1, <2>0, <2>1 DEF NoCamera
    <3> QED BY <1>2, <2>0, <3>1, <3>2
  <2>2. CASE want.path # NoPath /\ s.mode = want.mode /\ camera = NotDetected(want)
    <3>1. want.mode = "rgb" /\ camera.rgb = Want(want)
      BY <1>4, <2>0, <2>2
    <3>2. camera.rgb.path = want.path
      BY <3>1 DEF Want
    <3> QED BY <1>6, <3>1, <3>2 DEF WantSound
  <2>3. CASE /\ want.path # NoPath
             /\ \E j \in DOMAIN listCameras(plugged) : camera = listCameras(plugged)[j]
             /\ s.mode \in ModesAt(camera, want.path)
             /\ ModesAt(camera, want.path) = CamModes =>
                  s.mode = IF want.format = "YUYV" THEN "rgb" ELSE "ir"
    <3>1. s.mode = "rgb" /\ camera.rgb.path = want.path
      BY <2>0, <2>3 DEF ModesAt, CamModes
    <3>2. CASE want.mode = "rgb"
      BY <1>6, <3>1, <3>2 DEF WantSound
    <3>3. CASE want.mode = "ir"
      <4>1. IrSafe(Want(want)) /\ Want(want).path = want.path /\ Want(want).format = want.format
        BY <2>3, <3>3 DEF WantSound, Want
      <4>2. ASSUME OrdinarySessions PROVE camera.ir = None
        <5>1. camera.ir # None => camera.ir.path = want.path /\ want.format # "YUYV"
          BY <2>0, <2>3, <3>1, <4>1, <4>2 DEF IrSafe, Scanned
        <5>2. camera.ir # None => ModesAt(camera, want.path) = CamModes
          BY <2>0, <3>1, <5>1 DEF ModesAt, CamModes
        <5> QED BY <2>3, <3>1, <5>1, <5>2
      <4>3. OrdinarySessions => RgbOnly(camera.rgb.path)
        BY <1>2, <2>0, <2>3, <4>2
      <4> QED BY <4>3 DEF RgbOnly
    <3> QED BY <3>2, <3>3 DEF WantSound, CamModes
  <2> QED BY <1>1, <2>1, <2>2, <2>3
<1> QED BY <1>0, <1>5, <1>6

LEMMA SessionStays == [Next]_vars => UNCHANGED session
BY DEF Next, SwitchTab, Click, Tick, Run, Dispatch, Replug, AdminEdit, vars, guiVars

\* What is sound stays so in the session.
LEMMA SoundStays ==
    ASSUME UNCHANGED session, acked => acked', NEW x, NEW mode
    PROVE  /\ CameraSound(x) => CameraSound(x)'
           /\ RgbOnly(x) => RgbOnly(x)'
           /\ Known(x, mode) => Known(x, mode)'
           /\ OneStream(x) => OneStream(x)'
           /\ RgbSound(x) => RgbSound(x)'
           /\ SetSound(x) => SetSound(x)'
<1>1. Known(x, mode) => Known(x, mode)'
  BY DEF Known
<1>2. RgbOnly(x) => RgbOnly(x)'
  BY DEF RgbOnly
<1>3. OneStream(x) => OneStream(x)'
  BY DEF OneStream, Known
<1>4. RgbSound(x) => RgbSound(x)'
  BY DEF RgbSound, RgbOnly
<1>5. SetSound(x) => SetSound(x)'
  BY <1>3, <1>4 DEF SetSound
<1>6. CameraSound(x) => CameraSound(x)'
  <2>1. \A m \in CamModes : Known(x[m], m) => Known(x[m], m)'
    BY DEF Known
  <2>2. IrSafe(x.ir) => IrSafe(x.ir)'
    BY DEF IrSafe
  <2> QED BY <2>1, <2>2 DEF CameraSound
<1> QED BY <1>1, <1>2, <1>3, <1>4, <1>5, <1>6

\* An acknowledgement is not taken back.
LEMMA AckedStays == [Next]_vars /\ acked => acked'
<1> SUFFICES ASSUME [Next]_vars, acked PROVE acked'
  OBVIOUS
<1>1. CASE UNCHANGED acked
  BY <1>1
<1>2. CASE Click /\ tab = "settings"
  BY <1>2 DEF Click, SettingsClick, onRefreshCamerasClicked, onCameraDeviceChanged,
     onCameraDeviceDeclined, onCameraModeChanged, onCameraModeDeclined,
     onConfirmationModeChosen, onSaveClicked, confirmed
<1>3. CASE Click /\ tab # "settings"
  BY <1>3 DEF Click, EnrollmentClick, onGainSliderChanged, onSaveGainClicked, onEnrollClicked,
     startEnroll, onDeleteClicked, onTestClicked, unchangedSystem, historyVars, PamClick,
     onActionClicked
<1>4. ASSUME NEW p \in Pages, Run(p) PROVE UNCHANGED acked
  BY <1>4 DEF Run, Helper, HelperStep, Refused, Authorised, Load, Truncate, WriteConf,
     WriteConfShort, Open, Capture, Apply, Fails, unchangedByHelper, historyVars
<1>5. CASE SwitchTab \/ Tick \/ Replug \/ AdminEdit \/ UNCHANGED vars
  BY <1>1, <1>5 DEF SwitchTab, showEnrollment, hideEnrollment, showPam, Tick, onPreviewTick,
     unchangedSystem, sharedVars, historyVars, Replug, AdminEdit, vars
<1>6. ASSUME NEW p \in Pages, Dispatch(p) PROVE UNCHANGED acked
  BY <1>6 DEF Dispatch, onEnrollmentFinished, onSettingsFinished, onPamFinished, unchangedSystem,
     historyVars
<1> QED BY <1>1, <1>2, <1>3, <1>4, <1>5, <1>6 DEF Next

LEMMA OffersOpen == Init => OffersInv
<1> SUFFICES ASSUME Init PROVE OffersInv
  OBVIOUS
<1> DEFINE blank == Blank(Configuration)
           config == Configuration
<1>1. Scanned /\ FormShape(blank) /\ form = populated(blank, config) /\ config.mode \in CamModes
  BY FormOpens
<1>2. FormOk(form)
  <2>1. IsFiniteSet(plugged)
    BY <1>1, PluggedNodes DEF AreNodes
  <2> HIDE DEF blank, config
  <2> QED BY <1>1, <2>1, PopulatedIsOk
<1>3. WantSound(config)
  <2>1. CASE conf = None
    BY <2>1 DEF Configuration, WantSound, defaults, NoPath, CamModes
  <2>2. CASE conf # None
    <3>1. session.conf # None /\ config = load(session.conf)
      BY <2>2 DEF Init, Configuration
    <3>2. Want(config).path = config.path /\ Want(config).format = config.format
          /\ Want(config).size = config.size
      BY DEF Want
    <3> HIDE DEF config
    <3>3. Known(Want(config), config.mode)
      BY <3>1, <3>2 DEF Known
    <3>4. config.mode = "rgb" => acked
      BY <2>2, <3>1 DEF Init
    <3>5. config.mode = "ir" => IrSafe(Want(config))
      <4> SUFFICES ASSUME config.mode = "ir", OrdinarySessions,
                          NEW nodes \in session.scans, NEW i \in DOMAIN listCameras(nodes)
                   PROVE  LET camera == listCameras(nodes)[i] IN
                          camera.rgb # None /\ camera.rgb.path = config.path /\ camera.ir # None
                            => camera.ir.path = config.path /\ config.format # "YUYV"
        BY <3>2 DEF IrSafe
      <4>1. ModeIsTold(session)
        BY <1>1 DEF OrdinarySessions, Scanned
      <4> QED BY <3>1, <4>1 DEF ModeIsTold
    <3> QED BY <1>1, <3>3, <3>4, <3>5 DEF WantSound, config
  <2> QED BY <2>1, <2>2
<1>4. /\ \A i \in DOMAIN form.cameras : CameraSound(form.cameras[i])
      /\ form.mode = "rgb" => acked \/ RgbOnly(form.cameras[form.device].rgb.path)
  <2> HIDE DEF blank, config
  <2> QED BY <1>1, <1>3, PopulatedIsSound
<1> QED BY <1>1, <1>2, <1>4 DEF OffersInv, FormInv, FormOk, Shown

LEMMA OffersStep == OffersInv /\ [Next]_vars => OffersInv'
<1> SUFFICES ASSUME OffersInv, [Next]_vars
             PROVE  /\ \A i \in DOMAIN form'.cameras : CameraSound(form.cameras[i])'
                    /\ form'.mode = "rgb" => acked' \/ RgbOnly(Shown.rgb.path)'
  BY FormStep DEF OffersInv
<1> DEFINE Fine == /\ \A i \in DOMAIN form'.cameras : CameraSound(form'.cameras[i])
                   /\ form'.mode = "rgb" =>
                        acked' \/ RgbOnly(form'.cameras[form'.device].rgb.path)
<1>0. ASSUME Fine
      PROVE  /\ \A i \in DOMAIN form'.cameras : CameraSound(form.cameras[i])'
             /\ form'.mode = "rgb" => acked' \/ RgbOnly(Shown.rgb.path)'
  <2>1. UNCHANGED session /\ (acked => acked')
    BY SessionStays, AckedStays
  <2>2. \A x : CameraSound(x) => CameraSound(x)'
    BY <2>1, SoundStays
  <2>3. \A x : RgbOnly(x) => RgbOnly(x)'
    BY <2>1, SoundStays
  <2>4. \A i \in DOMAIN form'.cameras : CameraSound(form.cameras[i])'
    <3> SUFFICES ASSUME NEW i \in DOMAIN form'.cameras PROVE CameraSound(form.cameras[i])'
      OBVIOUS
    <3>1. PICK c : c = form'.cameras[i]
      OBVIOUS
    <3>2. CameraSound(c)'
      BY <1>0, <2>2, <3>1
    <3> QED BY <3>1, <3>2
  <2>5. form'.mode = "rgb" => acked' \/ RgbOnly(Shown.rgb.path)'
    <3>1. PICK path : path = Shown'.rgb.path
      OBVIOUS
    <3>2. form'.mode = "rgb" => acked' \/ RgbOnly(path)
      BY <1>0, <3>1 DEF Shown
    <3>3. RgbOnly(path) => RgbOnly(path)'
      BY <2>3
    <3> QED BY <3>1, <3>2, <3>3
  <2> QED BY <2>4, <2>5
<1> SUFFICES Fine
  BY <1>0
<1>1. CASE UNCHANGED form
  BY <1>1, AckedStays DEF OffersInv, Shown
<1>2. CASE Click /\ tab = "settings"
  <2>0. SettingsClick /\ FormInv
    BY <1>2 DEF Click, OffersInv
  <2>1. CASE onRefreshCamerasClicked
    <3>1. form' = populated(form, Sought) /\ FormShape(form) /\ UNCHANGED acked
      BY <2>0, <2>1, FormSeeks DEF FormInv, onRefreshCamerasClicked
    <3>2. WantSound(Sought)
      <4>1. CASE shownStream = None
        <5>1. Sought = defaults
          BY <2>0, <2>1, <4>1, FormSeeks
        <5> QED BY <5>1 DEF WantSound, defaults, NoPath, CamModes
      <4>2. CASE shownStream # None
        <5>1. /\ form.mode \in CamModes /\ shownStream = Shown[form.mode]
              /\ Sought.mode = form.mode /\ Want(Sought) = shownStream
          BY <2>0, <2>1, <4>2, FormSeeks
        <5>2. Sought.path = shownStream.path
          BY <5>1 DEF Want
        <5>3. CameraSound(Shown)
          BY <2>0 DEF OffersInv, FormInv, Shown
        <5>4. Sought.path # NoPath /\ Known(Want(Sought), Sought.mode)
          BY <4>2, <5>1, <5>2, <5>3 DEF CameraSound
        <5>5. Sought.mode = "ir" => IrSafe(Want(Sought))
          BY <4>2, <5>1, <5>3 DEF CameraSound
        <5>6. Sought.mode = "rgb" => acked \/ RgbOnly(Sought.path)
          BY <5>1, <5>2 DEF OffersInv
        <5> QED BY <5>1, <5>4, <5>5, <5>6 DEF WantSound
      <4> QED BY <4>1, <4>2
    <3> QED BY <2>0, <3>1, <3>2, PopulatedIsSound DEF FormInv
  <2>2. CASE onCameraDeviceChanged
    <3>1. PICK i \in DOMAIN form.cameras :
            LET desired == resolveModeForDeviceChange(form.cameras[i], form.sureMode) IN
            /\ form'.cameras = form.cameras /\ form'.device = i
            /\ form'.mode = selectCameraMode(form.cameras[i], desired)
            /\ IF desired = "rgb" THEN acked' = TRUE ELSE UNCHANGED acked
      BY <2>0, <2>2, DeviceChanges
    <3>2. form'.mode = "rgb" => acked'
      BY <2>0, <3>1 DEF FormInv, resolveModeForDeviceChange, selectCameraMode, Offered, CamModes,
         NoMode
    <3> QED BY <3>1, <3>2 DEF OffersInv
  <2>3. CASE onCameraModeChanged
    <3>1. PICK mode \in Offered(Shown) :
            /\ form'.cameras = form.cameras /\ form'.mode = mode
            /\ IF mode = "rgb" THEN acked' = TRUE ELSE UNCHANGED acked
      BY <2>0, <2>3, ModeChanges
    <3> QED BY <3>1 DEF OffersInv
  <2>4. CASE ~onRefreshCamerasClicked /\ ~onCameraDeviceChanged /\ ~onCameraModeChanged
    <3>1. /\ form'.cameras = form.cameras /\ form'.device = form.device
          /\ form'.mode = form.mode /\ UNCHANGED acked
      BY <2>0, <2>4, OthersLeave DEF SettingsClick
    <3> QED BY <3>1 DEF OffersInv, Shown
  <2> QED BY <2>1, <2>2, <2>3, <2>4
<1>3. CASE ~(Click /\ tab = "settings")
  BY <1>1, <1>3 DEF Next, Click, SwitchTab, Tick, Run, Dispatch, onSettingsFinished, Replug,
     AdminEdit, vars
<1> QED BY <1>2, <1>3

\* One writer: the file is empty when it writes, and the mode that an enrolment was given
\* is still the one in the file.
OneWriter ==
    /\ \A p, q \in Pages : helper[p].cmd.op \in Writers /\ helper[q].cmd.op \in Writers => p = q
    /\ \A p \in Pages :
         /\ helper[p].at = "write" => conf = Empty
         /\ helper[p].cmd.op = "enroll" /\ helper[p].at \in {"prompt", "load"} /\ conf # None =>
              helper[p].cmd.mode = load(conf).mode

\* As long as no two commands have the file at a time, what is in it, and what a writer is
\* about to put there, is one stream, and no RGB that nobody was asked about.
Sound(config) == RgbSound(config) /\ (trouble = {} => OneStream(config))

SavedInv ==
    /\ OffersInv /\ TypeInv
    /\ \A p \in Pages : helper[p].cmd.op = "write_config" => SetSound(helper[p].cmd.set)
    /\ "race" \notin trouble =>
         /\ OneWriter /\ Sound(Saved)
         /\ \A p \in Pages :
              helper[p].at \in {"truncate", "write"} => Sound(helper[p].loaded.config)

LEMMA StreamKeysKnown == StreamKeys \subseteq DOMAIN defaults
BY DEF StreamKeys, defaults

\* Only the four keys count.
LEMMA SameStream ==
    ASSUME NEW c, NEW d, \A k \in StreamKeys : c[k] = d[k], Sound(c)
    PROVE  Sound(d)
<1>1. c.path = d.path /\ c.format = d.format /\ c.mode = d.mode /\ c.size = d.size
  BY DEF StreamKeys
<1> QED BY <1>1 DEF Sound, RgbSound, OneStream, Known

LEMMA DefaultsAreSound == Sound(defaults)
BY DEF defaults, NoPath, Sound, RgbSound, OneStream

LEMMA SoundRemains ==
    ASSUME UNCHANGED session, acked => acked', trouble' = {} => trouble = {}, NEW x, Sound(x)
    PROVE  Sound(x)'
BY SoundStays DEF Sound

LEMMA LoadedKeys ==
    ASSUME NEW file
    PROVE  \A k \in StreamKeys : load(file)[k] = IF k \in DOMAIN file THEN file[k] ELSE defaults[k]
BY StreamKeysKnown DEF load

\* What a writer gathers.
LEMMA ConfiguredIsSound ==
    ASSUME SavedInv, "race" \notin trouble, NEW p \in Pages, helper[p].at = "load",
           helper[p].cmd.op \in Writers, Precheck(helper[p].cmd) = None
    PROVE  Sound(Configured(helper[p].cmd))
<1> DEFINE cmd == helper[p].cmd
           config == Configured(cmd)
<1>0. Sound(Saved) /\ OneWriter
  BY DEF SavedInv
<1>1. CASE cmd.op = "enroll"
  <2>1. conf # None
    BY <1>1, NoneAssumption DEF Precheck, Answers
  <2>2. Saved = load(conf) /\ cmd.mode = load(conf).mode
    BY <1>0, <1>1, <2>1 DEF OneWriter, Saved
  <2> DEFINE old == load(conf)
             mode == cmd.mode
             gain == cmd.gain
  <2>3. config = [old EXCEPT !.mode = mode, !.gain = gain]
    BY <1>1 DEF Configured
  <2>4. StreamKeys \subseteq DOMAIN old /\ old["mode"] = mode
    BY <2>2, StreamKeysKnown DEF load
  <2> HIDE DEF old, mode, gain, config
  <2>5. \A k \in StreamKeys : old[k] = config[k]
    BY <2>3, <2>4 DEF StreamKeys
  <2> QED BY <1>0, <2>2, <2>5, SameStream DEF old, config
<1>2. CASE cmd.op = "write_config"
  <2> DEFINE old == IF conf = None THEN defaults ELSE load(conf)
             set == cmd.set
  <2>1. config = [k \in DOMAIN old |-> IF k \in DOMAIN set THEN set[k] ELSE old[k]]
    BY <1>2 DEF Configured, applyConfigOverrides
  <2>2. old = Saved /\ SetSound(set)
    BY <1>2 DEF Saved, SavedInv
  <2>3. StreamKeys \subseteq DOMAIN old
    BY StreamKeysKnown DEF load
  <2> HIDE DEF old, set, config
  <2>4. CASE StreamKeys \cap DOMAIN set = {}
    <3>1. \A k \in StreamKeys : old[k] = config[k]
      BY <2>1, <2>3, <2>4
    <3> QED BY <1>0, <2>2, <3>1, SameStream DEF config
  <2>5. CASE StreamKeys \subseteq DOMAIN set /\ RgbSound(set) /\ OneStream(set)
    <3>1. \A k \in StreamKeys : set[k] = config[k]
      BY <2>1, <2>3, <2>5
    <3> QED BY <2>5, <3>1, SameStream DEF Sound, config
  <2> QED BY <2>2, <2>4, <2>5 DEF SetSound
<1> QED BY <1>1, <1>2 DEF Writers

\* What it leaves in the file that it has emptied, all of it or only the first lines.
AsRead(written) == IF written = None THEN defaults ELSE load(written)

LEMMA WrittenIsSound ==
    ASSUME NEW config, DOMAIN config = DOMAIN defaults, NEW written, Sound(config),
           written = serialize(config)
    PROVE  Sound(AsRead(written))
<1>1. /\ \A k \in DOMAIN written : written[k] = config[k]
      /\ StreamKeys \subseteq DOMAIN written
  <2>1. Len(ConfigKeys) = 7
    BY DEF ConfigKeys
  <2>2. \A k \in StreamKeys : \E i \in 1..7 : k = ConfigKeys[i]
    BY DEF StreamKeys, ConfigKeys
  <2> QED BY <2>1, <2>2 DEF serialize, FirstLines
<1>2. CASE written = None
  BY <1>2, DefaultsAreSound DEF AsRead
<1>3. CASE written # None
  <2>1. AsRead(written) = load(written)
    BY <1>3 DEF AsRead
  <2> DEFINE saved == load(written)
  <2>2. \A k \in StreamKeys : config[k] = saved[k]
    BY <1>1, LoadedKeys
  <2> HIDE DEF saved
  <2>3. Sound(saved)
    BY <2>2, SameStream
  <2> QED BY <2>1, <2>3 DEF saved
<1> QED BY <1>2, <1>3

LEMMA TornIsSound ==
    ASSUME NEW config, DOMAIN config = DOMAIN defaults, NEW written, RgbSound(config),
           NEW n \in TornAt, written = FirstLines(config, n)
    PROVE  RgbSound(AsRead(written))
<1> DEFINE keys == {ConfigKeys[i] : i \in 1..n}
           saved == load(written)
<1>1. DOMAIN written = keys /\ \A k \in keys : written[k] = config[k]
  BY DEF FirstLines
<1>2. n \in Nat /\ n <= 7
  BY TornAssumption DEF ConfigKeys
<1>3. "mode" \in keys => "path" \in keys
  <2>1. ASSUME NEW i \in 1..7, ConfigKeys[i] = "mode" PROVE i = 3
    BY <2>1 DEF ConfigKeys
  <2>2. "mode" \in keys => n >= 3
    BY <1>2, <2>1
  <2>3. ConfigKeys[1] = "path"
    BY DEF ConfigKeys
  <2> QED BY <1>2, <2>2, <2>3
<1> HIDE DEF keys
<1>4. saved["mode"] = (IF "mode" \in keys THEN config["mode"] ELSE "ir")
      /\ ("path" \in keys => saved["path"] = config["path"])
  <2>1. \A k \in StreamKeys : saved[k] = IF k \in DOMAIN written THEN written[k] ELSE defaults[k]
    BY LoadedKeys
  <2>2. "mode" \in StreamKeys /\ "path" \in StreamKeys /\ defaults["mode"] = "ir"
    BY DEF StreamKeys, defaults
  <2> HIDE DEF saved
  <2> QED BY <1>1, <2>1, <2>2
<1> HIDE DEF saved
<1>5. RgbSound(saved)
  BY <1>3, <1>4 DEF RgbSound
<1>6. RgbSound(defaults)
  BY DefaultsAreSound DEF Sound
<1>7. AsRead(written) = defaults \/ AsRead(written) = saved
  BY DEF AsRead, saved
<1> QED BY <1>5, <1>6, <1>7

-----------------------------------------------------------------------------
(* Every step keeps what is saved sound                                      *)

\* What a page puts into a command.
Fitting(cmd) ==
    /\ cmd.op = "write_config" =>
         \/ cmd.set = [gain |-> page.slider]
         \/ shownStream # None /\ cmd.set = savedOverrides
    /\ cmd.op = "enroll" => cmd.mode = IF conf = None THEN "ir" ELSE load(conf).mode

\* The file and the helpers are left alone, or one page starts, goes on with or has done
\* with its command.
LEMMA Turns ==
    ASSUME [Next]_vars
    PROVE  \/ UNCHANGED <<conf, helper>>
           \/ \E p \in Pages : \E cmd : run(p, cmd) /\ UNCHANGED conf /\ Fitting(cmd)
           \/ \E p \in Pages : Helper(p)
           \/ \E p \in Pages : Finished(p) /\ UNCHANGED conf
<1>1. CASE SwitchTab \/ Tick \/ Replug \/ AdminEdit \/ UNCHANGED vars
  BY <1>1 DEF SwitchTab, showEnrollment, hideEnrollment, showPam, Tick, onPreviewTick,
     unchangedSystem, unchangedRun, sharedVars, systemVars, Replug, AdminEdit, vars
<1>2. CASE tab = "enrollment" /\ EnrollmentClick
  <2>1. UNCHANGED conf
    BY <1>2 DEF EnrollmentClick, onGainSliderChanged, onSaveGainClicked, onEnrollClicked,
       startEnroll, onDeleteClicked, onTestClicked, unchangedSystem
  <2>2. CASE onSaveGainClicked
    BY <2>1, <2>2 DEF onSaveGainClicked, writeConfig, Pages, Fitting
  <2>3. CASE onEnrollClicked
    BY <2>1, <2>3 DEF onEnrollClicked, startEnroll, enroll, Pages, Fitting
  <2>4. CASE onDeleteClicked \/ onTestClicked
    BY <2>1, <2>4 DEF onDeleteClicked, onTestClicked, remove, test, Pages, Fitting
  <2>5. CASE onGainSliderChanged
    BY <2>1, <2>5 DEF onGainSliderChanged, unchangedRun
  <2> QED BY <1>2, <2>2, <2>3, <2>4, <2>5 DEF EnrollmentClick
<1>3. CASE tab = "settings" /\ onSaveClicked
  BY <1>3 DEF onSaveClicked, writeConfig, systemVars, Pages, Fitting
<1>4. CASE tab = "settings" /\ SettingsClick /\ ~onSaveClicked
  BY <1>4 DEF SettingsClick, onRefreshCamerasClicked, onCameraDeviceChanged,
     onCameraDeviceDeclined, onCameraModeChanged, onCameraModeDeclined,
     onConfirmationModeChosen, unchangedBySettings, systemVars
<1>5. CASE tab = "pam" /\ PamClick
  <2>1. UNCHANGED conf /\ \E cmd : cmd.op \in PamOps /\ run("pam", cmd)
    BY <1>5 DEF PamClick, onActionClicked, enablePam, disablePam, systemVars, PamOps
  <2> QED BY <2>1 DEF Pages, Fitting, PamOps
<1>6. ASSUME NEW p \in Pages, Run(p) PROVE Helper(p)
  BY <1>6 DEF Run
<1>7. ASSUME NEW p \in Pages, Dispatch(p) PROVE Finished(p) /\ UNCHANGED conf
  BY <1>7 DEF Dispatch, onEnrollmentFinished, onSettingsFinished, onPamFinished,
     unchangedSystem, systemVars
<1> QED BY <1>1, <1>2, <1>3, <1>4, <1>5, <1>6, <1>7 DEF Next, Click
LEMMA SetsStep == SavedInv /\ [Next]_vars =>
    \A q \in Pages : (helper[q].cmd.op = "write_config" => SetSound(helper[q].cmd.set))'
<1> SUFFICES ASSUME SavedInv, [Next]_vars, NEW q \in Pages, helper'[q].cmd.op = "write_config"
             PROVE  SetSound(helper[q].cmd.set)'
  OBVIOUS
<1>0. Shape
  BY DEF SavedInv, TypeInv, FilesInv, Processes
<1> DEFINE set == helper'[q].cmd.set
<1>1. ASSUME SetSound(set) PROVE SetSound(helper[q].cmd.set)'
  <2>1. PICK x : x = set
    OBVIOUS
  <2>2. SetSound(x)'
    BY <1>1, <2>1, SoundStays, SessionStays, AckedStays
  <2> QED BY <2>1, <2>2
<1>2. CASE helper'[q].cmd = helper[q].cmd
  BY <1>1, <1>2 DEF SavedInv
<1>3. ASSUME NEW cmd, run(q, cmd), Fitting(cmd) PROVE SetSound(set)
  <2>1. helper'[q].cmd = cmd
    BY <1>0, <1>3, RunMoves
  <2>2. CASE set = [gain |-> page.slider]
    BY <2>2 DEF SetSound, StreamKeys
  <2>3. CASE shownStream # None /\ set = savedOverrides
    <3> DEFINE stream == shownStream
               mode == form.mode
    <3>1. CameraSound(Shown) /\ mode \in CamModes /\ stream = Shown[mode]
      <4>1. CameraSound(Shown)
        BY DEF SavedInv, OffersInv, FormInv, Shown
      <4>2. mode \in Offered(Shown)
        BY <2>3 DEF SavedInv, OffersInv, FormInv, shownStream, selectCameraMode, Offered, CamModes,
           NoMode
      <4> QED BY <4>1, <4>2 DEF shownStream, Offered, CamModes
    <3>2. Known(stream, mode)
      BY <2>3, <3>1 DEF CameraSound
    <3>3. mode = "rgb" => acked \/ RgbOnly(stream.path)
      BY <3>1 DEF SavedInv, OffersInv
    <3>4. /\ StreamKeys \subseteq DOMAIN set
          /\ set.path = stream.path /\ set.format = stream.format /\ set.size = stream.size
          /\ set.mode = mode
      BY <2>3 DEF savedOverrides, StreamKeys
    <3> HIDE DEF set, stream, mode
    <3> QED BY <3>2, <3>3, <3>4 DEF SetSound, RgbSound, OneStream, Known
  <2> QED BY <1>3, <2>1, <2>2, <2>3 DEF Fitting
<1>4. ASSUME NEW p \in Pages, NEW cmd, run(p, cmd), Fitting(cmd)
      PROVE  SetSound(helper[q].cmd.set)'
  <2>1. p = q \/ helper'[q] = helper[q]
    BY <1>0, <1>4, RunMoves
  <2> QED BY <1>1, <1>2, <1>3, <1>4, <2>1
<1>5. ASSUME NEW p \in Pages, Helper(p) PROVE helper'[q].cmd = helper[q].cmd
  BY <1>0, <1>5, HelperMoves DEF Moves
<1>6. ASSUME NEW p \in Pages, Finished(p) PROVE helper'[q].cmd = helper[q].cmd
  <2>1. p # q
    BY <1>0, <1>6, FinishedMoves
  <2> QED BY <1>0, <1>6, <2>1, FinishedMoves
<1> QED BY <1>2, <1>4, <1>5, <1>6, Turns
\* A step of page p's helper keeps the rest if it does so for p and the file, which only a
\* writer changes, while nobody else is one.
LEMMA TurnKeeps ==
    ASSUME SavedInv, [Next]_vars, "race" \notin trouble', NEW p \in Pages,
           \A q \in Pages \ {p} : helper'[q] = helper[q],
           conf' = conf \/ (helper[p].cmd.op \in Writers /\ helper'[p].cmd = helper[p].cmd),
           Sound(Saved)',
           helper'[p].cmd.op \in Writers =>
               \A q \in Pages \ {p} : helper[q].cmd.op \notin Writers,
           helper'[p].at = "write" => conf' = Empty,
           helper'[p].cmd.op = "enroll" /\ helper'[p].at \in {"prompt", "load"} /\ conf' # None
               => helper'[p].cmd.mode = load(conf').mode,
           helper'[p].at \in {"truncate", "write"} => Sound(helper[p].loaded.config)'
    PROVE  SavedInv'
<1>0. "race" \notin trouble /\ (trouble' = {} => trouble = {})
      /\ UNCHANGED session /\ (acked => acked')
  BY TroubleGrows, SessionStays, AckedStays
<1>1. OffersInv' /\ TypeInv'
  BY OffersStep, TypeStep DEF SavedInv
<1>2. \A q \in Pages : (helper[q].cmd.op = "write_config" => SetSound(helper[q].cmd.set))'
  BY SetsStep
<1>3. OneWriter /\ \A q \in Pages : helper[q].at = "write" => helper[q].cmd.op \in Writers
  BY <1>0 DEF SavedInv, TypeInv, FilesInv, CarriedTyped
<1>4. OneWriter'
  <2>1. ASSUME NEW q \in Pages, NEW r \in Pages,
               helper'[q].cmd.op \in Writers, helper'[r].cmd.op \in Writers
        PROVE  q = r
    BY <1>3, <2>1 DEF OneWriter
  <2>2. ASSUME NEW q \in Pages
        PROVE  /\ helper'[q].at = "write" => conf' = Empty
               /\ helper'[q].cmd.op = "enroll" /\ helper'[q].at \in {"prompt", "load"}
                  /\ conf' # None => helper'[q].cmd.mode = load(conf').mode
    <3>1. CASE q = p
      BY <3>1
    <3>2. CASE q # p /\ conf' = conf
      BY <1>3, <3>2 DEF OneWriter
    <3>3. CASE q # p /\ helper[p].cmd.op \in Writers /\ helper'[p].cmd = helper[p].cmd
      BY <1>3, <3>3 DEF Writers
    <3> QED BY <3>1, <3>2, <3>3
  <2> QED BY <2>1, <2>2 DEF OneWriter
<1>5. ASSUME NEW q \in Pages, helper'[q].at \in {"truncate", "write"}
      PROVE  Sound(helper[q].loaded.config)'
  <2>1. CASE q = p
    BY <1>5, <2>1
  <2>2. CASE q # p
    <3>1. PICK x : x = helper[q].loaded.config
      OBVIOUS
    <3>2. Sound(x)
      BY <1>0, <1>5, <2>2, <3>1 DEF SavedInv
    <3>3. Sound(x)'
      BY <1>0, <3>2, SoundRemains
    <3>4. helper'[q].loaded.config = x
      BY <2>2, <3>1
    <3> QED BY <3>3, <3>4
  <2> QED BY <2>1, <2>2
<1> QED BY <1>1, <1>2, <1>4, <1>5 DEF SavedInv

\* The file is as it was.
LEMMA SavedRemains ==
    ASSUME SavedInv, [Next]_vars, "race" \notin trouble', UNCHANGED conf
    PROVE  Sound(Saved)'
<1>1. "race" \notin trouble /\ (trouble' = {} => trouble = {})
      /\ UNCHANGED session /\ (acked => acked')
  BY TroubleGrows, SessionStays, AckedStays
<1>2. PICK x : x = Saved
  OBVIOUS
<1>3. Sound(x)'
  BY <1>1, <1>2, SoundRemains DEF SavedInv
<1>4. Saved' = x
  BY <1>2 DEF Saved
<1> QED BY <1>3, <1>4
LEMMA HelperKeeps ==
    ASSUME SavedInv, [Next]_vars, "race" \notin trouble', NEW p \in Pages, Helper(p)
    PROVE  SavedInv'
<1>0. /\ "race" \notin trouble /\ (trouble' = {} => trouble = {})
      /\ UNCHANGED session /\ (acked => acked')
      /\ Shape /\ Moves(p) /\ CarriedTyped(p)
  <2>1. Shape
    BY DEF SavedInv, TypeInv, FilesInv, Processes
  <2>2. Moves(p)
    BY <2>1, HelperMoves
  <2> QED BY <2>1, <2>2, TroubleGrows, SessionStays, AckedStays DEF SavedInv, TypeInv, FilesInv
<1>1. /\ \A q \in Pages \ {p} : helper'[q] = helper[q]
      /\ helper'[p].cmd = helper[p].cmd
      /\ helper'[p].cmd.op \in Writers => \A q \in Pages \ {p} : helper[q].cmd.op \notin Writers
  BY <1>0 DEF Moves, SavedInv, OneWriter
<1>2. ASSUME UNCHANGED conf, helper'[p].at \notin {"truncate", "write"},
             helper'[p].at = "load" => helper[p].at = "prompt", helper'[p].at # "prompt"
      PROVE  SavedInv'
  <2>1. helper'[p].cmd.op = "enroll" /\ helper'[p].at \in {"prompt", "load"} /\ conf' # None
          => helper'[p].cmd.mode = load(conf').mode
    BY <1>0, <1>1, <1>2 DEF SavedInv, OneWriter
  <2>2. Sound(Saved)'
    BY <1>2, SavedRemains
  <2> QED BY <1>0, <1>1, <1>2, <2>1, <2>2, TurnKeeps
<1>3. CASE Load(p)
  <2> DEFINE config == Configured(helper[p].cmd)
  <2>1. UNCHANGED conf /\ helper[p].at = "load"
    BY <1>3 DEF Load
  <2>2. CASE End(p, Precheck(helper[p].cmd))
    <3>1. helper'[p].at = "ended"
      BY <1>0, <2>2, EndIs
    <3> QED BY <1>2, <2>1, <3>1
  <2>3. CASE /\ Precheck(helper[p].cmd) = None /\ helper[p].cmd.op \in Writers
             /\ helper'[p].at = "truncate" /\ helper'[p].loaded.config = config
    <3>1. Sound(config)
      BY <1>0, <2>1, <2>3, ConfiguredIsSound
    <3> HIDE DEF config
    <3>2. PICK x : x = config
      OBVIOUS
    <3>3. Sound(x)'
      BY <1>0, <3>1, <3>2, SoundRemains
    <3>4. Sound(helper[p].loaded.config)'
      BY <2>3, <3>2, <3>3
    <3>5. Sound(Saved)'
      BY <2>1, SavedRemains
    <3> QED BY <1>0, <1>1, <2>1, <2>3, <3>4, <3>5, TurnKeeps
  <2>4. CASE helper'[p].at = "open"
    BY <1>2, <2>1, <2>4
  <2> QED BY <1>0, <1>3, <2>2, <2>3, <2>4, LoadIs
<1>4. CASE Truncate(p)
  <2>1. /\ helper[p].at = "truncate" /\ helper'[p].at = "write" /\ conf' = Empty
        /\ helper'[p].loaded = helper[p].loaded
    BY <1>0, <1>4, GotoIs DEF Truncate
  <2> DEFINE x == helper[p].loaded.config
  <2>2. helper[p].cmd.op \in Writers
    BY <1>0, <2>1 DEF CarriedTyped
  <2>3. Sound(helper[p].loaded.config)'
    <3>1. PICK y : y = x
      OBVIOUS
    <3>2. Sound(y)'
      BY <1>0, <2>1, <3>1, SoundRemains DEF SavedInv
    <3> QED BY <2>1, <3>1, <3>2
  <2>4. Sound(Saved)'
    <3>1. \A k \in StreamKeys : defaults[k] = load(Empty)[k]
      BY LoadedKeys DEF Empty
    <3>2. Sound(load(Empty)) /\ Sound(defaults)
      BY <3>1, SameStream, DefaultsAreSound
    <3>3. PICK y : y = AsRead(Empty)
      OBVIOUS
    <3>4. Sound(y)'
      BY <1>0, <3>2, <3>3, SoundRemains DEF AsRead
    <3> QED BY <2>1, <3>3, <3>4 DEF AsRead, Saved
  <2> QED BY <1>0, <1>1, <2>1, <2>2, <2>3, <2>4, TurnKeeps
<1>5. CASE WriteConf(p) \/ WriteConfShort(p)
  <2> DEFINE config == helper[p].loaded.config
  <2>1. /\ helper[p].at = "write" /\ helper[p].cmd.op \in Writers
        /\ DOMAIN config = DOMAIN defaults /\ conf = Empty /\ Sound(config)
    BY <1>0, <1>5 DEF WriteConf, WriteConfShort, SavedInv, OneWriter, CarriedTyped
  <2>2. helper'[p].at \in {"open", "ended"}
    BY <1>0, <1>5, GotoIs, EndIs DEF WriteConf, WriteConfShort, AfterWrite
  <2>3. RgbSound(AsRead(conf')) /\ (trouble' = {} => Sound(AsRead(conf')))
    <3>1. CASE WriteConf(p)
      <4>1. conf' = serialize(config)
        BY <2>1, <3>1, NothingBehind DEF WriteConf, serialize
      <4> HIDE DEF config
      <4>2. Sound(AsRead(conf'))
        BY <2>1, <4>1, WrittenIsSound
      <4> QED BY <4>2 DEF Sound
    <3>2. CASE WriteConfShort(p)
      <4>1. PICK n \in TornAt : conf' = FirstLines(config, n)
        BY <2>1, <3>2, NothingBehind DEF WriteConfShort
      <4>2. RgbSound(config)
        BY <2>1 DEF Sound
      <4> HIDE DEF config
      <4>3. RgbSound(AsRead(conf'))
        BY <2>1, <4>1, <4>2, TornIsSound
      <4>4. "fault" \in trouble'
        BY <3>2 DEF WriteConfShort, Fault
      <4> QED BY <4>3, <4>4
    <3> QED BY <1>5, <3>1, <3>2
  <2>4. Sound(Saved)'
    <3>1. PICK y : y = AsRead(conf')
      OBVIOUS
    <3>2. RgbSound(y)' /\ (trouble' = {} => OneStream(y)')
      BY <1>0, <2>3, <3>1, SoundStays DEF Sound
    <3>3. Saved' = y
      BY <3>1 DEF Saved, AsRead
    <3> QED BY <3>2, <3>3 DEF Sound
  <2> QED BY <1>0, <1>1, <2>1, <2>2, <2>4, TurnKeeps
<1>6. CASE Refused(p) \/ Authorised(p) \/ Open(p) \/ Capture(p) \/ Apply(p) \/ Fails(p)
  <2>1. UNCHANGED conf
    BY <1>6 DEF Refused, Authorised, Open, Capture, Apply, Fails, systemVars
  <2>2. \/ helper'[p].at \in {"apply", "capture", "ended"}
        \/ helper'[p].at = "load" /\ helper[p].at = "prompt"
    <3>1. \A answer : End(p, answer) => helper'[p].at = "ended"
      BY <1>0, EndIs
    <3>2. \A step : Goto(p, step) => helper'[p].at = step
      BY <1>0, GotoIs
    <3> QED BY <1>6, <3>1, <3>2 DEF Refused, Authorised, Open, Capture, Apply, Fails
  <2> QED BY <1>2, <2>1, <2>2
<1> QED BY <1>3, <1>4, <1>5, <1>6 DEF Helper, HelperStep
LEMMA SavedStep == SavedInv /\ [Next]_vars => SavedInv'
<1> SUFFICES ASSUME SavedInv, [Next]_vars PROVE SavedInv'
  OBVIOUS
<1>1. CASE "race" \in trouble'
  BY <1>1, OffersStep, TypeStep, SetsStep DEF SavedInv
<1>2. ASSUME "race" \notin trouble' PROVE SavedInv'
  <2>0. Shape /\ OneWriter
    BY <1>2, TroubleGrows DEF SavedInv, TypeInv, FilesInv, Processes
  <2>1. CASE UNCHANGED <<conf, helper>>
    <3>1. "enrollment" \in Pages /\ Sound(Saved)'
      BY <1>2, <2>1, SavedRemains DEF Pages
    <3> DEFINE p == "enrollment"
    <3>2. /\ helper'[p].cmd.op \in Writers => \A q \in Pages \ {p} : helper[q].cmd.op \notin Writers
          /\ helper'[p].at = "write" => conf' = Empty
          /\ helper'[p].cmd.op = "enroll" /\ helper'[p].at \in {"prompt", "load"} /\ conf' # None
               => helper'[p].cmd.mode = load(conf').mode
      BY <2>0, <2>1, <3>1 DEF OneWriter
    <3>3. helper'[p].at \in {"truncate", "write"} => Sound(helper[p].loaded.config)'
      <4>1. PICK x : x = helper[p].loaded.config
        OBVIOUS
      <4>2. Sound(x) => Sound(x)'
        BY SoundRemains, TroubleGrows, SessionStays, AckedStays
      <4> QED BY <1>2, <2>1, <3>1, <4>1, <4>2, TroubleGrows DEF SavedInv
    <3> QED BY <1>2, <2>1, <3>1, <3>2, <3>3, TurnKeeps
  <2>2. ASSUME NEW p \in Pages, NEW cmd, run(p, cmd), UNCHANGED conf, Fitting(cmd)
        PROVE  SavedInv'
    <3>1. /\ helper'[p].at = "prompt" /\ helper'[p].cmd = cmd
          /\ \A q \in Pages \ {p} : helper'[q] = helper[q]
      BY <2>0, <2>2, RunMoves
    <3>2. cmd.op \in Writers => \A q \in Pages : helper[q].cmd.op \notin Writers
      BY <1>2, <2>2 DEF run
    <3>3. cmd.op = "enroll" /\ conf # None => cmd.mode = load(conf).mode
      BY <2>2 DEF Fitting
    <3>4. Sound(Saved)'
      BY <1>2, <2>2, SavedRemains
    <3> QED BY <1>2, <2>2, <3>1, <3>2, <3>3, <3>4, TurnKeeps
  <2>3. ASSUME NEW p \in Pages, Finished(p), UNCHANGED conf
        PROVE  SavedInv'
    <3>1. /\ helper'[p].at = "idle" /\ helper'[p].cmd.op = "none"
          /\ \A q \in Pages \ {p} : helper'[q] = helper[q]
      BY <2>0, <2>3, FinishedMoves
    <3>2. Sound(Saved)'
      BY <1>2, <2>3, SavedRemains
    <3> QED BY <1>2, <2>3, <3>1, <3>2, TurnKeeps DEF Writers
  <2> QED BY <1>2, <2>1, <2>2, <2>3, HelperKeeps, Turns
<1> QED BY <1>1, <1>2

LEMMA SavedOpens == Init => SavedInv
<1> SUFFICES ASSUME Init PROVE SavedInv
  OBVIOUS
<1>1. \A p \in Pages : helper[p].at = "idle" /\ helper[p].cmd.op = "none"
  BY DEF Init, Idle
<1>2. OneWriter
  BY <1>1 DEF OneWriter, Writers
<1>3. Sound(Saved)
  <2>1. CASE conf = None
    BY <2>1, DefaultsAreSound DEF Saved
  <2>2. CASE conf # None
    BY <2>2 DEF Init, Saved, Sound, RgbSound, OneStream, Known
  <2> QED BY <2>1, <2>2
<1> QED BY <1>1, <1>2, <1>3, OffersOpen, TypeOpens DEF SavedInv

\* For all cameras, files and bounds, as long as no two commands write the file at a time and
\* none fails, the saved device, format, mode and size are those of one stream, or those of
\* the file that the window was opened with: neither Save, after whatever was plugged,
\* refreshed or declined, nor an enrolment, nor a gain saved between them mixes two.
THEOREM SavedIsOneStream == Spec => []SavedStreamIsOne
<1>1. SavedInv => SavedStreamIsOne
  BY DEF SavedInv, Sound, OneStream, Known, SavedStreamIsOne
<1> QED BY <1>1, SavedOpens, SavedStep, PTL DEF Spec

\* For all cameras whose nodes come and go together, and files that name no colour stream
\* of a camera with infrared in mode "ir", nothing but an answer to the risk dialog makes
\* config.conf use RGB where infrared is to be had, whatever fails or is torn, as long as no
\* two commands write the file at a time.
THEOREM RgbIsAcknowledged ==
    ASSUME OrdinarySessions PROVE Spec => []RgbChosenIsAcknowledged
<1>1. SavedInv => RgbChosenIsAcknowledged
  BY DEF SavedInv, Sound, RgbSound, RgbOnly, RgbChosenIsAcknowledged
<1> QED BY <1>1, SavedOpens, SavedStep, PTL DEF Spec
=============================================================================
