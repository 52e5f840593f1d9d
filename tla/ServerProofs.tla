--------------------------- MODULE ServerProofs ---------------------------
(***************************************************************************)
(* Theorems about Server, for any config file.                              *)
(***************************************************************************)
EXTENDS Server, SequenceTheorems, WellFoundedInduction, TLAPS

\* The config is being read, or requests are dispatched: nothing that was
\* mounted has been taken apart yet.
Up == run \in {"parsing", "serving"}

Shape ==
    /\ sections \in Seq(Section)
    /\ mounts \in SUBSET DOMAIN sections
    /\ opened \in SUBSET mounts

\* Every node that is mounted is open, and nothing else is.
NodesOpen == Up => opened = {m \in mounts : sections[m].type = "node"}

\* A buffer upload has the mountpoint its section names, and that is a node
\* that was mounted before it.
NodesOfBuffers ==
    Up => \A b \in bufnode :
            /\ b[1] \in DOMAIN sections /\ b[2] \in mounts /\ b[2] < b[1]
            /\ sections[b[2]].type = "node"
            /\ sections[b[2]].mp = sections[b[1]].owner

\* What is mounted is a section that can be.
MountsGood == \A m \in mounts : Mountable(m) \/ sections[m].type = "buffer"

\* What Mountable(i) says of the section at place i.
Good(s) ==
    \/ s.type = "control"
    \/ s.type \in {"node", "static", "upload", "v4l2"} /\ s.params = "good"

Offers(m, mp, n) == sections[m].mp = mp /\ n \in AddedBy(sections[m].type)

\* The argument of a callback is the first mountpoint that offers the path.
PathsExplained ==
    Up /\ ~nomem =>
        \A p \in paths :
            /\ p.arg \in mounts /\ Offers(p.arg, p.mp, p.name)
            /\ \A m \in mounts : Offers(m, p.mp, p.name) => p.arg <= m

\* What a mountpoint offers is registered, for itself or for an earlier one.
OffersRegistered ==
    Up /\ ~nomem =>
        \A m \in mounts : \A n \in AddedBy(sections[m].type) :
            \E p \in paths : p.mp = sections[m].mp /\ p.name = n

\* The sections a buffer upload at place i may find when it looks up its owner.
Before(i) ==
    {j \in 1 .. i - 1 : /\ sections[j].mp = sections[i].owner
                        /\ Mountable(j) \/ sections[j].type = "buffer"}

\* Good sections are mounted, in whatever company they come.
GoodMounted ==
    Up /\ ~nomem =>
        \A i \in DOMAIN sections :
            /\ Mountable(i) => i \in mounts
            /\ sections[i].type = "buffer" /\ Before(i) # {} =>
                 (sections[Min(Before(i))].type = "node" => i \in mounts)

\* No section that ends the process has been read.
NoneFatal == Up => \A i \in DOMAIN sections : ~Fatal(sections[i])

IInv ==
    /\ Shape
    /\ NodesOpen
    /\ NodesOfBuffers
    /\ MountsGood
    /\ PathsExplained
    /\ OffersRegistered
    /\ GoodMounted
    /\ NoneFatal
    /\ AllReleased

---------------------------------------------------------------------------
\* A set of section numbers that is not empty has a least one, and there is
\* only one.
LEMMA MinFound ==
    ASSUME NEW T, T \subseteq Nat, T # {}
    PROVE  Min(T) \in T /\ \A y \in T : Min(T) <= y
<1>1. PICK x \in T : \A y \in T : ~ (<<y, x>> \in OpToRel(<, Nat))
  BY WFMin, NatLessThanWellFounded
<1>2. \A y \in T : ~ (y < x)
  BY <1>1 DEF OpToRel
<1>3. \E z \in T : \A y \in T : z <= y
  BY <1>2
<1> QED BY <1>3 DEF Min

LEMMA MinUnique ==
    ASSUME NEW T, T \subseteq Nat, NEW x \in T, \A y \in T : x <= y
    PROVE  Min(T) = x
<1> DEFINE m == Min(T)
<1>1. m \in T /\ m <= x
  BY MinFound
<1> HIDE DEF m
<1>2. m = x
  BY <1>1
<1> QED BY <1>2 DEF m

\* The config grows by one section, and what was said of the others stands.
LEMMA SectionRead ==
    ASSUME Shape, NEW s \in Section, Read(s)
    PROVE  /\ run = "parsing" /\ Id \in Nat \ {0} /\ DOMAIN sections = 1 .. Id - 1
           /\ sections' \in Seq(Section) /\ DOMAIN sections' = 1 .. Id
           /\ DOMAIN sections' = DOMAIN sections \cup {Id} /\ Id \notin DOMAIN sections
           /\ sections'[Id] = s
           /\ \A k \in DOMAIN sections :
                /\ sections'[k] = sections[k] /\ k < Id
                /\ Mountable(k)' <=> Mountable(k)
                /\ Before(k)' = Before(k)
           /\ mounts \subseteq DOMAIN sections
<1>1. /\ run = "parsing" /\ sections' = Append(sections, s) /\ sections \in Seq(Section)
      /\ mounts \subseteq DOMAIN sections
  BY DEF Read, Shape
<1>2. /\ Id \in Nat \ {0} /\ DOMAIN sections = 1 .. Id - 1
      /\ sections' \in Seq(Section) /\ DOMAIN sections' = 1 .. Id
      /\ sections'[Id] = s /\ \A k \in 1 .. Id - 1 : sections'[k] = sections[k]
  BY <1>1 DEF Id
<1>3. /\ DOMAIN sections' = DOMAIN sections \cup {Id} /\ Id \notin DOMAIN sections
      /\ \A k \in DOMAIN sections : k < Id
  BY <1>2
<1>4. \A k \in DOMAIN sections : Mountable(k)' <=> Mountable(k)
  BY <1>2 DEF Mountable
<1>5. ASSUME NEW k \in DOMAIN sections PROVE Before(k)' = Before(k)
  <2>1. \A j \in 1 .. k - 1 : j \in DOMAIN sections
    BY <1>2
  <2> QED BY <1>2, <1>4, <2>1 DEF Before
<1> QED BY <1>1, <1>2, <1>3, <1>4, <1>5

\* Before the config is read.
LEMMA IInvInit == Init => IInv
<1> SUFFICES ASSUME Init PROVE IInv
  OBVIOUS
<1>1. sections = <<>> /\ mounts = {} /\ paths = {} /\ opened = {} /\ bufnode = {} /\ run = "parsing"
  BY DEF Init
<1>2. Shape /\ NodesOpen /\ NodesOfBuffers /\ MountsGood
  BY <1>1 DEF Shape, NodesOpen, NodesOfBuffers, MountsGood
<1>3. PathsExplained /\ OffersRegistered /\ AllReleased
  BY <1>1 DEF PathsExplained, OffersRegistered, AllReleased
<1>4. GoodMounted /\ NoneFatal
  BY <1>1 DEF GoodMounted, NoneFatal
<1> QED BY <1>2, <1>3, <1>4 DEF IInv

\* Steps that neither read a section nor take one apart.
LEMMA QuietStep ==
    ASSUME IInv, sections' = sections, mounts' = mounts, opened' = opened,
           bufnode' = bufnode, nomem' = nomem,
           \/ Up /\ Up' /\ paths' = paths
           \/ ~Up' /\ run' # "gone"
           \/ run' = "gone" /\ mounts = {} /\ paths' = {} /\ ~redirect'
           \/ run' = run /\ paths' = paths /\ redirect' = redirect
    PROVE  IInv'
<1>1. \A k : (Mountable(k)' <=> Mountable(k)) /\ Before(k)' = Before(k)
  BY DEF Mountable, Before
<1>2. Shape' /\ NodesOpen' /\ NodesOfBuffers' /\ AllReleased'
  BY DEF IInv, Shape, NodesOpen, NodesOfBuffers, AllReleased, Up
<1>3. MountsGood' /\ GoodMounted' /\ NoneFatal'
  BY <1>1 DEF IInv, MountsGood, GoodMounted, NoneFatal, Fatal, Up
<1>4. PathsExplained' /\ OffersRegistered'
  BY DEF IInv, PathsExplained, OffersRegistered, Offers, Up
<1> QED BY <1>2, <1>3, <1>4 DEF IInv

\* A section is not mounted: the process ends, memory has run out, or it is a
\* section that could not be.
LEMMA PassedOverStep ==
    ASSUME IInv, NEW s \in Section, Read(s),
           mounts' = mounts, opened' = opened, bufnode' = bufnode,
           run' # "gone", Up' => ~Fatal(s),
           \/ ~Up'
           \/ nomem'
           \/ /\ paths' = paths /\ nomem' = nomem /\ ~Good(s)
              /\ s.type = "buffer" => ~OwnerFound(s)
    PROVE  IInv'
<1>1. /\ run = "parsing" /\ Id \in Nat \ {0} /\ DOMAIN sections = 1 .. Id - 1
      /\ sections' \in Seq(Section) /\ DOMAIN sections' = 1 .. Id
      /\ DOMAIN sections' = DOMAIN sections \cup {Id} /\ Id \notin DOMAIN sections
      /\ sections'[Id] = s
      /\ \A k \in DOMAIN sections :
           /\ sections'[k] = sections[k] /\ k < Id
           /\ Mountable(k)' <=> Mountable(k)
           /\ Before(k)' = Before(k)
      /\ mounts \subseteq DOMAIN sections
  BY SectionRead DEF IInv
<1>2. Shape' /\ NodesOpen' /\ NodesOfBuffers' /\ AllReleased'
  <2>1. Up
    BY <1>1 DEF Up
  <2>2. Shape' /\ AllReleased'
    BY <1>1 DEF IInv, Shape, AllReleased
  <2>3. NodesOpen'
    BY <1>1, <2>1 DEF IInv, NodesOpen
  <2>4. NodesOfBuffers'
    BY <1>1, <2>1 DEF IInv, NodesOfBuffers
  <2> QED BY <2>2, <2>3, <2>4
<1>3. MountsGood' /\ NoneFatal'
  <2>1. ASSUME Up', NEW k \in DOMAIN sections' PROVE ~Fatal(sections'[k])
    <3>1. CASE k = Id
      BY <1>1, <2>1, <3>1
    <3>2. CASE k \in DOMAIN sections
      BY <1>1, <3>2 DEF IInv, NoneFatal, Up
    <3> QED BY <1>1, <3>1, <3>2
  <2>2. NoneFatal'
    BY <2>1 DEF NoneFatal, Fatal
  <2> QED BY <1>1, <2>2 DEF IInv, MountsGood
<1>4. CASE ~Up' \/ nomem'
  BY <1>2, <1>3, <1>4 DEF IInv, PathsExplained, OffersRegistered, GoodMounted
<1>5. CASE /\ paths' = paths /\ nomem' = nomem /\ ~Good(s)
           /\ s.type = "buffer" => ~OwnerFound(s)
  <2>1. PathsExplained' /\ OffersRegistered'
    <3>1. \A m \in mounts : m \in DOMAIN sections /\ sections'[m] = sections[m]
      BY <1>1
    <3>2. \A m \in mounts : \A mp, n : Offers(m, mp, n)' <=> Offers(m, mp, n)
      BY <3>1 DEF Offers
    <3>3. PathsExplained'
      BY <1>1, <1>5, <3>2 DEF IInv, PathsExplained, Up
    <3>4. OffersRegistered'
      <4> SUFFICES ASSUME Up', ~nomem', NEW m \in mounts, NEW n \in AddedBy(sections'[m].type)
                   PROVE  \E p \in paths : p.mp = sections'[m].mp /\ p.name = n
        BY <1>5 DEF OffersRegistered
      <4>1. Up /\ ~nomem /\ sections'[m] = sections[m]
        BY <1>1, <1>5, <3>1 DEF Up
      <4> QED BY <4>1 DEF IInv, OffersRegistered
    <3> QED BY <3>3, <3>4
  <2>2. GoodMounted'
    <3> SUFFICES ASSUME Up', ~nomem', NEW i \in DOMAIN sections'
                 PROVE  /\ Mountable(i)' => i \in mounts
                        /\ sections'[i].type = "buffer" /\ Before(i)' # {} =>
                             (sections'[Min(Before(i)')].type = "node" => i \in mounts)
      BY DEF GoodMounted
    <3>1. CASE i \in DOMAIN sections
      <4>1. Before(i) \subseteq DOMAIN sections /\ Before(i) \subseteq Nat
        BY <1>1, <3>1 DEF Before
      <4>2. Before(i) # {} => Min(Before(i)) \in DOMAIN sections
        BY <4>1, MinFound
      <4>3. /\ Mountable(i) => i \in mounts
            /\ sections[i].type = "buffer" /\ Before(i) # {} =>
                 (sections[Min(Before(i))].type = "node" => i \in mounts)
        BY <1>1, <1>5, <3>1 DEF IInv, GoodMounted, Up
      <4>4. sections'[i] = sections[i] /\ Before(i)' = Before(i) /\ (Mountable(i)' <=> Mountable(i))
        BY <1>1, <3>1
      <4>5. Min(Before(i)') = Min(Before(i))
        BY <4>4
      <4>6. Before(i) # {} => sections'[Min(Before(i))] = sections[Min(Before(i))]
        BY <1>1, <4>2
      <4>7. sections'[i].type = "buffer" /\ Before(i)' # {} =>
              (sections'[Min(Before(i)')].type = "node" => i \in mounts)
        <5> SUFFICES ASSUME sections'[i].type = "buffer", Before(i)' # {},
                            sections'[Min(Before(i)')].type = "node"
                     PROVE  i \in mounts
          OBVIOUS
        <5>1. sections[i].type = "buffer" /\ Before(i) # {}
          BY <4>4
        <5>2. sections'[Min(Before(i))].type = "node"
          BY <4>5
        <5>3. sections[Min(Before(i))].type = "node"
          BY <4>6, <5>1, <5>2
        <5> QED BY <4>3, <5>1, <5>3
      <4>8. Mountable(i)' => i \in mounts
        BY <4>3, <4>4
      <4> QED BY <4>7, <4>8
    <3>2. CASE i = Id
      <4> SUFFICES ASSUME s.type = "buffer", Before(i)' # {},
                          sections'[Min(Before(i)')].type = "node"
                   PROVE  FALSE
        BY <1>1, <1>5, <3>2 DEF Mountable, Good
      <4> DEFINE m == Min(Before(i)')
      <4>1. Before(i)' = {j \in DOMAIN sections : /\ sections[j].mp = s.owner
                                                  /\ Mountable(j) \/ sections[j].type = "buffer"}
        BY <1>1, <3>2 DEF Before
      <4>2. Before(i)' \subseteq Nat
        BY <1>1, <4>1
      <4>3. m \in Before(i)' /\ \A j \in Before(i)' : m <= j
        BY <4>2, MinFound
      <4> HIDE DEF m
      <4>4. m \in DOMAIN sections /\ sections[m].type = "node" /\ Mountable(m)
            /\ sections[m].mp = s.owner
        BY <1>1, <4>1, <4>3 DEF m
      <4>5. m \in At(s.owner)
        BY <1>1, <1>5, <4>4 DEF IInv, GoodMounted, Up, At
      <4>6. At(s.owner) \subseteq Before(i)'
        BY <1>1, <4>1 DEF At, IInv, MountsGood
      <4>7. Lookup(s.owner) = m
        BY <4>2, <4>3, <4>5, <4>6, MinUnique DEF Lookup
      <4> QED BY <1>5, <4>4, <4>5, <4>7 DEF OwnerFound
    <3> QED BY <1>1, <3>1, <3>2
  <2> QED BY <1>2, <1>3, <2>1, <2>2 DEF IInv
<1> QED BY <1>4, <1>5

\* A section is mounted: the paths that are taken stay with those that have
\* them, and the others are its own.
LEMMA MountedStep ==
    ASSUME IInv, NEW s \in Section, Read(s), run' = run, nomem' = nomem,
           AddPaths(s, AddedBy(s.type)), mounts' = mounts \cup {Id},
           Good(s) \/ s.type = "buffer", ~Fatal(s),
           opened' = opened \cup (IF s.type = "node" THEN {Id} ELSE {}),
           NodesOfBuffers'
    PROVE  IInv'
<1>1. /\ run = "parsing" /\ Id \in Nat \ {0} /\ DOMAIN sections = 1 .. Id - 1
      /\ sections' \in Seq(Section) /\ DOMAIN sections' = 1 .. Id
      /\ DOMAIN sections' = DOMAIN sections \cup {Id} /\ Id \notin DOMAIN sections
      /\ sections'[Id] = s
      /\ \A k \in DOMAIN sections :
           /\ sections'[k] = sections[k] /\ k < Id
           /\ Mountable(k)' <=> Mountable(k)
           /\ Before(k)' = Before(k)
      /\ mounts \subseteq DOMAIN sections
  BY SectionRead DEF IInv
<1>2. PICK new \in Nat : new = Id
  BY <1>1
<1>3. ASSUME NEW m \in mounts'
      PROVE  \/ m = new /\ sections'[m] = s
             \/ m \in mounts /\ sections'[m] = sections[m] /\ m < new
  BY <1>1, <1>2
<1>4. Up /\ Up'
  BY <1>1 DEF Up
<1>5. Shape' /\ AllReleased'
  BY <1>1 DEF IInv, Shape, AllReleased
<1>6. NodesOpen'
  <2>1. opened = {m \in mounts : sections[m].type = "node"}
    BY <1>4 DEF IInv, NodesOpen
  <2> QED BY <1>1, <2>1 DEF NodesOpen
<1>7. MountsGood'
  <2> SUFFICES ASSUME NEW m \in mounts' PROVE Mountable(m)' \/ sections'[m].type = "buffer"
    BY DEF MountsGood
  <2>1. CASE m = new /\ sections'[m] = s
    BY <2>1 DEF Mountable, Good
  <2>2. CASE m \in mounts /\ sections'[m] = sections[m]
    BY <1>1, <2>2 DEF IInv, MountsGood
  <2> QED BY <1>3, <2>1, <2>2
<1> DEFINE taken(n) == \E p \in paths : p.mp = s.mp /\ p.name = n
           own == [mp : {s.mp}, name : {n \in AddedBy(s.type) : ~taken(n)}, arg : {Id}]
<1>8. paths' = paths \cup own
  BY DEF AddPaths
<1>9. \A p \in own : /\ p.mp = s.mp /\ p.name \in AddedBy(s.type) /\ p.arg = new
                     /\ ~taken(p.name)
  BY <1>2
<1>10. \A n \in AddedBy(s.type) : ~taken(n) => \E p \in own : p.mp = s.mp /\ p.name = n
  <2> SUFFICES ASSUME NEW n \in AddedBy(s.type), ~taken(n)
               PROVE  \E p \in own : p.mp = s.mp /\ p.name = n
    OBVIOUS
  <2>1. [mp |-> s.mp, name |-> n, arg |-> Id] \in own
    OBVIOUS
  <2> QED BY <2>1
<1> HIDE DEF own
<1>11. PathsExplained'
  <2> SUFFICES ASSUME ~nomem, NEW p \in paths'
               PROVE  /\ p.arg \in mounts' /\ Offers(p.arg, p.mp, p.name)'
                      /\ \A m \in mounts' : Offers(m, p.mp, p.name)' => p.arg <= m
    BY DEF PathsExplained
  <2>1. CASE p \in paths
    <3>1. /\ p.arg \in mounts /\ Offers(p.arg, p.mp, p.name)
          /\ \A m \in mounts : Offers(m, p.mp, p.name) => p.arg <= m
      BY <1>4, <2>1 DEF IInv, PathsExplained
    <3>2. /\ sections'[p.arg] = sections[p.arg] /\ p.arg < new /\ p.arg \in Nat
          /\ p.arg \in mounts'
      BY <1>1, <1>2, <3>1
    <3>3. ASSUME NEW m \in mounts', Offers(m, p.mp, p.name)' PROVE p.arg <= m
      <4>1. CASE m = new
        BY <3>2, <4>1
      <4>2. CASE m \in mounts /\ sections'[m] = sections[m]
        BY <3>1, <3>3, <4>2 DEF Offers
      <4> QED BY <1>3, <4>1, <4>2
    <3> QED BY <3>1, <3>2, <3>3 DEF Offers
  <2>2. CASE p \in own
    <3>1. /\ p.mp = s.mp /\ p.name \in AddedBy(s.type) /\ p.arg = new /\ ~taken(p.name)
          /\ new \in mounts' /\ sections'[new] = s
      BY <1>1, <1>2, <1>9, <2>2
    <3>2. ASSUME NEW m \in mounts', Offers(m, p.mp, p.name)' PROVE p.arg <= m
      <4>1. CASE m = new
        BY <3>1, <4>1
      <4>2. CASE m \in mounts /\ sections'[m] = sections[m]
        <5>1. sections[m].mp = s.mp /\ p.name \in AddedBy(sections[m].type)
          BY <3>1, <3>2, <4>2 DEF Offers
        <5>2. \E q \in paths : q.mp = sections[m].mp /\ q.name = p.name
          BY <1>4, <4>2, <5>1 DEF IInv, OffersRegistered
        <5> QED BY <3>1, <5>1, <5>2
      <4> QED BY <1>3, <4>1, <4>2
    <3> QED BY <3>1, <3>2 DEF Offers
  <2> QED BY <1>8, <2>1, <2>2
<1>12. OffersRegistered'
  <2> SUFFICES ASSUME ~nomem, NEW m \in mounts', NEW n \in AddedBy(sections'[m].type)
               PROVE  \E p \in paths' : p.mp = sections'[m].mp /\ p.name = n
    BY DEF OffersRegistered
  <2>1. CASE m = new /\ sections'[m] = s
    BY <1>8, <1>10, <2>1
  <2>2. CASE m \in mounts /\ sections'[m] = sections[m]
    <3>1. \E p \in paths : p.mp = sections[m].mp /\ p.name = n
      BY <1>4, <2>2 DEF IInv, OffersRegistered
    <3> QED BY <1>8, <2>2, <3>1
  <2> QED BY <1>3, <2>1, <2>2
<1>13. GoodMounted'
  <2> SUFFICES ASSUME ~nomem, NEW i \in DOMAIN sections, i \notin mounts
               PROVE  /\ ~Mountable(i)'
                      /\ ~ (/\ sections'[i].type = "buffer" /\ Before(i)' # {}
                            /\ sections'[Min(Before(i)')].type = "node")
    BY <1>1 DEF GoodMounted
  <2>1. Before(i) \subseteq DOMAIN sections /\ Before(i) \subseteq Nat
    BY <1>1 DEF Before
  <2>2. Before(i) # {} => Min(Before(i)) \in DOMAIN sections
    BY <2>1, MinFound
  <2>3. Before(i) # {} => sections'[Min(Before(i))] = sections[Min(Before(i))]
    BY <1>1, <2>2
  <2>4. sections'[i] = sections[i] /\ Before(i)' = Before(i) /\ (Mountable(i)' <=> Mountable(i))
    BY <1>1
  <2>5. /\ ~Mountable(i)
        /\ ~ (/\ sections[i].type = "buffer" /\ Before(i) # {}
              /\ sections[Min(Before(i))].type = "node")
    BY <1>4 DEF IInv, GoodMounted
  <2> QED BY <2>3, <2>4, <2>5
<1>14. NoneFatal'
  <2>1. ASSUME NEW k \in DOMAIN sections' PROVE ~Fatal(sections'[k])
    <3>1. CASE k = Id
      BY <1>1, <3>1
    <3>2. CASE k \in DOMAIN sections
      BY <1>1, <3>2 DEF IInv, NoneFatal, Up
    <3> QED BY <1>1, <3>1, <3>2
  <2> QED BY <2>1 DEF NoneFatal, Fatal
<1> QED BY <1>5, <1>6, <1>7, <1>11, <1>12, <1>13, <1>14 DEF IInv

\* A mountpoint is taken apart.
LEMMA UnmountStep ==
    ASSUME IInv, NEW m \in mounts, Unmount(m) PROVE IInv'
<1>1. /\ run = "stopping" /\ run' = run /\ sections' = sections
      /\ mounts' = mounts \ {m} /\ opened' = opened \ {m}
  BY DEF Unmount
<1>2. ~Up'
  BY <1>1 DEF Up
<1>3. Shape' /\ AllReleased'
  BY <1>1 DEF IInv, Shape, AllReleased
<1>4. MountsGood'
  BY <1>1 DEF IInv, MountsGood, Mountable
<1> QED BY <1>2, <1>3, <1>4
        DEF IInv, NodesOpen, NodesOfBuffers, PathsExplained, OffersRegistered,
            GoodMounted, NoneFatal

---------------------------------------------------------------------------
\* Reading a section, whatever comes of it.
LEMMA ReadStep ==
    ASSUME IInv, NEW s \in Section,
           \/ MountMisconfigured(s) \/ MountCrashes(s) \/ MountFails(s) \/ Mount(s)
           \/ MountBuffer(s) \/ MountBufferFails(s) \/ MountBufferNoMem(s)
    PROVE  IInv'
<1>1. CASE MountMisconfigured(s) \/ MountCrashes(s)
  <2>1. /\ Read(s) /\ mounts' = mounts /\ opened' = opened /\ bufnode' = bufnode
        /\ run' \in {"aborted", "crashed"}
    BY <1>1 DEF MountMisconfigured, MountCrashes
  <2> QED BY <2>1, PassedOverStep DEF Up
<1>2. CASE MountFails(s) \/ MountBufferFails(s)
  <2>1. /\ Read(s) /\ mounts' = mounts /\ opened' = opened /\ bufnode' = bufnode
        /\ paths' = paths /\ nomem' = nomem /\ run' = run
    BY <1>2 DEF MountFails, MountBufferFails
  <2>2. ~Good(s) /\ (s.type = "buffer" => ~OwnerFound(s)) /\ ~Fatal(s)
    <3>1. s.type = "buffer" => s.mp # NoMp
      BY NoMpAssumption DEF Section
    <3> QED BY <1>2, <3>1 DEF MountFails, MountBufferFails, Good, Fatal
  <2>3. run' # "gone"
    BY <2>1 DEF Read
  <2> QED BY <2>1, <2>2, <2>3, PassedOverStep
<1>3. CASE MountBufferNoMem(s)
  <2>1. /\ Read(s) /\ mounts' = mounts /\ opened' = opened /\ bufnode' = bufnode
        /\ nomem' /\ run' # "gone" /\ ~Fatal(s)
    <3>1. s.type = "buffer" => s.mp # NoMp
      BY NoMpAssumption DEF Section
    <3> QED BY <1>3, <3>1 DEF MountBufferNoMem, Read, Fatal
  <2> QED BY <2>1, PassedOverStep
<1>4. CASE Mount(s)
  <2>1. /\ Read(s) /\ run' = run /\ nomem' = nomem /\ bufnode' = bufnode /\ Good(s)
        /\ AddPaths(s, AddedBy(s.type)) /\ mounts' = mounts \cup {Id}
        /\ opened' = opened \cup (IF s.type = "node" THEN {Id} ELSE {})
        /\ ~Fatal(s)
    BY <1>4 DEF Mount, Good, Fatal
  <2>2. NodesOfBuffers'
    <3>1. /\ Up /\ \A k \in DOMAIN sections : sections'[k] = sections[k]
          /\ mounts \subseteq DOMAIN sections /\ DOMAIN sections \subseteq DOMAIN sections'
      BY <2>1, SectionRead DEF IInv, Up
    <3> QED BY <2>1, <3>1 DEF IInv, NodesOfBuffers
  <2> QED BY <2>1, <2>2, MountedStep
<1>5. CASE MountBuffer(s)
  <2>1. /\ Read(s) /\ run' = run /\ nomem' = nomem /\ s.type = "buffer" /\ opened' = opened
        /\ AddPaths(s, AddedBy(s.type)) /\ mounts' = mounts \cup {Id} /\ OwnerFound(s)
        /\ bufnode' = bufnode \cup {<<Id, Lookup(s.owner)>>}
    BY <1>5 DEF MountBuffer
  <2>2. /\ Up /\ \A k \in DOMAIN sections : sections'[k] = sections[k] /\ k < Id
        /\ mounts \subseteq DOMAIN sections /\ DOMAIN sections \subseteq Nat
        /\ DOMAIN sections' = DOMAIN sections \cup {Id} /\ sections'[Id] = s
    <3>1. /\ \A k \in DOMAIN sections : sections'[k] = sections[k] /\ k < Id
          /\ mounts \subseteq DOMAIN sections /\ DOMAIN sections = 1 .. Id - 1
          /\ DOMAIN sections' = DOMAIN sections \cup {Id} /\ sections'[Id] = s
          /\ run = "parsing" /\ Id \in Nat
      BY <2>1, SectionRead DEF IInv
    <3> QED BY <3>1 DEF Up
  <2>3. PICK o \in mounts : /\ o = Lookup(s.owner) /\ sections[o].mp = s.owner
                            /\ sections[o].type = "node"
    <3>1. At(s.owner) \subseteq Nat /\ At(s.owner) # {}
      BY <2>1, <2>2 DEF At, OwnerFound
    <3>2. Lookup(s.owner) \in At(s.owner)
      BY <3>1, MinFound DEF Lookup
    <3>3. Lookup(s.owner) \in mounts /\ sections[Lookup(s.owner)].mp = s.owner
      BY <3>2 DEF At
    <3>4. sections[Lookup(s.owner)].type = "node"
      BY <2>1 DEF OwnerFound
    <3> QED BY <3>3, <3>4
  <2>4. NodesOfBuffers'
    <3> SUFFICES ASSUME NEW b \in bufnode'
                 PROVE  /\ b[1] \in DOMAIN sections' /\ b[2] \in mounts' /\ b[2] < b[1]
                        /\ sections'[b[2]].type = "node"
                        /\ sections'[b[2]].mp = sections'[b[1]].owner
      BY DEF NodesOfBuffers
    <3>1. CASE b \in bufnode
      <4>1. /\ b[1] \in DOMAIN sections /\ b[2] \in mounts /\ b[2] < b[1]
            /\ sections[b[2]].type = "node" /\ sections[b[2]].mp = sections[b[1]].owner
        BY <2>2, <3>1 DEF IInv, NodesOfBuffers
      <4> QED BY <2>1, <2>2, <4>1
    <3>2. CASE b = <<Id, o>>
      BY <2>1, <2>2, <2>3, <3>2
    <3> QED BY <2>1, <2>3, <3>1, <3>2
  <2>5. opened' = opened \cup (IF s.type = "node" THEN {Id} ELSE {}) /\ ~Fatal(s)
    <3>1. s.type = "buffer" => s.mp # NoMp
      BY NoMpAssumption DEF Section
    <3> QED BY <2>1, <3>1 DEF Fatal
  <2> QED BY <2>1, <2>4, <2>5, MountedStep
<1> QED BY <1>1, <1>2, <1>3, <1>4, <1>5

LEMMA IInvStep == IInv /\ [Next]_vars => IInv'
<1> SUFFICES ASSUME IInv, [Next]_vars PROVE IInv'
  OBVIOUS
<1>1. CASE UNCHANGED vars \/ ParseHost \/ ParseIndex
  BY <1>1, QuietStep DEF vars, ParseHost, ParseIndex
<1>2. ASSUME NEW s \in Section,
             \/ MountMisconfigured(s) \/ MountCrashes(s) \/ MountFails(s) \/ Mount(s)
             \/ MountBuffer(s) \/ MountBufferFails(s) \/ MountBufferNoMem(s)
      PROVE  IInv'
  BY <1>2, ReadStep
<1>3. CASE Start \/ Stop
  BY <1>3, QuietStep DEF Start, Stop, Up
<1>4. ASSUME NEW p \in paths, Request(p) PROVE IInv'
  <2>1. run = "serving" /\ run' \in {"serving", "crashed"}
    BY <1>4 DEF Request
  <2> QED BY <1>4, <2>1, QuietStep DEF Request, Up
<1>5. ASSUME NEW m \in mounts, Unmount(m) PROVE IInv'
  BY <1>5, UnmountStep
<1>6. CASE Destroy
  BY <1>6, QuietStep DEF Destroy, Up
<1> QED BY <1>1, <1>2, <1>3, <1>4, <1>5, <1>6 DEF Next

LEMMA Inductive == Spec => []IInv
BY IInvInit, IInvStep, PTL DEF Spec

\* While requests are dispatched, the argument of every evhttp callback is a
\* mountpoint that is mounted, unless up_mount() ran out of memory.
THEOREM HandlersAlwaysLive == Spec => []HandlersLive
<1>1. IInv => HandlersLive
  BY DEF IInv, PathsExplained, HandlersLive, Up
<1> QED BY <1>1, Inductive, PTL

\* A path that several mountpoints of one name offer belongs to the first of
\* them: evhttp_set_cb() refuses it to the others.
THEOREM PathAlwaysOfFirst == Spec => []FirstMountOwnsPath
<1>1. IInv => FirstMountOwnsPath
  <2> SUFFICES ASSUME IInv, run = "serving", ~nomem, NEW m \in mounts,
                      NEW n \in AddedBy(sections[m].type)
               PROVE  LET offering == {k \in At(sections[m].mp) : n \in AddedBy(sections[k].type)}
                      IN  {p.arg : p \in {q \in paths : q.mp = sections[m].mp /\ q.name = n}}
                          = {Min(offering)}
    BY DEF FirstMountOwnsPath
  <2> DEFINE offering == {k \in At(sections[m].mp) : n \in AddedBy(sections[k].type)}
             registered == {q \in paths : q.mp = sections[m].mp /\ q.name = n}
  <2>1. Up
    BY DEF Up
  <2>2. registered # {}
    BY <2>1 DEF IInv, OffersRegistered
  <2>3. offering \subseteq Nat
    BY DEF IInv, Shape, At
  <2>4. \A k \in mounts : k \in offering <=> Offers(k, sections[m].mp, n)
    BY DEF At, Offers
  <2>5. ASSUME NEW p \in registered PROVE p.arg = Min(offering)
    <3>1. /\ p.arg \in mounts /\ Offers(p.arg, sections[m].mp, n)
          /\ \A k \in mounts : Offers(k, sections[m].mp, n) => p.arg <= k
      BY <2>1 DEF IInv, PathsExplained
    <3>2. offering \subseteq mounts
      BY DEF At
    <3>3. p.arg \in offering /\ \A k \in offering : p.arg <= k
      BY <2>4, <3>1, <3>2
    <3> HIDE DEF offering
    <3> QED BY <2>3, <3>3, MinUnique
  <2> HIDE DEF offering, registered
  <2>6. {p.arg : p \in registered} = {Min(offering)}
    BY <2>2, <2>5
  <2> QED BY <2>6 DEF offering, registered
<1> QED BY <1>1, Inductive, PTL

\* The node buffer_init() keeps is that of the mountpoint its section names,
\* and it is open while uploads can come.
THEOREM BufferNodeAlwaysOpen == Spec => []BufferNodeOpen
<1>1. IInv => BufferNodeOpen
  BY DEF IInv, NodesOpen, NodesOfBuffers, BufferNodeOpen, Up
<1> QED BY <1>1, Inductive, PTL

\* A server that comes up serves every good section of its config, whatever
\* sections its mount functions refused, and has none that ends the process.
THEOREM GoodSectionsAlwaysServed == Spec => []GoodSectionsServed
<1>1. IInv => GoodSectionsServed
  BY DEF IInv, GoodMounted, NoneFatal, GoodSectionsServed, Before, Up
<1> QED BY <1>1, Inductive, PTL

\* ahttpd_server_destroy() leaves no mountpoint, callback or open node.
THEOREM AlwaysAllReleased == Spec => []AllReleased
<1>1. IInv => AllReleased
  BY DEF IInv
<1> QED BY <1>1, Inductive, PTL
===========================================================================
