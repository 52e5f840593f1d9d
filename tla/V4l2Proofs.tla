---------------------------- MODULE V4l2Proofs ----------------------------
(***************************************************************************)
(* Theorems about V4l2, for any list of entries and any set of devices.     *)
(***************************************************************************)
EXTENDS V4l2, SequenceTheorems, WellFoundedInduction, TLAPS

\* An instance that has got through its init.
Through(k) == instances[k].fd # Closed

\* The types of what a mount works on. The array of instances is as long as
\* the loop of v4l2_mount() has come.
Shape ==
    /\ config \in Seq(Entry) /\ Len(config) <= MaxEntries
    /\ pc \in {"configure", "init", "set_input", "get_input", "mounted",
               "failed", "unmounted", "crashed"}
    /\ i \in 1 .. Len(config) + 1
    /\ instances \in Seq(Instance) /\ Len(instances) <= Len(config)
    /\ pc = "configure" => Len(instances) = i - 1
    /\ pc \in {"init", "set_input", "get_input"} => Len(instances) = i
    /\ heap \in SUBSET (1 .. Len(config)) /\ mappings \in SUBSET (1 .. Len(config))

\* Descriptors are handed out from the lowest one up, none is given back, and
\* no more of them are open than instances have been tried.
FdsDense ==
    \E n \in 0 .. MaxEntries :
        /\ DOMAIN fds = 1 .. n
        /\ pc \in {"configure", "init"} => n < i
        /\ pc \in {"set_input", "get_input"} => n <= i

\* Only the instance the loop is at, or was at when it gave up, is not through.
OnlyLastOpen ==
    /\ \A k \in DOMAIN instances :
         /\ instances[k].initialized => Through(k)
         /\ k < i /\ pc # "failed" => Through(k)
    /\ pc = "init" => ~Through(i)
    /\ pc \in {"set_input", "get_input"} => Through(i)

\* What an instance that is through holds.
Holds ==
    \A k \in DOMAIN instances : Through(k) =>
        /\ instances[k].fd \in DOMAIN fds
        /\ fds[instances[k].fd] = config[k].device
        /\ config[k].device \in Devices
        /\ instances[k].buffers \in heap \cup mappings
        /\ instances[k].buffers \in 1 .. k

\* Instances that are through share what belongs to a device, and only that.
Share ==
    \A a, b \in DOMAIN instances : Through(a) /\ Through(b) =>
        /\ config[a].device = config[b].device <=> instances[a].fd = instances[b].fd
        /\ config[a].device = config[b].device <=>
               instances[a].buffers = instances[b].buffers

\* A virtual device has its parent among the instances in front of it, and a
\* device without a parent is new.
ParentRight ==
    pc = "init" =>
        \/ /\ instances[i].parent \in 1 .. i - 1
           /\ config[instances[i].parent].device = config[i].device
        \/ /\ instances[i].parent = NoParent
           /\ \A k \in 1 .. i - 1 : config[k].device # config[i].device

IInv ==
    /\ Shape
    /\ FdsDense
    /\ OnlyLastOpen
    /\ Holds
    /\ Share
    /\ ParentRight
    /\ DescriptorsAccounted

---------------------------------------------------------------------------
\* A set of numbers that is not empty has a least one ...
LEMMA LeastNat ==
    ASSUME NEW T, T \subseteq Nat, T # {}
    PROVE  \E x \in T : \A y \in T : x <= y
<1>1. PICK x \in T : \A y \in T : ~ (<<y, x>> \in OpToRel(<, Nat))
  BY WFMin, NatLessThanWellFounded
<1>2. \A y \in T : ~ (y < x)
  BY <1>1 DEF OpToRel
<1> QED BY <1>2

\* ... and, where it is bounded, a greatest one: the parent v4l2_mount() ends up
\* with when it goes through the earlier instances to the end.
LEMMA GreatestNat ==
    ASSUME NEW n \in Nat, NEW T, T \subseteq 1 .. n, T # {}
    PROVE  \E x \in T : \A y \in T : y <= x
<1> DEFINE U == {n - y : y \in T}
<1>1. U \subseteq Nat /\ U # {}
  <2>1. PICK y \in T : TRUE
    OBVIOUS
  <2>2. n - y \in U
    OBVIOUS
  <2>3. \A z \in T : n - z \in Nat
    OBVIOUS
  <2> QED BY <2>2, <2>3
<1> HIDE DEF U
<1>2. PICK u \in U : \A v \in U : u <= v
  BY <1>1, LeastNat
<1>3. PICK x \in T : u = n - x
  BY DEF U
<1>4. ASSUME NEW y \in T PROVE y <= x
  <2>1. n - y \in U
    BY DEF U
  <2>2. u <= n - y
    BY <1>2, <2>1
  <2> QED BY <1>3, <2>2
<1> QED BY <1>4

\* What the search for a parent finds.
LEMMA ParentFound ==
    ASSUME i \in Nat \ {0}
    PROVE  \/ Parent \in 1 .. i - 1 /\ config[Parent].device = config[i].device
           \/ /\ Parent = NoParent
              /\ \A k \in 1 .. i - 1 : config[k].device # config[i].device
<1> DEFINE same == {j \in 1 .. i - 1 : config[j].device = Name}
<1>1. CASE same = {}
  BY <1>1 DEF Parent, Name, This
<1>2. CASE same # {}
  <2>1. \E x \in same : \A y \in same : y <= x
    <3>1. same \subseteq 1 .. i - 1 /\ i - 1 \in Nat
      OBVIOUS
    <3> HIDE DEF same
    <3> QED BY <1>2, <3>1, GreatestNat
  <2>2. Parent = CHOOSE x \in same : \A y \in same : y <= x
    BY <1>2 DEF Parent
  <2>3. Parent \in same
    BY <2>1, <2>2
  <2> QED BY <2>3 DEF Name, This
<1> QED BY <1>1, <1>2

\* The descriptor open() returns is the lowest one that is free.
LEMMA FreeFdLowest ==
    ASSUME NEW n \in Nat, n < MaxEntries, DOMAIN fds = 1 .. n
    PROVE  FreeFd = n + 1
<1> DEFINE free == Descriptors \ DOMAIN fds
<1>1. n + 1 \in free /\ \A e \in free : n + 1 <= e
  BY MaxEntriesAssumption DEF Descriptors
<1>2. FreeFd \in free /\ \A e \in free : FreeFd <= e
  BY <1>1 DEF FreeFd
<1>3. FreeFd <= n + 1 /\ n + 1 <= FreeFd
  BY <1>1, <1>2
<1> QED BY <1>2, <1>3 DEF Descriptors

---------------------------------------------------------------------------
\* The mount begins with nothing open.
LEMMA IInvInit == Init => IInv
<1> SUFFICES ASSUME Init PROVE IInv
  OBVIOUS
<1>1. config \in Seq(Entry) /\ Len(config) <= MaxEntries /\ Len(config) \in Nat
  <2>1. PICK n \in 0 .. MaxEntries : config \in [1 .. n -> Entry]
    BY DEF Init
  <2>2. config \in Seq(Entry)
    BY <2>1, MaxEntriesAssumption, SeqDef
  <2>3. Len(config) = n
    BY <2>1, <2>2, MaxEntriesAssumption
  <2> QED BY <2>1, <2>2, <2>3, MaxEntriesAssumption
<1>2. /\ pc = "configure" /\ i = 1 /\ instances = <<>> /\ heap = {} /\ mappings = {}
      /\ DOMAIN fds = 1 .. 0 /\ DOMAIN fds = {}
  BY DEF Init
<1>3. Shape
  BY <1>1, <1>2 DEF Shape
<1>4. FdsDense
  BY <1>2, MaxEntriesAssumption DEF FdsDense
<1>5. OnlyLastOpen /\ Holds /\ Share /\ ParentRight /\ DescriptorsAccounted
  BY <1>2 DEF OnlyLastOpen, Holds, Share, ParentRight, DescriptorsAccounted
<1> QED BY <1>3, <1>4, <1>5 DEF IInv

\* Steps that leave the instances alone: the mount gives up, ends or switches
\* an input. At most the buffers of an mmap grabber are left behind.
LEMMA QuietStep ==
    ASSUME IInv, config' = config, instances' = instances, i' = i, fds' = fds, heap' = heap,
           mappings \subseteq mappings', mappings' \subseteq 1 .. Len(config),
           \/ pc' = "failed"
           \/ pc = "mounted" /\ pc' = "unmounted"
           \/ pc = "configure" /\ pc' \in {"crashed", "mounted"}
           \/ pc = "set_input" /\ pc' = "get_input"
    PROVE  IInv'
<1>1. Shape'
  BY DEF IInv, Shape
<1>2. FdsDense'
  BY DEF IInv, FdsDense
<1>3. OnlyLastOpen'
  BY DEF IInv, OnlyLastOpen, Through
<1>4. Holds' /\ Share'
  BY DEF IInv, Holds, Share, Through
<1>5. ParentRight' /\ DescriptorsAccounted'
  BY DEF IInv, ParentRight, DescriptorsAccounted
<1> QED BY <1>1, <1>2, <1>3, <1>4, <1>5 DEF IInv

\* The next entry becomes an instance that is not open yet.
LEMMA ConfigureStep == IInv /\ Configure /\ config' = config => IInv'
<1> SUFFICES ASSUME IInv, Configure, config' = config PROVE IInv'
  OBVIOUS
<1> USE MaxEntriesAssumption
<1> DEFINE new == [parent |-> Parent, fd |-> Closed, buffers |-> NoBuffers,
                   initialized |-> FALSE]
<1>1. /\ pc = "configure" /\ i <= Len(config) /\ pc' = "init"
      /\ instances' = Append(instances, new)
      /\ i' = i /\ fds' = fds /\ heap' = heap /\ mappings' = mappings
  BY DEF Configure, kernelVars
<1>2. i \in Nat \ {0} /\ Len(config) \in Nat /\ Len(config) <= MaxEntries
  BY DEF IInv, Shape
<1>3. /\ instances \in Seq(Instance) /\ Len(instances) = i - 1
      /\ DOMAIN instances = 1 .. i - 1
  BY <1>1 DEF IInv, Shape
<1>4. \/ Parent \in 1 .. i - 1 /\ config[Parent].device = config[i].device
      \/ /\ Parent = NoParent
         /\ \A k \in 1 .. i - 1 : config[k].device # config[i].device
  BY <1>2, ParentFound
<1>5. new \in Instance
  <2>1. Parent \in 0 .. MaxEntries
    BY <1>1, <1>2, <1>4 DEF NoParent
  <2> QED BY <2>1 DEF Instance, Closed, NoBuffers
<1>6. new.fd = Closed /\ new.parent = Parent /\ ~new.initialized
  OBVIOUS
<1> HIDE DEF new
<1>7. /\ instances' \in Seq(Instance) /\ Len(instances') = i
      /\ DOMAIN instances' = 1 .. i /\ instances'[i] = new
      /\ \A k \in 1 .. i - 1 : instances'[k] = instances[k]
  BY <1>1, <1>2, <1>3, <1>5
<1>8. /\ ~Through(i)' /\ \A k \in 1 .. i - 1 : Through(k)' <=> Through(k)
  BY <1>1, <1>6, <1>7 DEF Through
<1>9. Shape'
  BY <1>1, <1>2, <1>7 DEF IInv, Shape
<1>10. FdsDense'
  BY <1>1 DEF IInv, FdsDense
<1>11. \A k \in DOMAIN instances' : k # i => k \in DOMAIN instances
  BY <1>2, <1>3, <1>7
<1>12. OnlyLastOpen'
  BY <1>1, <1>2, <1>3, <1>6, <1>7, <1>8, <1>11 DEF IInv, OnlyLastOpen
<1>13. Holds'
  BY <1>1, <1>3, <1>7, <1>8, <1>11 DEF IInv, Holds
<1>14. Share'
  BY <1>1, <1>3, <1>7, <1>8, <1>11 DEF IInv, Share
<1>15. ParentRight'
  BY <1>1, <1>4, <1>6, <1>7 DEF ParentRight
<1>16. DescriptorsAccounted'
  <2>1. {k \in DOMAIN instances' : instances'[k].fd # Closed}
        = {k \in DOMAIN instances : instances[k].fd # Closed}
    BY <1>2, <1>3, <1>6, <1>7
  <2>2. \A k \in DOMAIN instances : instances'[k] = instances[k]
    BY <1>3, <1>7
  <2> QED BY <1>1, <2>1, <2>2 DEF IInv, DescriptorsAccounted
<1> QED BY <1>9, <1>10, <1>12, <1>13, <1>14, <1>15, <1>16 DEF IInv

\* What the end of an init leaves of the array.
LEMMA InstanceOpened ==
    ASSUME Shape, pc = "init", NEW fd \in Descriptors, NEW b \in 1 .. MaxEntries,
           instances' = [instances EXCEPT ![i].fd = fd, ![i].buffers = b]
    PROVE  /\ instances' \in Seq(Instance) /\ Len(instances') = Len(instances)
           /\ DOMAIN instances = 1 .. i /\ DOMAIN instances' = 1 .. i
           /\ instances'[i].fd = fd /\ instances'[i].buffers = b
           /\ instances'[i].initialized = instances[i].initialized
           /\ \A k \in 1 .. i : k # i => instances'[k] = instances[k]
<1> DEFINE new == [instances[i] EXCEPT !.fd = fd, !.buffers = b]
<1>1. instances \in Seq(Instance) /\ DOMAIN instances = 1 .. i /\ i \in 1 .. i
  BY DEF Shape
<1>2. instances[i] \in Instance
  BY <1>1
<1>3. new.fd = fd /\ new.buffers = b /\ new.initialized = instances[i].initialized
  BY <1>2 DEF Instance
<1>5. new \in Instance
  <2>1. fd \in Descriptors \cup {Closed} /\ b \in 0 .. MaxEntries
    BY MaxEntriesAssumption
  <2> QED BY <1>2, <2>1 DEF Instance
<1>4. instances' = [instances EXCEPT ![i] = new]
  BY <1>1, <1>2
<1> HIDE DEF new
<1>6. instances' \in Seq(Instance) /\ Len(instances') = Len(instances)
  <2>1. PICK n \in Nat : n = i /\ instances \in [1 .. n -> Instance] /\ Len(instances) = n
    BY <1>1 DEF Shape
  <2>2. instances' \in [1 .. n -> Instance]
    BY <1>4, <1>5, <2>1
  <2>3. instances' \in Seq(Instance)
    BY <2>2, SeqDef
  <2> QED BY <2>1, <2>2, <2>3
<1>7. DOMAIN instances' = 1 .. i /\ instances'[i] = new
  BY <1>1, <1>4
<1>8. \A k \in 1 .. i : k # i => instances'[k] = instances[k]
  BY <1>1, <1>4
<1> QED BY <1>1, <1>3, <1>6, <1>7, <1>8

\* An instance is through: it holds a descriptor of its device, and shares it
\* and the buffers with just the earlier instances of that device.
LEMMA OpenedStep ==
    ASSUME IInv, pc = "init", pc' = "set_input", config' = config, i' = i,
           NEW fd \in Descriptors, NEW b \in 1 .. i,
           instances' = [instances EXCEPT ![i].fd = fd, ![i].buffers = b],
           FdsDense',
           DOMAIN fds' = DOMAIN fds \cup {fd}, fds'[fd] = config[i].device,
           config[i].device \in Devices,
           \A d \in DOMAIN fds : fds'[d] = fds[d],
           heap \subseteq heap', mappings \subseteq mappings', b \in heap' \cup mappings',
           heap' \subseteq heap \cup {b}, mappings' \subseteq mappings \cup {b},
           \A k \in 1 .. i - 1 :
              /\ config[k].device = config[i].device <=> instances[k].fd = fd
              /\ config[k].device = config[i].device <=> instances[k].buffers = b
    PROVE  IInv'
<1> USE MaxEntriesAssumption
<1>1. i \in Nat \ {0} /\ Len(config) \in Nat /\ i <= Len(config) /\ Len(config) <= MaxEntries
  BY DEF IInv, Shape
<1>2. b \in 1 .. MaxEntries
  BY <1>1
<1>3. /\ instances' \in Seq(Instance) /\ Len(instances') = Len(instances)
      /\ DOMAIN instances = 1 .. i /\ DOMAIN instances' = 1 .. i
      /\ instances'[i].fd = fd /\ instances'[i].buffers = b
      /\ instances'[i].initialized = instances[i].initialized
      /\ \A k \in 1 .. i : k # i => instances'[k] = instances[k]
  BY <1>2, InstanceOpened DEF IInv
<1>4. /\ Through(i)' /\ ~Through(i)
      /\ \A k \in 1 .. i - 1 : Through(k) /\ Through(k)'
  <2>1. fd # Closed
    BY DEF Closed, Descriptors
  <2>2. \A k \in 1 .. i - 1 : Through(k) /\ instances'[k] = instances[k]
    BY <1>1, <1>3 DEF IInv, OnlyLastOpen
  <2>3. ~Through(i)
    BY DEF IInv, OnlyLastOpen
  <2> QED BY <1>1, <1>3, <2>1, <2>2, <2>3 DEF Through
<1>5. Shape'
  BY <1>1, <1>3 DEF IInv, Shape
<1>6. \A k \in 1 .. i : k = i \/ (k \in 1 .. i - 1 /\ instances'[k] = instances[k])
  BY <1>1, <1>3
<1>7. OnlyLastOpen'
  BY <1>1, <1>3, <1>4, <1>6 DEF OnlyLastOpen
<1>8. Holds'
  <2> SUFFICES ASSUME NEW k \in 1 .. i
               PROVE  /\ instances'[k].fd \in DOMAIN fds'
                      /\ fds'[instances'[k].fd] = config[k].device
                      /\ config[k].device \in Devices
                      /\ instances'[k].buffers \in heap' \cup mappings'
                      /\ instances'[k].buffers \in 1 .. k
    BY <1>3 DEF Holds
  <2>1. CASE k = i
    BY <1>3, <2>1
  <2>2. CASE k \in 1 .. i - 1 /\ instances'[k] = instances[k]
    <3>1. /\ instances[k].fd \in DOMAIN fds
          /\ fds[instances[k].fd] = config[k].device
          /\ config[k].device \in Devices
          /\ instances[k].buffers \in heap \cup mappings
          /\ instances[k].buffers \in 1 .. k
      BY <1>3, <1>4, <2>2 DEF IInv, Holds
    <3> QED BY <2>2, <3>1
  <2> QED BY <1>6, <2>1, <2>2
<1>9. Share'
  <2>1. \A x, y \in 1 .. i - 1 :
           /\ config[x].device = config[y].device <=> instances[x].fd = instances[y].fd
           /\ config[x].device = config[y].device <=>
                  instances[x].buffers = instances[y].buffers
    BY <1>1, <1>3, <1>4 DEF IInv, Share
  <2> SUFFICES ASSUME NEW x \in 1 .. i, NEW y \in 1 .. i
               PROVE  /\ config[x].device = config[y].device <=>
                            instances'[x].fd = instances'[y].fd
                      /\ config[x].device = config[y].device <=>
                            instances'[x].buffers = instances'[y].buffers
    BY <1>3 DEF Share
  <2> QED BY <1>3, <1>6, <2>1
<1>10. ParentRight'
  BY DEF ParentRight
<1>11. DescriptorsAccounted'
  <2>1. /\ DOMAIN fds = {instances[k].fd : k \in 1 .. i - 1}
        /\ heap \subseteq {instances[k].buffers : k \in 1 .. i - 1}
    <3>1. {k \in DOMAIN instances : instances[k].fd # Closed} = 1 .. i - 1
      BY <1>1, <1>3, <1>4 DEF Through
    <3> QED BY <3>1 DEF IInv, DescriptorsAccounted
  <2>2. {k \in DOMAIN instances' : instances'[k].fd # Closed} = 1 .. i
    BY <1>1, <1>3, <1>4, <1>6 DEF Through
  <2>3. DOMAIN fds' = {instances'[k].fd : k \in 1 .. i}
    BY <1>1, <1>3, <1>6, <2>1
  <2>4. heap' \subseteq {instances'[k].buffers : k \in 1 .. i}
    BY <1>1, <1>3, <1>6, <2>1
  <2> QED BY <2>2, <2>3, <2>4 DEF DescriptorsAccounted
<1> QED BY <1>5, <1>7, <1>8, <1>9, <1>10, <1>11 DEF IInv

\* While an instance is to be opened, all instances in front of it are through.
LEMMA EarlierThrough ==
    ASSUME IInv, pc = "init"
    PROVE  /\ i \in Nat \ {0} /\ i <= Len(config) /\ Len(config) <= MaxEntries
           /\ DOMAIN instances = 1 .. i
           /\ \A k \in 1 .. i - 1 : k \in DOMAIN instances /\ Through(k)
<1>1. /\ i \in Nat \ {0} /\ i <= Len(config) /\ Len(config) <= MaxEntries
      /\ DOMAIN instances = 1 .. i
  BY DEF IInv, Shape
<1>2. \A k \in 1 .. i - 1 : k \in DOMAIN instances /\ k < i
  BY <1>1
<1> QED BY <1>1, <1>2 DEF IInv, OnlyLastOpen

\* A virtual device.
LEMMA VirtualStep == IInv /\ InitVirtual /\ config' = config => IInv'
<1> SUFFICES ASSUME IInv, InitVirtual, config' = config PROVE IInv'
  OBVIOUS
<1> USE MaxEntriesAssumption
<1>1. /\ pc = "init" /\ pc' = "set_input" /\ i' = i /\ instances[i].parent # NoParent
      /\ fds' = fds /\ heap' = heap /\ mappings' = mappings
      /\ instances' = [instances EXCEPT ![i].fd = instances[instances[i].parent].fd,
                                        ![i].buffers = instances[instances[i].parent].buffers]
  BY DEF InitVirtual, kernelVars
<1>2. PICK p \in 1 .. i - 1 : p = instances[i].parent /\ config[p].device = config[i].device
  BY <1>1 DEF IInv, ParentRight
<1>3. /\ i \in Nat \ {0} /\ i <= Len(config) /\ Len(config) <= MaxEntries
      /\ DOMAIN instances = 1 .. i
      /\ \A k \in 1 .. i - 1 : k \in DOMAIN instances /\ Through(k)
  BY <1>1, EarlierThrough
<1>4. FdsDense' /\ DOMAIN fds \subseteq Descriptors
  <2>1. PICK n \in 0 .. MaxEntries : DOMAIN fds = 1 .. n /\ n < i
    BY <1>1 DEF IInv, FdsDense
  <2>2. n <= i
    BY <1>3, <2>1
  <2> QED BY <1>1, <2>1, <2>2 DEF FdsDense, Descriptors
<1>5. PICK fd \in Descriptors : fd = instances[p].fd
  BY <1>2, <1>3, <1>4 DEF IInv, Holds
<1>6. PICK b \in 1 .. i : b = instances[p].buffers
  <2>1. instances[p].buffers \in 1 .. p
    BY <1>2, <1>3 DEF IInv, Holds
  <2> QED BY <1>2, <1>3, <2>1
<1>7. /\ fd \in DOMAIN fds /\ fds[fd] = config[i].device /\ config[i].device \in Devices
      /\ b \in heap \cup mappings
  BY <1>2, <1>3, <1>5, <1>6 DEF IInv, Holds
<1>8. \A k \in 1 .. i - 1 :
         /\ config[k].device = config[i].device <=> instances[k].fd = fd
         /\ config[k].device = config[i].device <=> instances[k].buffers = b
  BY <1>2, <1>3, <1>5, <1>6 DEF IInv, Share
<1>9. /\ instances' = [instances EXCEPT ![i].fd = fd, ![i].buffers = b]
      /\ DOMAIN fds' = DOMAIN fds \cup {fd} /\ fds'[fd] = config[i].device
      /\ \A d \in DOMAIN fds : fds'[d] = fds[d]
      /\ heap \subseteq heap' /\ mappings \subseteq mappings'
      /\ b \in heap' \cup mappings'
      /\ heap' \subseteq heap \cup {b} /\ mappings' \subseteq mappings \cup {b}
  BY <1>1, <1>2, <1>5, <1>6, <1>7
<1> QED BY <1>1, <1>4, <1>7, <1>8, <1>9, OpenedStep

\* A device that is opened.
LEMMA RealStep == IInv /\ InitDone /\ config' = config => IInv'
<1> SUFFICES ASSUME IInv, InitDone, config' = config PROVE IInv'
  OBVIOUS
<1> USE MaxEntriesAssumption
<1>1. /\ pc = "init" /\ pc' = "set_input" /\ i' = i /\ instances[i].parent = NoParent
      /\ config[i].device \in Devices
      /\ fds' = Opened
      /\ heap' = heap \cup Frames(config[i].iomethod)
      /\ mappings' = mappings \cup Mapped(config[i].iomethod)
      /\ instances' = [instances EXCEPT ![i].fd = FreeFd, ![i].buffers = i]
  BY DEF InitDone, InitReal, Name, This
<1>2. /\ i \in Nat \ {0} /\ i <= Len(config) /\ Len(config) <= MaxEntries
      /\ DOMAIN instances = 1 .. i
      /\ \A k \in 1 .. i - 1 : k \in DOMAIN instances /\ Through(k)
  BY <1>1, EarlierThrough
<1>3. PICK n \in Nat : DOMAIN fds = 1 .. n /\ n < i
  BY <1>1 DEF IInv, FdsDense
<1>4. Len(config) \in Nat /\ n < MaxEntries
  BY <1>2, <1>3 DEF IInv, Shape
<1>5. PICK fd \in Descriptors : fd = FreeFd /\ fd = n + 1
  BY <1>3, <1>4, FreeFdLowest DEF Descriptors
<1>6. /\ DOMAIN fds' = DOMAIN fds \cup {fd} /\ fds'[fd] = config[i].device
      /\ fd \notin DOMAIN fds /\ \A d \in DOMAIN fds : fds'[d] = fds[d]
  <2>1. fds' = [d \in DOMAIN fds \cup {fd} |-> IF d = fd THEN config[i].device ELSE fds[d]]
    BY <1>1, <1>5 DEF Opened, Name, This
  <2>2. fd \notin DOMAIN fds
    BY <1>3, <1>5
  <2> QED BY <2>1, <2>2
<1>7. FdsDense'
  <2>1. DOMAIN fds' = 1 .. n + 1 /\ n + 1 \in 0 .. MaxEntries /\ n + 1 <= i
    BY <1>2, <1>3, <1>4, <1>5, <1>6
  <2> QED BY <1>1, <2>1 DEF FdsDense
<1>8. /\ heap \subseteq heap' /\ mappings \subseteq mappings' /\ i \in heap' \cup mappings'
      /\ heap' \subseteq heap \cup {i} /\ mappings' \subseteq mappings \cup {i}
  BY <1>1 DEF Frames, Mapped
<1>9. \A k \in 1 .. i - 1 : config[k].device # config[i].device
  BY <1>1, <1>2 DEF IInv, ParentRight, NoParent
<1>10. \A k \in 1 .. i - 1 : instances[k].fd # fd /\ instances[k].buffers # i
  <2> SUFFICES ASSUME NEW k \in 1 .. i - 1
               PROVE  instances[k].fd # fd /\ instances[k].buffers # i
    OBVIOUS
  <2>1. instances[k].fd \in DOMAIN fds /\ instances[k].buffers \in 1 .. k
    BY <1>2 DEF IInv, Holds
  <2> QED BY <1>2, <1>6, <2>1
<1>11. PICK b \in 1 .. i : b = i
  BY <1>2
<1>12. /\ instances' = [instances EXCEPT ![i].fd = fd, ![i].buffers = b]
       /\ b \in heap' \cup mappings'
       /\ heap' \subseteq heap \cup {b} /\ mappings' \subseteq mappings \cup {b}
       /\ \A k \in 1 .. i - 1 :
             /\ config[k].device = config[i].device <=> instances[k].fd = fd
             /\ config[k].device = config[i].device <=> instances[k].buffers = b
  BY <1>1, <1>5, <1>8, <1>9, <1>10, <1>11
<1> QED BY <1>1, <1>6, <1>7, <1>8, <1>12, OpenedStep

\* The instance is ready and the loop goes on.
LEMMA GetInputStep == IInv /\ GetInput /\ config' = config => IInv'
<1> SUFFICES ASSUME IInv, GetInput, config' = config PROVE IInv'
  OBVIOUS
<1>1. /\ pc = "get_input" /\ pc' = "configure" /\ i' = i + 1
      /\ fds' = fds /\ heap' = heap /\ mappings' = mappings
      /\ instances' = [instances EXCEPT ![i].initialized = TRUE]
  BY DEF GetInput, kernelVars
<1>2. /\ instances \in Seq(Instance) /\ i \in Nat \ {0} /\ DOMAIN instances = 1 .. i
      /\ Len(instances) = i /\ i <= Len(config) /\ Len(config) \in Nat
  BY <1>1 DEF IInv, Shape
<1> DEFINE new == [instances[i] EXCEPT !.initialized = TRUE]
<1>3. instances[i] \in Instance
  BY <1>2
<1>4. /\ new.fd = instances[i].fd /\ new.buffers = instances[i].buffers
      /\ new.parent = instances[i].parent
  BY <1>3 DEF Instance
<1>5. new \in Instance
  BY <1>3 DEF Instance
<1> HIDE DEF new
<1>6. instances' = [instances EXCEPT ![i] = new]
  BY <1>1 DEF new
<1>7. instances' \in Seq(Instance) /\ Len(instances') = i /\ DOMAIN instances' = 1 .. i
  <2>1. PICK n \in Nat : n = i /\ instances \in [1 .. n -> Instance]
    BY <1>2
  <2>2. instances' \in [1 .. n -> Instance]
    BY <1>5, <1>6, <2>1
  <2>3. instances' \in Seq(Instance)
    BY <2>2, SeqDef
  <2> QED BY <2>1, <2>2, <2>3
<1>8. \A k \in 1 .. i : /\ instances'[k].fd = instances[k].fd
                         /\ instances'[k].buffers = instances[k].buffers
  BY <1>2, <1>4, <1>6
<1>9. \A k \in 1 .. i : Through(k) /\ Through(k)'
  <2>1. \A k \in 1 .. i : Through(k)
    BY <1>1, <1>2 DEF IInv, OnlyLastOpen
  <2> QED BY <1>8, <2>1 DEF Through
<1>10. Shape'
  BY <1>1, <1>2, <1>7 DEF IInv, Shape
<1>11. FdsDense'
  <2>1. PICK n \in 0 .. MaxEntries : DOMAIN fds = 1 .. n /\ n <= i
    BY <1>1 DEF IInv, FdsDense
  <2>2. n < i + 1
    BY <1>2, <2>1, MaxEntriesAssumption
  <2> QED BY <1>1, <2>1, <2>2 DEF FdsDense
<1>12. OnlyLastOpen' /\ ParentRight'
  BY <1>1, <1>7, <1>9 DEF OnlyLastOpen, ParentRight
<1>13. Holds'
  BY <1>1, <1>2, <1>7, <1>8, <1>9 DEF IInv, Holds
<1>14. Share'
  BY <1>2, <1>7, <1>8, <1>9 DEF IInv, Share
<1>15. DescriptorsAccounted'
  <2>1. {k \in DOMAIN instances : instances[k].fd # Closed} = 1 .. i
    BY <1>2, <1>9 DEF Through
  <2>2. {k \in DOMAIN instances' : instances'[k].fd # Closed} = 1 .. i
    BY <1>7, <1>9 DEF Through
  <2>3. /\ DOMAIN fds = {instances[k].fd : k \in 1 .. i}
        /\ heap \subseteq {instances[k].buffers : k \in 1 .. i}
    BY <2>1 DEF IInv, DescriptorsAccounted
  <2>4. /\ DOMAIN fds' = {instances'[k].fd : k \in 1 .. i}
        /\ heap' \subseteq {instances'[k].buffers : k \in 1 .. i}
    BY <1>1, <1>8, <2>3
  <2> QED BY <2>2, <2>4 DEF DescriptorsAccounted
<1> QED BY <1>10, <1>11, <1>12, <1>13, <1>14, <1>15 DEF IInv

---------------------------------------------------------------------------
LEMMA IInvStep == IInv /\ [Next]_vars => IInv'
<1> SUFFICES ASSUME IInv, [Next]_vars PROVE IInv'
  OBVIOUS
<1>1. CASE UNCHANGED vars
  <2>1. /\ config' = config /\ pc' = pc /\ i' = i /\ instances' = instances
        /\ fds' = fds /\ heap' = heap /\ mappings' = mappings
    BY <1>1 DEF vars, instVars, kernelVars
  <2>2. Shape' /\ FdsDense'
    BY <2>1 DEF IInv, Shape, FdsDense
  <2>3. OnlyLastOpen' /\ Holds' /\ Share'
    BY <2>1 DEF IInv, OnlyLastOpen, Holds, Share, Through
  <2>4. ParentRight' /\ DescriptorsAccounted'
    BY <2>1 DEF IInv, ParentRight, DescriptorsAccounted
  <2> QED BY <2>2, <2>3, <2>4 DEF IInv
<1>2. CASE Next
  <2>1. config' = config
    BY <1>2 DEF Next
  <2>2. mappings \in SUBSET (1 .. Len(config))
    BY DEF IInv, Shape
  <2>3. CASE EpicFail
    BY <2>1, <2>2, <2>3, QuietStep DEF EpicFail, CleanupDevices, instVars, kernelVars
  <2>4. CASE NamelessEntry \/ Mounted \/ Unmount
    BY <2>1, <2>2, <2>4, QuietStep
    DEF NamelessEntry, Mounted, Unmount, instVars, kernelVars
  <2>5. CASE SetInput
    BY <2>1, <2>2, <2>5, QuietStep DEF SetInput, instVars
  <2>6. CASE InitFails
    <3>1. mappings \subseteq mappings' /\ mappings' \subseteq mappings \cup {i}
      BY <2>6 DEF InitFails, CommonCleanup, Mapped
    <3>2. i \in 1 .. Len(config)
      BY <2>6 DEF InitFails, InitReal, IInv, Shape
    <3> QED BY <2>1, <2>2, <2>6, <3>1, <3>2, QuietStep
            DEF InitFails, CommonCleanup, instVars
  <2>7. CASE Configure \/ InitVirtual \/ InitDone \/ GetInput
    BY <2>1, <2>7, ConfigureStep, VirtualStep, RealStep, GetInputStep
  <2> QED BY <1>2, <2>3, <2>4, <2>5, <2>6, <2>7 DEF Next, BadEntry, OpenFails, InputFails
<1> QED BY <1>1, <1>2

LEMMA Inductive == Spec => []IInv
BY IInvInit, IInvStep, PTL DEF Spec

\* A capture device is opened once however often and in whatever order the
\* config lists it, and the instances of one device share one set of buffers.
THEOREM DescriptorAlwaysOnePerDevice == Spec => []OneDescriptorPerDevice
<1>1. IInv => OneDescriptorPerDevice
  BY DEF IInv, OnlyLastOpen, Holds, Share, OneDescriptorPerDevice, Ready
<1> QED BY <1>1, Inductive, PTL

\* Wherever the set-up of the grabbers fails, the process holds exactly the
\* descriptors of the instances that got through device_common_init().
THEOREM DescriptorsAlwaysAccounted == Spec => []DescriptorsAccounted
<1>1. IInv => DescriptorsAccounted
  BY DEF IInv
<1> QED BY <1>1, Inductive, PTL
===========================================================================
