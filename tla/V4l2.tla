------------------------------- MODULE V4l2 -------------------------------
(***************************************************************************)
(* Mounting a v4l2 filesystem (fs_v4l2.c) and the set-up of its grabbers    *)
(* (v4l2_read.c). The config lists capture devices; entries that name the   *)
(* same device share one descriptor and one set of buffers: the later ones  *)
(* are virtual. Any system call on a device may fail, and the first failure *)
(* ends the mount.                                                          *)
(***************************************************************************)
EXTENDS Naturals, Sequences, FiniteSets

CONSTANTS
    Devices,    \* paths of capture devices
    NoDevice,   \* an entry without a "device": a NULL path
    Inputs,     \* numbers of a device's inputs
    MaxEntries  \* bound on the entries of the config

ASSUME NoDeviceAssumption == NoDevice \notin Devices

Grabbers == {"read", "mmap", "userptr"}

\* An element of "devices": an object or not, with a known iomethod or not.
Entry == [object : BOOLEAN, device : Devices \cup {NoDevice},
          iomethod : Grabbers \cup {"bad"}, input : Inputs]
ASSUME MaxEntriesAssumption == MaxEntries \in Nat

VARIABLES
    config,     \* the "devices" array
    pc,         \* the place in v4l2_mount()
    i,          \* the instance of the loop, counted from 1
    instances,  \* data->instances, those configured (a failed mount frees the
                \* array; what it held is kept here for the properties)
    fds,        \* descriptors of the process: the device each is open on
    heap,       \* frame buffers that are allocated, by the instance that did it
    mappings,   \* mmap grabbers: buffer array and mappings, likewise
    selected    \* the input each device is switched to

instVars == <<i, instances>>
kernelVars == <<fds, heap, mappings, selected>>
vars == <<config, pc, instVars, kernelVars>>

Descriptors == 1 .. MaxEntries
Closed == 0      \* data->fd == -1
NoParent == 0
NoBuffers == 0   \* else the instance whose init allocated them

Instance == [parent : 0 .. MaxEntries, fd : Descriptors \cup {Closed},
             buffers : 0 .. MaxEntries, initialized : BOOLEAN]

TypeOK ==
    /\ pc \in {"configure", "init", "set_input", "get_input", "mounted",
               "failed", "unmounted", "crashed"}
    /\ i \in 1 .. Len(config) + 1
    /\ \A k \in DOMAIN instances : instances[k] \in Instance
    /\ \A d \in DOMAIN fds : d \in Descriptors /\ fds[d] \in Devices
    /\ heap \subseteq 1 .. Len(config) /\ mappings \subseteq 1 .. Len(config)
    /\ heap \cap mappings = {}
    /\ selected \in [Devices -> Inputs]

Init ==
    /\ config \in UNION {[1 .. n -> Entry] : n \in 0 .. MaxEntries}
    /\ pc = "configure"
    /\ i = 1
    /\ instances = <<>>
    /\ fds = <<>>
    /\ heap = {} /\ mappings = {}
    /\ selected \in [Devices -> Inputs]

This == config[i]
Name == This.device

---------------------------------------------------------------------------
(* The loop of v4l2_mount()                                                *)

\* cleanup_devices(): num_instances is nowhere set, so nothing is closed or
\* freed but the array of instances itself.
CleanupDevices == UNCHANGED kernelVars

\* epic_fail
EpicFail ==
    /\ pc' = "failed"
    /\ CleanupDevices
    /\ UNCHANGED instVars

\* Not an object, or a grabbing method that is missing or unknown.
BadEntry ==
    /\ pc = "configure" /\ i <= Len(config)
    /\ ~This.object \/ This.iomethod = "bad"
    /\ EpicFail

\* strcmp() with the name of an earlier instance when this one has none.
NamelessEntry ==
    /\ pc = "configure" /\ i <= Len(config)
    /\ This.object /\ This.iomethod # "bad"
    /\ Name = NoDevice /\ i > 1
    /\ pc' = "crashed"
    /\ UNCHANGED <<instVars, kernelVars>>

\* Faulty variant: only the entry in front is compared.
ParentNeighbour ==
    IF i > 1 /\ config[i - 1].device = Name THEN i - 1 ELSE NoParent

\* The last earlier instance of the same device.
Parent ==
    LET same == {j \in 1 .. i - 1 : config[j].device = Name} IN
    IF same = {} THEN NoParent
    ELSE CHOOSE j \in same : \A k \in same : k <= j

Configure ==
    /\ pc = "configure" /\ i <= Len(config)
    /\ This.object /\ This.iomethod # "bad"
    /\ Name # NoDevice \/ i = 1
    /\ instances' = Append(instances, [parent |-> Parent, fd |-> Closed,
                                       buffers |-> NoBuffers, initialized |-> FALSE])
    /\ pc' = "init"
    /\ UNCHANGED <<i, kernelVars>>

---------------------------------------------------------------------------
(* device_common_init() and the init of the grabbers                       *)

\* A virtual device takes everything from its parent.
InitVirtual ==
    LET p == instances[i].parent IN
    /\ pc = "init" /\ p # NoParent
    /\ instances' = [instances EXCEPT ![i].fd = instances[p].fd,
                                      ![i].buffers = instances[p].buffers]
    /\ pc' = "set_input"
    /\ UNCHANGED <<i, kernelVars>>

InitReal == pc = "init" /\ instances[i].parent = NoParent

\* open_device(): no such file, not a device, or open() fails.
OpenFails == InitReal /\ EpicFail

FreeFd == CHOOSE d \in Descriptors \ DOMAIN fds :
            \A e \in Descriptors \ DOMAIN fds : d <= e
Opened == [d \in DOMAIN fds \cup {FreeFd} |-> IF d = FreeFd THEN Name ELSE fds[d]]

\* What the init of grabber g has allocated when it is through.
Frames(g) == IF g = "mmap" THEN {} ELSE {i}
Mapped(g) == IF g = "mmap" THEN {i} ELSE {}

\* Faulty variant: the descriptor is left open.
CommonCleanupKeepsFd(allocated) ==
    /\ fds' = Opened
    /\ mappings' = mappings \cup (allocated \cap Mapped(This.iomethod))
    /\ UNCHANGED <<heap, selected>>

\* A device that was opened, and whose init has got as far as allocated,
\* is given up: device_common_cleanup() closes the descriptor and frees the
\* frames. device_common_init() has closed it before; nothing is opened between
\* the two, so that the second close() finds no descriptor and changes nothing.
\* The array and the mappings of an mmap grabber are forgotten.
CommonCleanup(allocated) ==
    /\ fds' = fds
    /\ mappings' = mappings \cup (allocated \cap Mapped(This.iomethod))
    /\ UNCHANGED <<heap, selected>>

\* A capability, a format or a buffer is refused. Only with mmap can init fail
\* behind the allocation: allocate_frames() gives its frames back by itself.
InitFails ==
    /\ InitReal /\ Name \in Devices
    /\ \E allocated \in SUBSET Mapped(This.iomethod) : CommonCleanup(allocated)
    /\ pc' = "failed"
    /\ UNCHANGED instVars

InitDone ==
    /\ InitReal /\ Name \in Devices
    /\ fds' = Opened
    /\ heap' = heap \cup Frames(This.iomethod)
    /\ mappings' = mappings \cup Mapped(This.iomethod)
    /\ instances' = [instances EXCEPT ![i].fd = FreeFd, ![i].buffers = i]
    /\ pc' = "set_input"
    /\ UNCHANGED <<i, selected>>

---------------------------------------------------------------------------
(* The input                                                               *)

SetInput ==
    /\ pc = "set_input"
    /\ selected' = [selected EXCEPT ![fds[instances[i].fd]] = This.input]
    /\ pc' = "get_input"
    /\ UNCHANGED <<instVars, fds, heap, mappings>>

\* VIDIOC_S_INPUT, VIDIOC_G_INPUT or VIDIOC_ENUMINPUT fails.
InputFails == pc \in {"set_input", "get_input"} /\ EpicFail

GetInput ==
    /\ pc = "get_input"
    /\ instances' = [instances EXCEPT ![i].initialized = TRUE]
    /\ i' = i + 1
    /\ pc' = "configure"
    /\ UNCHANGED kernelVars

Mounted ==
    /\ pc = "configure" /\ i = Len(config) + 1
    /\ pc' = "mounted"
    /\ UNCHANGED <<instVars, kernelVars>>

\* v4l2_unmount() only removes a path.
Unmount ==
    /\ pc = "mounted"
    /\ pc' = "unmounted"
    /\ UNCHANGED <<instVars, kernelVars>>

Next ==
    /\ \/ BadEntry \/ NamelessEntry \/ Configure
       \/ InitVirtual \/ OpenFails \/ InitFails \/ InitDone
       \/ SetInput \/ InputFails \/ GetInput
       \/ Mounted \/ Unmount
    /\ UNCHANGED config

Spec == Init /\ [][Next]_vars

---------------------------------------------------------------------------
(* Properties.                                                             *)

Ready == {k \in DOMAIN instances : instances[k].initialized}

\* A device is opened once however often and in whatever order the config
\* lists it: two instances that are ready have the same descriptor if and only
\* if they have the same device, the descriptor is open on that device, and
\* they share buffers that are allocated.
OneDescriptorPerDevice ==
    pc # "failed" =>
        \A a, b \in Ready :
            /\ instances[a].fd \in DOMAIN fds
            /\ fds[instances[a].fd] = config[a].device
            /\ instances[a].buffers \in heap \cup mappings
            /\ config[a].device = config[b].device <=>
                    instances[a].fd = instances[b].fd
            /\ config[a].device = config[b].device <=>
                    instances[a].buffers = instances[b].buffers

\* Whatever fails, and wherever in the list, the process holds exactly the
\* descriptors of the instances that got through their init, one per device:
\* the instance that fails to init gives back what it took itself.
DescriptorsAccounted ==
    LET through == {k \in DOMAIN instances : instances[k].fd # Closed} IN
    /\ DOMAIN fds = {instances[k].fd : k \in through}
    /\ heap \subseteq {instances[k].buffers : k \in through}
===========================================================================
