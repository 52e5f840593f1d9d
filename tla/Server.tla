------------------------------ MODULE Server ------------------------------
(***************************************************************************)
(* The life of a server: the config file is read key by key, its            *)
(* "mountpoints" section by section (server.c, vfs.c and the mount functions *)
(* of the filesystems), requests are dispatched to the paths the            *)
(* mountpoints registered, and ahttpd_server_destroy takes all of it apart. *)
(*                                                                          *)
(* A mountpoint is identified by the number of the section it comes from.   *)
(* The list of mountpoints is kept with list_add_tail and taken apart from   *)
(* its head, so its order is that of the numbers and the model keeps a set.  *)
(* evhttp is external: evhttp_set_cb refuses a path that is registered       *)
(* already, evhttp_del_cb removes a path by its name, and no request is      *)
(* dispatched outside the event loop.                                        *)
(***************************************************************************)
EXTENDS Naturals, Sequences, FiniteSetsExt

CONSTANTS
    Mountpoints,  \* "mountpoint" strings
    NoMp,         \* a "mountpoint" or "owner" key that is not there
    MaxSections   \* bound: sections in the config file

ASSUME NoMpAssumption == NoMp \notin Mountpoints
ASSUME MaxSectionsAssumption == MaxSections \in Nat

VARIABLES
    run,       \* where ahttpd_server_create, the event loop and
               \* ahttpd_server_destroy are, or how the process ended
    host,      \* server->host: the literal "127.0.0.1" or a copy on the heap
    index,     \* server->index: NULL or a copy on the heap
    redirect,  \* the callback of evhttp for / that redirects to server->index
    sections,  \* the sections read so far
    mounts,    \* server->mountpoints
    paths,     \* callbacks of evhttp: path and mountpoint given as argument
    opened,    \* mountpoints whose aura node is open
    bufnode,   \* <<b, n>>: buffer upload b keeps the node of mountpoint n
    nomem      \* history: an allocation in a mount function has failed

vars == <<run, host, index, redirect, sections, mounts, paths, opened, bufnode,
          nomem>>

\* What a section says: a filesystem (uploads by their mode), where it goes,
\* whether its other parameters are there and usable, and for a buffer upload
\* the mountpoint of its node.
Types == {"control", "node", "static", "upload", "buffer", "v4l2", "unknown", "none"}

Section ==
    [type : Types \ {"buffer"}, mp : Mountpoints \cup {NoMp},
     params : {"good", "bad"}, owner : {NoMp}]
    \cup
    [type : {"buffer"}, mp : Mountpoints, params : {"good"},
     owner : Mountpoints \cup {NoMp}]

Names == {"/version", "/fstab", "/terminate", "/exports", "/events", "/status",
          "/post", "/"}

\* The paths a mount function registers, and those the unmount function takes
\* back: /terminate and the list of a buffer upload are left.
AddedBy(type) ==
    CASE type = "control" -> {"/version", "/fstab", "/terminate"}
      [] type = "node"    -> {"/exports", "/events", "/status"}
      [] type = "upload"  -> {"/post"}
      [] type = "buffer"  -> {"/", "/post"}
      [] OTHER            -> {}

RemovedBy(type) == AddedBy(type) \ {"/terminate", "/"}

TypeOK ==
    /\ run \in {"parsing", "serving", "stopping", "gone", "aborted", "crashed"}
    /\ host \in {"literal", "heap"}
    /\ index \in {"NULL", "heap"}
    /\ redirect \in BOOLEAN
    /\ sections \in Seq(Section) /\ Len(sections) <= MaxSections
    /\ mounts \in SUBSET DOMAIN sections
    /\ paths \in SUBSET [mp : Mountpoints, name : Names, arg : DOMAIN sections]
    /\ opened \in SUBSET DOMAIN sections
    /\ bufnode \in SUBSET ((DOMAIN sections) \X (DOMAIN sections))
    /\ nomem \in BOOLEAN

\* ahttpd_server_create up to parse_config
Init ==
    /\ run = "parsing"
    /\ host = "literal"
    /\ index = "NULL"
    /\ redirect = FALSE
    /\ sections = <<>>
    /\ mounts = {}
    /\ paths = {}
    /\ opened = {}
    /\ bufnode = {}
    /\ nomem = FALSE

---------------------------------------------------------------------------
\* parse_config: "host" and "index" come at most once and before, between or
\* after the sections.
ParseHost ==
    /\ run = "parsing"
    /\ host = "literal"
    /\ host' = "heap"
    /\ UNCHANGED <<run, index, redirect, sections, mounts, paths, opened, bufnode, nomem>>

ParseIndex ==
    /\ run = "parsing"
    /\ index = "NULL"
    /\ index' = "heap"
    /\ UNCHANGED <<run, host, redirect, sections, mounts, paths, opened, bufnode, nomem>>

\* The number the next section gets.
Id == Len(sections) + 1

\* load_mountpoints goes on to section s.
Read(s) ==
    /\ run = "parsing"
    /\ Len(sections) < MaxSections
    /\ sections' = Append(sections, s)
    /\ UNCHANGED <<host, index, redirect>>

\* Faulty variant: the registration of a path replaces an earlier one.
AddPathsOver(s, names) ==
    paths' = {p \in paths : p.mp # s.mp \/ p.name \notin names}
             \cup [mp : {s.mp}, name : names, arg : {Id}]

\* ahttpd_add_path for each of the names: those that are taken stay as they are.
AddPaths(s, names) ==
    paths' = paths \cup
        [mp : {s.mp},
         name : {n \in names : ~ \E p \in paths : p.mp = s.mp /\ p.name = n},
         arg : {Id}]

\* ahttpd_mount, a section without "type" or "mountpoint": BUG()
MountMisconfigured(s) ==
    /\ Read(s)
    /\ s.type = "none" \/ s.mp = NoMp
    /\ run' = "aborted"
    /\ UNCHANGED <<mounts, paths, opened, bufnode, nomem>>

\* cfs_mount of a static section without "dir", up_mount of an upload section
\* without "mode": a string function is given NULL.
MountCrashes(s) ==
    /\ Read(s)
    /\ s.mp # NoMp
    /\ s.type \in {"static", "upload"} /\ s.params = "bad"
    /\ run' = "crashed"
    /\ UNCHANGED <<mounts, paths, opened, bufnode, nomem>>

\* Faulty variant: the paths are registered before the node is opened.
MountFailsLate(s) ==
    /\ Read(s)
    /\ s.mp # NoMp
    /\ \/ s.type = "unknown"
       \/ s.type \in {"node", "v4l2", "upload"} /\ s.params = "bad"
    /\ AddPaths(s, AddedBy(s.type))
    /\ UNCHANGED <<run, mounts, opened, bufnode, nomem>>

\* ahttpd_mount fails: an unknown filesystem; a node without transport or
\* options or that does not open; no usable v4l2 device; an unknown upload
\* mode or a directory that cannot be written to. Nothing is registered yet.
MountFails(s) ==
    /\ Read(s)
    /\ s.mp # NoMp
    /\ \/ s.type = "unknown"
       \/ s.type \in {"node", "v4l2", "upload"} /\ s.params = "bad"
    /\ UNCHANGED <<run, mounts, paths, opened, bufnode, nomem>>

\* Faulty variant: nothing is mounted after a section that could not be.
MountUntilFailure(s) ==
    /\ Read(s)
    /\ s.mp # NoMp
    /\ \/ s.type = "control"
       \/ s.type \in {"node", "static", "upload", "v4l2"} /\ s.params = "good"
    /\ IF mounts = DOMAIN sections
       THEN /\ AddPaths(s, AddedBy(s.type))
            /\ mounts' = mounts \cup {Id}
            /\ opened' = opened \cup (IF s.type = "node" THEN {Id} ELSE {})
       ELSE UNCHANGED <<mounts, paths, opened>>
    /\ UNCHANGED <<run, bufnode, nomem>>

\* ahttpd_mount succeeds for any filesystem but a buffer upload. cfs_mount of
\* the control filesystem has no parameters to look at.
Mount(s) ==
    /\ Read(s)
    /\ s.mp # NoMp
    /\ \/ s.type = "control"
       \/ s.type \in {"node", "static", "upload", "v4l2"} /\ s.params = "good"
    /\ AddPaths(s, AddedBy(s.type))
    /\ mounts' = mounts \cup {Id}
    /\ opened' = opened \cup (IF s.type = "node" THEN {Id} ELSE {})
    /\ UNCHANGED <<run, bufnode, nomem>>

\* ahttpd_mountpoint_lookup: the first mountpoint with that name.
At(mp) == {m \in mounts : sections[m].mp = mp}
Lookup(mp) == Min(At(mp))

\* Faulty variant: any mountpoint at that name will do.
OwnerFoundUntyped(s) == At(s.owner) # {}

\* The tests buffer_init makes.
OwnerFound(s) ==
    /\ At(s.owner) # {}
    /\ sections[Lookup(s.owner)].type = "node"

\* buffer_init, then the rest of up_mount and ahttpd_mount.
MountBuffer(s) ==
    /\ Read(s)
    /\ s.type = "buffer"
    /\ OwnerFound(s)
    /\ AddPaths(s, AddedBy("buffer"))
    /\ mounts' = mounts \cup {Id}
    /\ bufnode' = bufnode \cup {<<Id, Lookup(s.owner)>>}
    /\ UNCHANGED <<run, opened, nomem>>

\* buffer_init finds no owner, or one that is not a node.
MountBufferFails(s) ==
    /\ Read(s)
    /\ s.type = "buffer"
    /\ ~OwnerFound(s)
    /\ UNCHANGED <<run, mounts, paths, opened, bufnode, nomem>>

\* up_mount: there is no memory for the iovecs. buffer_init has registered the
\* list, and the path keeps the pointer to what ahttpd_mount then frees.
MountBufferNoMem(s) ==
    /\ Read(s)
    /\ s.type = "buffer"
    /\ OwnerFound(s)
    /\ AddPaths(s, {"/"})
    /\ nomem' = TRUE
    /\ UNCHANGED <<run, mounts, opened, bufnode>>

\* The end of ahttpd_server_create: / redirects to the index if there is one (a
\* request for it changes nothing), and evhttp_bind_socket succeeds or BUG().
Start ==
    /\ run = "parsing"
    /\ redirect' = (index = "heap")
    /\ run' \in {"serving", "aborted"}
    /\ UNCHANGED <<host, index, sections, mounts, paths, opened, bufnode, nomem>>

\* A request for a registered path: the callback uses its argument, which is
\* freed memory unless the mountpoint is on the list.
Request(p) ==
    /\ run = "serving"
    /\ run' \in IF p.arg \in mounts THEN {"serving"} ELSE {"serving", "crashed"}
    /\ UNCHANGED <<host, index, redirect, sections, mounts, paths, opened, bufnode, nomem>>

\* The event loop ends.
Stop ==
    /\ run = "serving"
    /\ run' = "stopping"
    /\ UNCHANGED <<host, index, redirect, sections, mounts, paths, opened, bufnode, nomem>>

\* Faulty variant: the node of the mountpoint stays open.
UnmountForgetsNode(m) ==
    /\ run = "stopping"
    /\ m \in mounts /\ \A n \in mounts : m <= n
    /\ mounts' = mounts \ {m}
    /\ paths' = {p \in paths : p.mp # sections[m].mp
                            \/ p.name \notin RemovedBy(sections[m].type)}
    /\ UNCHANGED <<run, host, index, redirect, sections, opened, bufnode, nomem>>

\* ahttpd_unmount, for the mountpoint at the head of the list.
Unmount(m) ==
    /\ run = "stopping"
    /\ m \in mounts /\ \A n \in mounts : m <= n
    /\ mounts' = mounts \ {m}
    /\ paths' = {p \in paths : p.mp # sections[m].mp
                            \/ p.name \notin RemovedBy(sections[m].type)}
    /\ opened' = opened \ {m}
    /\ bufnode' = {b \in bufnode : b[1] # m}
    /\ UNCHANGED <<run, host, index, redirect, sections, nomem>>

\* The rest of ahttpd_server_destroy. free() of a string literal ends the
\* process; evhttp_free drops the paths that are left.
Destroy ==
    /\ run = "stopping"
    /\ mounts = {}
    /\ IF host = "literal"
       THEN run' = "crashed" /\ UNCHANGED <<paths, redirect>>
       ELSE run' = "gone" /\ paths' = {} /\ redirect' = FALSE
    /\ UNCHANGED <<host, index, sections, mounts, opened, bufnode, nomem>>

Next ==
    \/ ParseHost
    \/ ParseIndex
    \/ \E s \in Section :
        \/ MountMisconfigured(s)
        \/ MountCrashes(s)
        \/ MountFails(s)
        \/ Mount(s)
        \/ MountBuffer(s)
        \/ MountBufferFails(s)
        \/ MountBufferNoMem(s)
    \/ Start
    \/ \E p \in paths : Request(p)
    \/ Stop
    \/ \E m \in mounts : Unmount(m)
    \/ Destroy

Spec == Init /\ [][Next]_vars

---------------------------------------------------------------------------
\* While requests are dispatched, the argument of every callback is a
\* mountpoint that is mounted: a section whose mount failed leaves no path
\* behind that points to the memory ahttpd_mount released. (It does when
\* up_mount runs out of memory after buffer_init.)
HandlersLive ==
    run = "serving" /\ ~nomem => \A p \in paths : p.arg \in mounts

\* With two sections for one mountpoint, a path belongs to the first of the
\* two that was mounted and offers it; the second is mounted without it.
FirstMountOwnsPath ==
    run = "serving" /\ ~nomem =>
        \A m \in mounts : \A n \in AddedBy(sections[m].type) :
            LET offering == {k \in At(sections[m].mp) : n \in AddedBy(sections[k].type)}
            IN  {p.arg : p \in {q \in paths : q.mp = sections[m].mp /\ q.name = n}}
                = {Min(offering)}

\* The node a buffer upload allocates its buffers from is open as long as
\* uploads can come, and belongs to the mountpoint the section named: no
\* config makes buffer_init take the fsdata of another filesystem for a node.
BufferNodeOpen ==
    run = "serving" =>
        \A b \in bufnode :
            /\ b[2] \in opened
            /\ sections[b[2]].mp = sections[b[1]].owner
            /\ b[2] < b[1]

\* A section can be mounted by itself.
Mountable(i) ==
    \/ sections[i].type = "control"
    \/ sections[i].type \in {"node", "static", "upload", "v4l2"}
       /\ sections[i].params = "good"

\* A section that ends the process: ahttpd_mount() says "skipping" of one without
\* type or mountpoint and aborts, cfs_mount() copies a "dir" that is not there.
\* An upload without "mode" is as bad, but bad parameters of an upload stand for a
\* mode that is unknown as well, which up_mount() only refuses.
Fatal(s) ==
    \/ s.type = "none"
    \/ s.mp = NoMp
    \/ s.type = "static" /\ s.params = "bad"

\* What a server that comes up serves. A section its mount function refuses costs
\* only itself: every mountable section of the config, those after it included,
\* is served, and so is every buffer upload whose owner is the first good section
\* of its name and a node. A section with a key missing that ahttpd_mount() or
\* cfs_mount() rely on is not skipped: no server comes up with one.
GoodSectionsServed ==
    run = "serving" =>
        \A i \in DOMAIN sections :
            LET s == sections[i]
                before == {j \in 1 .. i - 1 :
                             /\ sections[j].mp = s.owner
                             /\ Mountable(j) \/ sections[j].type = "buffer"}
            IN  /\ ~Fatal(s)
                /\ Mountable(i) /\ ~nomem => i \in mounts
                /\ s.type = "buffer" /\ before # {} /\ ~nomem =>
                     (sections[Min(before)].type = "node" => i \in mounts)

\* When ahttpd_server_destroy is through, no node is open and no mountpoint
\* or callback is left.
AllReleased ==
    run = "gone" => opened = {} /\ mounts = {} /\ paths = {} /\ ~redirect

===========================================================================
